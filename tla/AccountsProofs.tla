--------------------------- MODULE AccountsProofs ---------------------------
(***************************************************************************)
(* What holds of the admin account for any number of requests, of steps of *)
(* the clock and of recovery codes: type correctness and the module's four *)
(* safety properties.                                                      *)
(***************************************************************************)
EXTENDS Accounts, TLAPS

CallRecord == [pc: CallPC, n: Number, sid: {0} \cup Number, row: Row, cred: Nat]

\* What a step of request r leaves of the requests.
TurnsTo(r, c) ==
  /\ call' \in [Call -> CallRecord]
  /\ call'[r] = c
  /\ \A q \in Call : q # r => call'[q] = call[q]

LEMMA Bounds ==
  /\ MaxCalls \in Nat /\ MaxStep \in Nat /\ MaxAborts \in Nat /\ MaxStep > 0
  /\ 1 \in Number /\ 0 \in Password /\ 0 \in Secret /\ 0 \in Step
  /\ \A n \in Number : n \in Password /\ n \in Secret /\ n \in Nat
  /\ \A step \in 1..MaxStep : step \in Step /\ step \in Nat
<1>1. MaxCalls \in Nat /\ MaxStep \in Nat /\ MaxAborts \in Nat /\ MaxStep > 0
  BY AccountsAssumption
<1> QED BY <1>1 DEF Number, Password, Secret, Step

LEMMA EmptyRow == NoRow \in Row /\ NoRow.status = "absent" /\ NoRow.enabled = FALSE
BY Bounds DEF NoRow, Row, Status

\* The accounts of AccountsInit.
LEMMA FirstRows ==
  ASSUME AccountsInit
  PROVE  /\ sessions = {} \/ account.status = "active"
         /\ \/ mfaOn = FALSE /\ account.enabled = FALSE
            \/ account.enabled = TRUE /\ account.secret \in proved
         /\ account.secret \in {0, 1} /\ \A code \in account.recovery : code[1] = 1
<1>1. CASE account = NoRow /\ sessions = {} /\ mfaOn = FALSE /\ proved = {}
  BY <1>1 DEF NoRow
<1>2. CASE account = [NoRow EXCEPT !.status = "active", !.password = 1] /\ mfaOn = FALSE
  <2>1. account.status = "active" /\ account.enabled = NoRow.enabled
        /\ account.secret = NoRow.secret /\ account.recovery = NoRow.recovery
    BY <1>2, EmptyRow DEF Row
  <2> QED BY <1>2, <2>1, EmptyRow DEF NoRow
<1>3. CASE /\ account = [status |-> "active", password |-> 1, secret |-> 1, enabled |-> TRUE,
                         lastStep |-> 0, recovery |-> {1} \X Slot]
           /\ mfaOn = TRUE /\ proved = {1}
  BY <1>3
<1> QED BY <1>1, <1>2, <1>3 DEF AccountsInit

LEMMA EmptyCall == NoCall \in CallRecord /\ NoCall.pc = "idle"
BY Bounds, EmptyRow DEF NoCall, CallRecord, CallPC

\* AccountsTypeOK, for what follows.
LEMMA Types ==
  ASSUME AccountsTypeOK
  PROVE  /\ account \in Row /\ call \in [Call -> CallRecord] /\ sessions \subseteq Session
         /\ calls \in 0..MaxCalls /\ calls \in Nat /\ cred \in Nat
         /\ usedCodes \in [recovery: SUBSET RecoveryCode, totp: SUBSET TotpCode]
         /\ \A r \in Call : /\ call[r] \in CallRecord /\ call[r].row \in Row
                            /\ call[r].n \in Number /\ call[r].sid \in {0} \cup Number
                            /\ call[r].cred \in Nat /\ call[r].pc \in CallPC
<1>1. account \in Row /\ sessions \subseteq Session /\ calls \in 0..MaxCalls /\ cred \in Nat
      /\ usedCodes \in [recovery: SUBSET RecoveryCode, totp: SUBSET TotpCode]
  BY DEF AccountsTypeOK
<1>2. call \in [Call -> CallRecord]
  BY DEF AccountsTypeOK, CallRecord
<1>3. \A r \in Call : call[r] \in CallRecord
  BY <1>2
<1>4. calls \in Nat
  BY <1>1, Bounds
<1> QED BY <1>1, <1>2, <1>3, <1>4 DEF CallRecord

-----------------------------------------------------------------------------
\* The ways a request moves.

LEMMA Ends ==
  ASSUME AccountsTypeOK, NEW r \in Call, EndCall(r)
  PROVE  TurnsTo(r, NoCall)
<1>1. call' = [call EXCEPT ![r] = NoCall]
  BY DEF EndCall
<1> QED BY <1>1, Types, EmptyCall DEF TurnsTo

LEMMA Turns ==
  ASSUME AccountsTypeOK, NEW r \in Call, NEW pc \in CallPC, NEW row \in Row,
         call' = [call EXCEPT ![r].pc = pc, ![r].row = row]
  PROVE  TurnsTo(r, [pc |-> pc, n |-> call[r].n, sid |-> call[r].sid, row |-> row,
                     cred |-> call[r].cred])
<1> DEFINE c == [pc |-> pc, n |-> call[r].n, sid |-> call[r].sid, row |-> row,
                 cred |-> call[r].cred]
<1>1. call \in [Call -> CallRecord] /\ call[r] \in CallRecord
  BY Types
<1>2. call' \in [Call -> CallRecord]
  BY <1>1 DEF CallRecord
<1>3. /\ call'[r].pc = pc /\ call'[r].n = call[r].n /\ call'[r].sid = call[r].sid
      /\ call'[r].row = row /\ call'[r].cred = call[r].cred
  BY <1>1 DEF CallRecord
<1>4. call'[r] = c
  <2>1. call'[r] \in CallRecord
    BY <1>2
  <2> QED BY <1>3, <2>1 DEF CallRecord
<1>5. \A q \in Call : q # r => call'[q] = call[q]
  BY <1>1
<1> QED BY <1>2, <1>4, <1>5 DEF TurnsTo

LEMMA Goes ==
  ASSUME AccountsTypeOK, NEW r \in Call, NEW pc \in CallPC, Goto(r, pc)
  PROVE  TurnsTo(r, [pc |-> pc, n |-> call[r].n, sid |-> call[r].sid, row |-> NoRow,
                     cred |-> call[r].cred])
BY Turns, EmptyRow DEF Goto

LEMMA Arrived ==
  ASSUME AccountsTypeOK, NEW r \in Call, NEW pc \in CallPC, NEW sid \in {0} \cup Number,
         NEW row \in Row, Arrive(r, pc, sid, row)
  PROVE  /\ TurnsTo(r, [pc |-> pc, n |-> calls + 2, sid |-> sid, row |-> row, cred |-> cred])
         /\ calls' = calls + 1 /\ calls' \in 0..MaxCalls /\ call[r].pc = "idle"
<1>1. /\ calls < MaxCalls /\ calls' = calls + 1 /\ call[r].pc = "idle"
      /\ call' = [call EXCEPT ![r] = [pc |-> pc, n |-> calls' + 1, sid |-> sid, row |-> row,
                                      cred |-> cred]]
  BY DEF Arrive, CallAt
<1>2. calls' \in 0..MaxCalls /\ calls + 2 \in Number /\ calls' + 1 = calls + 2
  BY <1>1, Types, Bounds DEF Number
<1> DEFINE c == [pc |-> pc, n |-> calls + 2, sid |-> sid, row |-> row, cred |-> cred]
<1>3. c \in CallRecord
  BY <1>2, Types DEF CallRecord
<1>4. call' = [call EXCEPT ![r] = c]
  BY <1>1, <1>2
<1> HIDE DEF c
<1>5. TurnsTo(r, c)
  BY <1>3, <1>4, Types DEF TurnsTo
<1> QED BY <1>1, <1>2, <1>5 DEF c

-----------------------------------------------------------------------------
\* Type correctness

Flags == {lowered, mfaOn, crossed, deactivated, revived, unrevoked} \subseteq BOOLEAN
Codes == /\ usedCodes \in [recovery: SUBSET RecoveryCode, totp: SUBSET TotpCode]
         /\ twice \subseteq {"recovery", "totp"} /\ proved \subseteq Secret
Clocks == /\ clock \in 1..MaxStep /\ calls \in 0..MaxCalls /\ aborts \in 0..MaxAborts
          /\ cred \in Nat

LEMMA TypeParts ==
  AccountsTypeOK <=> /\ account \in Row /\ sessions \subseteq Session
                     /\ call \in [Call -> CallRecord] /\ Clocks /\ Codes /\ Flags
BY DEF AccountsTypeOK, CallRecord, Clocks, Codes, Flags

LEMMA AccountsTypesInitially == AccountsInit => AccountsTypeOK
<1> SUFFICES ASSUME AccountsInit PROVE AccountsTypeOK
  OBVIOUS
<1>1. call \in [Call -> CallRecord]
  BY EmptyCall DEF AccountsInit
<1>2. clock = 1 /\ calls = 0 /\ aborts = 0 /\ cred = 0
  BY DEF AccountsInit
<1>3. Clocks
  BY <1>2, Bounds DEF Clocks
<1>4. /\ usedCodes = [recovery |-> {}, totp |-> {}] /\ twice = {}
      /\ proved = {} \/ proved = {1}
  BY DEF AccountsInit
<1>5. Codes
  BY <1>4, Bounds DEF Codes
<1>6. /\ lowered = FALSE /\ crossed = FALSE /\ deactivated = FALSE /\ revived = FALSE
      /\ unrevoked = FALSE /\ (mfaOn = TRUE \/ mfaOn = FALSE)
  BY Zenon DEF AccountsInit
<1>7. Flags
  BY <1>6, Zenon DEF Flags
<1>8. sessions \subseteq Session
  <2>1. [sid |-> 1, cred |-> 0, late |-> FALSE] \in Session
    BY Bounds DEF Session
  <2> QED BY <2>1 DEF AccountsInit
<1>9. account \in Row
  <2>1. {1} \X Slot \subseteq RecoveryCode
    BY Bounds DEF RecoveryCode
  <2>2. [status |-> "active", password |-> 1, secret |-> 1, enabled |-> TRUE, lastStep |-> 0,
         recovery |-> {1} \X Slot] \in Row
    BY <2>1, Bounds DEF Row, Status
  <2>3. [NoRow EXCEPT !.status = "active", !.password = 1] \in Row
    BY Bounds, EmptyRow DEF Row, Status
  <2> QED BY <2>2, <2>3, EmptyRow DEF AccountsInit
<1> QED BY <1>1, <1>3, <1>5, <1>7, <1>8, <1>9, TypeParts

\* The requests' own part.
LEMMA CallsTyped ==
  ASSUME AccountsTypeOK, NEW r \in Call, CallStep(r)
  PROVE  call' \in [Call -> CallRecord] /\ Clocks'
<1> USE Types
<1>1. Clocks
  BY TypeParts
<1>2. /\ clock \in 1..MaxStep /\ calls \in 0..MaxCalls /\ aborts \in 0..MaxAborts
      /\ cred \in Nat /\ cred + 1 \in Nat
  BY <1>1 DEF Clocks
<1>3. aborts < MaxAborts => aborts + 1 \in 0..MaxAborts
  BY <1>2, Bounds
<1>4. {"mfa", "session", "entered", "accept", "revokeAll", "revoke", "password", "setup", "confirm",
       "disable"} \subseteq CallPC
  BY DEF CallPC
<1>5. CASE LoginRead(r) \/ AcceptRead(r) \/ Deactivate(r) \/ \E s \in sessions : Enter(r, s)
  <2>1. PICK pc \in CallPC, sid \in {0} \cup Number, row \in Row : Arrive(r, pc, sid, row)
    <3>1. CASE LoginRead(r)
      BY <3>1, <1>4, EmptyRow DEF LoginRead
    <3>2. CASE AcceptRead(r) \/ Deactivate(r)
      BY <3>2, <1>4, EmptyRow DEF AcceptRead, Deactivate
    <3>3. CASE \E s \in sessions : Enter(r, s)
      BY <3>3, <1>4, EmptyRow DEF Enter, Session
    <3> QED BY <1>5, <3>1, <3>2, <3>3
  <2>2. call' \in [Call -> CallRecord] /\ calls' \in 0..MaxCalls
    BY <2>1, Arrived DEF TurnsTo
  <2>3. UNCHANGED <<clock, aborts, cred>>
    BY <1>5, Zenon DEF LoginRead, AcceptRead, Deactivate, Enter
  <2> QED BY <1>2, <2>2, <2>3 DEF Clocks
<1>6. CASE EndCall(r) /\ (CallAborts(r) \/ UNCHANGED <<clock, calls, aborts, cred>>)
  <2>1. call' \in [Call -> CallRecord]
    BY <1>6, Ends DEF TurnsTo
  <2> QED BY <1>2, <1>3, <1>6, <2>1 DEF Clocks, CallAborts
<1>7. CASE AcceptWrite(r)
  <2>1. call' \in [Call -> CallRecord]
    BY <1>7, Ends DEF TurnsTo, AcceptWrite
  <2> QED BY <1>2, <1>7, <2>1 DEF Clocks, AcceptWrite
<1>8. CASE (Goto(r, "session") \/ Goto(r, "revoke")) /\ UNCHANGED <<clock, calls, aborts>>
           /\ (UNCHANGED cred \/ cred' = cred + 1)
  <2>1. call' \in [Call -> CallRecord]
    BY <1>4, <1>8, Goes DEF TurnsTo
  <2> QED BY <1>2, <1>8, <2>1 DEF Clocks
<1>9. CASE \E pc \in {"password", "setup", "confirm", "disable"} : HandlerRead(r, pc)
  <2>1. call' \in [Call -> CallRecord]
    BY <1>4, <1>9, Turns DEF TurnsTo, HandlerRead
  <2> QED BY <1>2, <1>9, <2>1 DEF Clocks, HandlerRead
<1>10. CASE \/ LoginSession(r) \/ Refused(r) \/ SetupWrite(r) \/ RevokeOthers(r) \/ RevokeAll(r)
            \/ CallAborts(r)
  BY <1>6, <1>10, Zenon DEF LoginSession, Refused, SetupWrite, RevokeOthers, RevokeAll, CallAborts
<1>11. CASE \E code \in RecoveryCode : LoginRecovery(r, code)
  BY <1>6, <1>8, <1>11, Zenon DEF LoginRecovery
<1>12. CASE \E step \in 1..MaxStep : LoginTotp(r, step) \/ ConfirmWrite(r, step)
  BY <1>6, <1>8, <1>12, Zenon DEF LoginTotp, ConfirmWrite
<1>13. CASE PasswordWrite(r) \/ DisableWrite(r)
  BY <1>8, <1>13, Zenon DEF PasswordWrite, DisableWrite
<1> QED
  BY <1>5, <1>7, <1>9, <1>10, <1>11, <1>12, <1>13, Zenon DEF CallStep

\* The fields of the row that a write sets.
LEMMA RowWritten ==
  ASSUME AccountsTypeOK, NEW r \in Call, CallStep(r)
  PROVE  account' \in Row
<1> USE Types
<1>1. account \in Row /\ call[r].n \in Password /\ call[r].n \in Secret
      /\ {call[r].n} \X Slot \subseteq RecoveryCode
  BY Bounds DEF RecoveryCode
<1>2. CASE UNCHANGED account
  BY <1>1, <1>2
<1>3. CASE \E code \in RecoveryCode : LoginRecovery(r, code)
  <2>1. PICK code : account' = [account EXCEPT !.recovery = @ \ {code}] \/ account' = account
    BY <1>3 DEF LoginRecovery
  <2> QED BY <1>1, <2>1 DEF Row
<1>4. CASE \E step \in 1..MaxStep : LoginTotp(r, step) \/ ConfirmWrite(r, step)
  <2>1. PICK step \in 1..MaxStep : LoginTotp(r, step) \/ ConfirmWrite(r, step)
    BY <1>4
  <2>2. step \in Step
    BY Bounds
  <2>3. \/ account' = [account EXCEPT !.lastStep = step] \/ account' = account
        \/ account' = [account EXCEPT !.enabled = TRUE, !.lastStep = step,
                                      !.recovery = {call[r].n} \X Slot]
    BY <2>1 DEF LoginTotp, ConfirmWrite
  <2> QED BY <1>1, <2>2, <2>3 DEF Row
<1>5. CASE PasswordWrite(r) \/ SetupWrite(r) \/ DisableWrite(r)
  BY <1>1, <1>5, Bounds DEF PasswordWrite, SetupWrite, DisableWrite, Row
<1>6. CASE AcceptWrite(r) \/ Deactivate(r)
  BY <1>1, <1>6, Bounds DEF AcceptWrite, Deactivate, Row, Status
<1> QED
  BY <1>2, <1>3, <1>4, <1>5, <1>6, Zenon
  DEF CallStep, LoginRead, LoginSession, Refused, Enter, HandlerRead, RevokeOthers, AcceptRead,
      RevokeAll, CallAborts

LEMMA SessionsWritten ==
  ASSUME AccountsTypeOK, NEW r \in Call, CallStep(r)
  PROVE  sessions' \subseteq Session
<1> USE Types
<1>1. CASE UNCHANGED sessions
  BY <1>1
<1>2. CASE LoginSession(r)
  <2>1. CallAt(r, "session") /\ (call[r].cred # cred) \in BOOLEAN
    BY <1>2, Zenon DEF LoginSession
  <2>2. [sid |-> call[r].n, cred |-> call[r].cred, late |-> call[r].cred # cred] \in Session
    BY <2>1 DEF Session
  <2>3. sessions' = sessions \cup
          {[sid |-> call[r].n, cred |-> call[r].cred, late |-> call[r].cred # cred]}
    BY <1>2 DEF LoginSession
  <2> QED BY <2>2, <2>3
<1>3. CASE RevokeOthers(r)
  <2>1. \A s \in sessions : [s EXCEPT !.cred = cred, !.late = FALSE] \in Session
    BY DEF Session
  <2> QED BY <1>3, <2>1 DEF RevokeOthers
<1>4. CASE RevokeAll(r)
  BY <1>4 DEF RevokeAll
<1> QED
  BY <1>1, <1>2, <1>3, <1>4, Zenon
  DEF CallStep, LoginRead, LoginRecovery, LoginTotp, Refused, Enter, HandlerRead, PasswordWrite,
      SetupWrite, ConfirmWrite, DisableWrite, AcceptRead, AcceptWrite, Deactivate, CallAborts

LEMMA CodesWritten ==
  ASSUME AccountsTypeOK, NEW r \in Call, CallStep(r)
  PROVE  Codes'
<1> USE Types
<1>1. Codes
  BY TypeParts
<1>2. CASE UNCHANGED <<usedCodes, twice, proved>>
  BY <1>1, <1>2 DEF Codes
<1>3. CASE \E code \in RecoveryCode : LoginRecovery(r, code)
  <2>1. PICK code \in RecoveryCode : LoginRecovery(r, code)
    BY <1>3
  <2>2. \/ UNCHANGED <<usedCodes, twice>>
        \/ /\ usedCodes' = [usedCodes EXCEPT !.recovery = @ \cup {code}]
           /\ twice' = twice \/ twice' = twice \cup {"recovery"}
    BY <2>1 DEF LoginRecovery
  <2>3. UNCHANGED proved
    BY <2>1 DEF LoginRecovery
  <2> QED BY <1>1, <2>2, <2>3 DEF Codes
<1>4. CASE \E step \in 1..MaxStep : LoginTotp(r, step)
  <2>1. PICK step \in 1..MaxStep : LoginTotp(r, step)
    BY <1>4
  <2>2. call[r].row.secret # 0 /\ call[r].row.secret \in Secret
    BY <2>1 DEF LoginTotp, TotpAccepted, Row
  <2>3. <<call[r].row.secret, step>> \in TotpCode
    BY <2>2 DEF TotpCode, Secret
  <2>4. \/ UNCHANGED <<usedCodes, twice>>
        \/ /\ usedCodes' = [usedCodes EXCEPT !.totp = @ \cup {<<call[r].row.secret, step>>}]
           /\ twice' = twice \/ twice' = twice \cup {"totp"}
    BY <2>1 DEF LoginTotp
  <2>5. UNCHANGED proved
    BY <2>1 DEF LoginTotp
  <2> QED BY <1>1, <2>3, <2>4, <2>5 DEF Codes
<1>5. CASE \E step \in 1..MaxStep : ConfirmWrite(r, step)
  <2>1. proved' = proved \cup {call[r].row.secret} /\ UNCHANGED <<usedCodes, twice>>
    BY <1>5 DEF ConfirmWrite
  <2>2. call[r].row.secret \in Secret
    BY DEF Row
  <2> QED BY <1>1, <2>1, <2>2 DEF Codes
<1> QED
  BY <1>2, <1>3, <1>4, <1>5, Zenon
  DEF CallStep, LoginRead, LoginSession, Refused, Enter, HandlerRead, PasswordWrite, SetupWrite,
      DisableWrite, RevokeOthers, AcceptRead, AcceptWrite, Deactivate, RevokeAll, CallAborts,
      mfaGhosts

LEMMA FlagsWritten ==
  ASSUME AccountsTypeOK, NEW r \in Call, CallStep(r)
  PROVE  Flags'
<1>1. /\ lowered \in BOOLEAN /\ mfaOn \in BOOLEAN /\ crossed \in BOOLEAN
      /\ deactivated \in BOOLEAN /\ revived \in BOOLEAN /\ unrevoked \in BOOLEAN
  BY TypeParts DEF Flags
<1> SUFFICES /\ lowered' \in BOOLEAN /\ mfaOn' \in BOOLEAN /\ crossed' \in BOOLEAN
             /\ deactivated' \in BOOLEAN /\ revived' \in BOOLEAN /\ unrevoked' \in BOOLEAN
  BY DEF Flags
<1>2. CASE UNCHANGED <<lowered, mfaOn, crossed, deactivated, revived, unrevoked>>
  BY <1>1, <1>2, Zenon
<1>3. CASE SetupWrite(r)
  BY <1>1, <1>3, Zenon DEF SetupWrite, userGhosts
<1>4. CASE \E step \in 1..MaxStep : ConfirmWrite(r, step)
  BY <1>1, <1>4, Zenon DEF ConfirmWrite, userGhosts
<1>5. CASE DisableWrite(r)
  BY <1>1, <1>5, Zenon DEF DisableWrite, userGhosts
<1>6. CASE AcceptWrite(r)
  BY <1>1, <1>6, Zenon DEF AcceptWrite, mfaGhosts
<1>7. CASE Deactivate(r)
  BY <1>1, <1>7, Zenon DEF Deactivate, mfaGhosts
<1>8. CASE CallAborts(r)
  BY <1>1, <1>8, Zenon DEF CallAborts, mfaGhosts, userGhosts
<1> QED
  BY <1>2, <1>3, <1>4, <1>5, <1>6, <1>7, <1>8, Zenon
  DEF CallStep, LoginRead, LoginRecovery, LoginTotp, LoginSession, Refused, Enter, HandlerRead,
      PasswordWrite, RevokeOthers, AcceptRead, RevokeAll, mfaGhosts, userGhosts

LEMMA AccountsTypesPreserved ==
  AccountsTypeOK /\ [AccountsNext]_accountVars => AccountsTypeOK'
<1> SUFFICES ASSUME AccountsTypeOK, [AccountsNext]_accountVars PROVE AccountsTypeOK'
  OBVIOUS
<1>1. /\ account \in Row /\ sessions \subseteq Session /\ call \in [Call -> CallRecord]
      /\ Clocks /\ Codes /\ Flags
  BY TypeParts
<1> SUFFICES /\ account' \in Row /\ sessions' \subseteq Session /\ call' \in [Call -> CallRecord]
             /\ Clocks' /\ Codes' /\ Flags'
  BY TypeParts DEF AccountsTypeOK, CallRecord, Clocks, Codes, Flags
<1>2. CASE \E r \in Call : CallStep(r)
  BY <1>2, CallsTyped, RowWritten, SessionsWritten, CodesWritten, FlagsWritten
<1>3. CASE \E s \in sessions : SessionEnds(s)
  <2>1. sessions' \subseteq sessions
        /\ UNCHANGED <<account, call, clock, calls, aborts, cred, mfaGhosts, userGhosts, unrevoked>>
    BY <1>3 DEF SessionEnds
  <2> QED BY <1>1, <2>1 DEF Clocks, Codes, Flags, mfaGhosts, userGhosts
<1>4. CASE Invite
  <2>1. account' = [account EXCEPT !.status = "pending"]
        /\ UNCHANGED <<sessions, call, clock, calls, aborts, cred, mfaGhosts, userGhosts, unrevoked>>
    BY <1>4 DEF Invite
  <2>2. account' \in Row
    BY <1>1, <2>1 DEF Row, Status
  <2> QED BY <1>1, <2>1, <2>2 DEF Clocks, Codes, Flags, mfaGhosts, userGhosts
<1>5. CASE AuthenticatorTick
  <2>1. clock < MaxStep /\ clock' = clock + 1
        /\ UNCHANGED <<account, sessions, call, calls, aborts, cred, mfaGhosts, userGhosts, unrevoked>>
    BY <1>5 DEF AuthenticatorTick
  <2>2. clock' \in 1..MaxStep
    BY <1>1, <2>1, Bounds DEF Clocks
  <2> QED BY <1>1, <2>1, <2>2 DEF Clocks, Codes, Flags, mfaGhosts, userGhosts
<1>6. CASE UNCHANGED accountVars
  BY <1>1, <1>6 DEF accountVars, Clocks, Codes, Flags, mfaGhosts, userGhosts
<1> QED BY <1>2, <1>3, <1>4, <1>5, <1>6 DEF AccountsNext

\* Type correctness of the account, its sessions and its requests.
THEOREM AccountsTypeCorrect == AccountsSpec => []AccountsTypeOK
BY AccountsTypesInitially, AccountsTypesPreserved, PTL DEF AccountsSpec

-----------------------------------------------------------------------------
\* Where a step leaves its request, and that it leaves the others alone.

Reads(r) == LoginRead(r) \/ AcceptRead(r) \/ Deactivate(r) \/ \E s \in sessions : Enter(r, s)
Finishes(r) ==
  \/ LoginSession(r) \/ Refused(r) \/ SetupWrite(r) \/ RevokeOthers(r) \/ AcceptWrite(r)
  \/ RevokeAll(r) \/ CallAborts(r)
Changes(r) == \/ PasswordWrite(r) \/ DisableWrite(r)
              \/ \E step \in 1..MaxStep : ConfirmWrite(r, step)
TakesCode(r) == \/ \E code \in RecoveryCode : LoginRecovery(r, code)
                \/ \E step \in 1..MaxStep : LoginTotp(r, step)

LEMMA KindsOfStep ==
  ASSUME NEW r \in Call, CallStep(r)
  PROVE  \/ Reads(r) \/ Finishes(r) \/ Changes(r) \/ TakesCode(r)
         \/ \E pc \in {"password", "setup", "confirm", "disable"} : HandlerRead(r, pc)
BY Zenon DEF CallStep, Reads, Finishes, Changes, TakesCode

MovesTo(r, pc, n, row, c) ==
  /\ \A q \in Call : q # r => call'[q] = call[q]
  /\ call'[r].pc = pc /\ call'[r].n = n /\ call'[r].row = row /\ call'[r].cred = c

LEMMA Moved ==
  ASSUME NEW r \in Call, NEW pc, NEW n, NEW sid, NEW row, NEW c,
         TurnsTo(r, [pc |-> pc, n |-> n, sid |-> sid, row |-> row, cred |-> c])
  PROVE  MovesTo(r, pc, n, row, c)
BY DEF TurnsTo, MovesTo

LEMMA AfterReads ==
  ASSUME AccountsTypeOK, NEW r \in Call, Reads(r)
  PROVE  /\ \A q \in Call : q # r => call'[q] = call[q]
         /\ call[r].pc = "idle" /\ calls' = calls + 1
         /\ call'[r].n = calls + 2 /\ call'[r].cred = cred
         /\ \/ LoginRead(r) /\ call'[r].pc = "mfa" /\ call'[r].row = account
            \/ LoginRead(r) /\ call'[r].pc = "session"
            \/ AcceptRead(r) /\ call'[r].pc = "accept" /\ call'[r].row = account
            \/ Deactivate(r) /\ call'[r].pc = "revokeAll"
            \/ (\E s \in sessions : Enter(r, s)) /\ call'[r].pc = "entered"
<1>1. {"mfa", "session", "entered", "accept", "revokeAll"} \subseteq CallPC
      /\ account \in Row /\ NoRow \in Row
  BY Types, EmptyRow DEF CallPC
<1>2. ASSUME NEW pc \in CallPC, NEW sid \in {0} \cup Number, NEW row \in Row,
             Arrive(r, pc, sid, row)
      PROVE  MovesTo(r, pc, calls + 2, row, cred) /\ call[r].pc = "idle" /\ calls' = calls + 1
  BY <1>2, Arrived, Moved
<1>3. CASE LoginRead(r)
  <2>1. \/ Arrive(r, "mfa", 0, account)
        \/ Arrive(r, "session", 0, NoRow)
    BY <1>3 DEF LoginRead
  <2>2. /\ \/ MovesTo(r, "mfa", calls + 2, account, cred)
           \/ MovesTo(r, "session", calls + 2, NoRow, cred)
        /\ call[r].pc = "idle" /\ calls' = calls + 1
    BY <1>1, <1>2, <2>1
  <2> QED BY <1>3, <2>2 DEF MovesTo
<1>4. CASE AcceptRead(r)
  <2>1. Arrive(r, "accept", 0, account)
    BY <1>4 DEF AcceptRead
  <2>2. MovesTo(r, "accept", calls + 2, account, cred) /\ call[r].pc = "idle" /\ calls' = calls + 1
    BY <1>1, <1>2, <2>1
  <2> QED BY <1>4, <2>2 DEF MovesTo
<1>5. CASE Deactivate(r)
  <2>1. Arrive(r, "revokeAll", 0, NoRow)
    BY <1>5 DEF Deactivate
  <2>2. MovesTo(r, "revokeAll", calls + 2, NoRow, cred) /\ call[r].pc = "idle" /\ calls' = calls + 1
    BY <1>1, <1>2, <2>1
  <2> QED BY <1>5, <2>2 DEF MovesTo
<1>6. CASE \E s \in sessions : Enter(r, s)
  <2>1. PICK sid \in {0} \cup Number : Arrive(r, "entered", sid, NoRow)
    BY <1>6, Types DEF Enter, Session
  <2>2. MovesTo(r, "entered", calls + 2, NoRow, cred) /\ call[r].pc = "idle" /\ calls' = calls + 1
    BY <1>1, <1>2, <2>1
  <2> QED BY <1>6, <2>2 DEF MovesTo
<1> QED BY <1>3, <1>4, <1>5, <1>6 DEF Reads

LEMMA AfterFinishes ==
  ASSUME AccountsTypeOK, NEW r \in Call, Finishes(r)
  PROVE  /\ \A q \in Call : q # r => call'[q] = call[q]
         /\ call'[r].pc = "idle" /\ calls' = calls
<1>1. EndCall(r) /\ calls' = calls
  BY Zenon DEF Finishes, LoginSession, Refused, SetupWrite, RevokeOthers, AcceptWrite, RevokeAll,
               CallAborts
<1>2. TurnsTo(r, NoCall)
  BY <1>1, Ends
<1> QED BY <1>1, <1>2, EmptyCall DEF TurnsTo

LEMMA AfterChanges ==
  ASSUME AccountsTypeOK, NEW r \in Call, Changes(r)
  PROVE  /\ \A q \in Call : q # r => call'[q] = call[q]
         /\ call'[r].pc = "revoke" /\ call'[r].n = call[r].n /\ calls' = calls
         /\ call[r].pc \in {"password", "disable", "confirm"} /\ cred' = cred + 1
<1>1. /\ Goto(r, "revoke") /\ calls' = calls /\ cred' = cred + 1
      /\ call[r].pc \in {"password", "disable", "confirm"}
  BY DEF Changes, PasswordWrite, DisableWrite, ConfirmWrite, CallAt
<1>2. "revoke" \in CallPC
  BY DEF CallPC
<1>3. MovesTo(r, "revoke", call[r].n, NoRow, call[r].cred)
  BY <1>1, <1>2, Goes, Moved
<1> QED BY <1>1, <1>3 DEF MovesTo

LEMMA AfterTakesCode ==
  ASSUME AccountsTypeOK, NEW r \in Call, TakesCode(r)
  PROVE  /\ \A q \in Call : q # r => call'[q] = call[q]
         /\ call[r].pc = "mfa" /\ calls' = calls
         /\ \/ call'[r].pc = "session" /\ call'[r].n = call[r].n
            \/ call'[r].pc = "idle" /\ account' = account
<1>1. /\ Goto(r, "session") \/ (EndCall(r) /\ account' = account)
      /\ calls' = calls /\ call[r].pc = "mfa"
  BY DEF TakesCode, LoginRecovery, LoginTotp, CallAt
<1>2. CASE Goto(r, "session")
  <2>1. "session" \in CallPC
    BY DEF CallPC
  <2>2. MovesTo(r, "session", call[r].n, NoRow, call[r].cred)
    BY <1>2, <2>1, Goes, Moved
  <2> QED BY <1>1, <2>2 DEF MovesTo
<1>3. CASE EndCall(r) /\ account' = account
  <2>1. TurnsTo(r, NoCall)
    BY <1>3, Ends
  <2> QED BY <1>1, <1>3, <2>1, EmptyCall DEF TurnsTo
<1> QED BY <1>1, <1>2, <1>3

LEMMA AfterHandlerRead ==
  ASSUME AccountsTypeOK, NEW r \in Call,
         NEW pc \in {"password", "setup", "confirm", "disable"}, HandlerRead(r, pc)
  PROVE  /\ \A q \in Call : q # r => call'[q] = call[q]
         /\ call[r].pc = "entered" /\ calls' = calls /\ account' = account
         /\ call'[r].pc = pc /\ call'[r].n = call[r].n /\ call'[r].row = account
<1>1. /\ call' = [call EXCEPT ![r].pc = pc, ![r].row = account]
      /\ call[r].pc = "entered" /\ calls' = calls /\ account' = account
  BY DEF HandlerRead, CallAt
<1>2. pc \in CallPC /\ account \in Row
  BY Types DEF CallPC
<1>3. MovesTo(r, pc, call[r].n, account, call[r].cred)
  BY <1>1, <1>2, Turns, Moved
<1> QED BY <1>1, <1>3 DEF MovesTo

-----------------------------------------------------------------------------
\* Deactivation

\* An acceptance has read a pending row.
StaysDeactivated ==
  /\ DeactivationIsFinal
  /\ \A r \in Call : call[r].pc = "accept" => call[r].row.status = "pending"

LEMMA DeactivationStep ==
  ASSUME AccountsTypeOK, StaysDeactivated, NEW r \in Call, CallStep(r)
  PROVE  StaysDeactivated'
<1> USE Types
<1>1. /\ deactivated => account.status = "disabled" \/ revived
      /\ \A q \in Call : call[q].pc = "accept" => call[q].row.status = "pending"
      /\ account \in Row
  BY DEF StaysDeactivated, DeactivationIsFinal
<1> SUFFICES /\ deactivated' => account'.status = "disabled" \/ revived'
             /\ \A q \in Call : call'[q].pc = "accept" => call'[q].row.status = "pending"
  BY DEF StaysDeactivated, DeactivationIsFinal
<1>2. ASSUME UNCHANGED <<userGhosts>>, account'.status = account.status
      PROVE  deactivated' => account'.status = "disabled" \/ revived'
  BY <1>1, <1>2 DEF userGhosts
<1>3. CASE Reads(r)
  <2>1. \A q \in Call : call'[q].pc = "accept" => call'[q].row.status = "pending"
    <3>1. call'[r].pc = "accept" => AcceptRead(r) /\ call'[r].row = account
      BY <1>3, AfterReads
    <3>2. AcceptRead(r) => account.status = "pending"
      BY DEF AcceptRead
    <3>3. \A q \in Call : q # r => call'[q] = call[q]
      BY <1>3, AfterReads
    <3> QED BY <1>1, <3>1, <3>2, <3>3
  <2>2. CASE Deactivate(r)
    <3>1. account'.status = "disabled"
      BY <1>1, <2>2 DEF Deactivate, Row
    <3> QED BY <2>1, <3>1
  <2>3. CASE LoginRead(r) \/ AcceptRead(r) \/ \E s \in sessions : Enter(r, s)
    <3>1. UNCHANGED <<account, userGhosts>>
      BY <2>3 DEF LoginRead, AcceptRead, Enter
    <3> QED BY <1>2, <2>1, <3>1
  <2> QED BY <1>3, <2>2, <2>3 DEF Reads
<1>4. CASE Finishes(r)
  <2>1. \A q \in Call : call'[q].pc = "accept" => call'[q].row.status = "pending"
    BY <1>1, <1>4, AfterFinishes
  <2>2. CASE AcceptWrite(r)
    <3>1. /\ revived' = (revived \/ (account.status = "disabled" /\ call[r].row.status = "pending"))
          /\ deactivated' = deactivated
      BY <2>2 DEF AcceptWrite
    <3>2. call[r].row.status = "pending"
      BY <1>1, <2>2 DEF AcceptWrite, CallAt
    <3>3. deactivated' => revived'
      BY <1>1, <3>1, <3>2, Zenon
    <3> QED BY <2>1, <3>3
  <2>3. CASE SetupWrite(r)
    <3>1. account'.status = account.status /\ UNCHANGED userGhosts
      BY <1>1, <2>3 DEF SetupWrite, Row
    <3> QED BY <1>2, <2>1, <3>1
  <2>4. CASE LoginSession(r) \/ Refused(r) \/ RevokeOthers(r) \/ RevokeAll(r) \/ CallAborts(r)
    <3>1. UNCHANGED <<account, userGhosts>>
      BY <2>4 DEF LoginSession, Refused, RevokeOthers, RevokeAll, CallAborts
    <3> QED BY <1>2, <2>1, <3>1
  <2> QED BY <1>4, <2>2, <2>3, <2>4 DEF Finishes
<1>5. CASE Changes(r)
  <2>1. account'.status = account.status /\ UNCHANGED userGhosts
    BY <1>1, <1>5 DEF Changes, PasswordWrite, DisableWrite, ConfirmWrite, Row
  <2>2. \A q \in Call : call'[q].pc = "accept" => call'[q].row.status = "pending"
    BY <1>1, <1>5, AfterChanges
  <2> QED BY <1>2, <2>1, <2>2
<1>6. CASE TakesCode(r)
  <2>1. account'.status = account.status /\ UNCHANGED userGhosts
    BY <1>1, <1>6 DEF TakesCode, LoginRecovery, LoginTotp, Row
  <2>2. \A q \in Call : call'[q].pc = "accept" => call'[q].row.status = "pending"
    BY <1>1, <1>6, AfterTakesCode
  <2> QED BY <1>2, <2>1, <2>2
<1>7. CASE \E pc \in {"password", "setup", "confirm", "disable"} : HandlerRead(r, pc)
  <2>1. UNCHANGED <<account, userGhosts>>
    BY <1>7 DEF HandlerRead
  <2>2. \A q \in Call : call'[q].pc = "accept" => call'[q].row.status = "pending"
    BY <1>1, <1>7, AfterHandlerRead
  <2> QED BY <1>2, <2>1, <2>2
<1> QED BY <1>3, <1>4, <1>5, <1>6, <1>7, KindsOfStep

\* A deactivated account stays so, whatever links, logins and MFA requests do: only an
\* acceptance that read the row while it was pending makes it active again.
THEOREM DeactivationStays == AccountsSpec => []DeactivationIsFinal
<1>1. AccountsInit => StaysDeactivated
  BY EmptyCall DEF AccountsInit, StaysDeactivated, DeactivationIsFinal
<1>2. AccountsTypeOK /\ StaysDeactivated /\ [AccountsNext]_accountVars => StaysDeactivated'
  <2> SUFFICES ASSUME AccountsTypeOK, StaysDeactivated, [AccountsNext]_accountVars
               PROVE  StaysDeactivated'
    OBVIOUS
  <2>1. CASE \E r \in Call : CallStep(r)
    BY <2>1, DeactivationStep
  <2>2. CASE Invite
    <3>1. /\ account.status = "absent" /\ account' = [account EXCEPT !.status = "pending"]
          /\ UNCHANGED <<call, userGhosts>>
      BY <2>2 DEF Invite
    <3> QED BY <3>1 DEF StaysDeactivated, DeactivationIsFinal, userGhosts
  <2>3. CASE AuthenticatorTick \/ (\E s \in sessions : SessionEnds(s)) \/ UNCHANGED accountVars
    <3>1. UNCHANGED <<account, call, userGhosts>>
      BY <2>3 DEF AuthenticatorTick, SessionEnds, accountVars
    <3> QED BY <3>1 DEF StaysDeactivated, DeactivationIsFinal, userGhosts
  <2> QED BY <2>1, <2>2, <2>3 DEF AccountsNext
<1>3. StaysDeactivated => DeactivationIsFinal
  BY DEF StaysDeactivated
<1> QED BY <1>1, <1>2, <1>3, AccountsTypeCorrect, PTL DEF AccountsSpec

-----------------------------------------------------------------------------
\* Sessions

Revoking == \E r \in Call : call[r].pc = "revoke"
Current(s) == s.cred = cred \/ s.late \/ unrevoked

\* An account that has not been accepted has no session and no request under way but
\* acceptances.
NotYetActive ==
  account.status \in {"absent", "pending"} =>
    sessions = {} /\ \A r \in Call : call[r].pc \in {"idle", "accept"}

SessionsCurrent == (Revoking \/ \A s \in sessions : Current(s)) /\ NotYetActive

LEMMA SessionsCurrentIsIt ==
  ASSUME SessionsCurrent
  PROVE  OldCredentialsEndSessions
BY DEF SessionsCurrent, OldCredentialsEndSessions, Revoking, Current, CallAt

LEMMA SessionsStep ==
  ASSUME AccountsTypeOK, SessionsCurrent, NEW r \in Call, CallStep(r)
  PROVE  SessionsCurrent'
<1> USE Types
<1>1. /\ Revoking \/ \A s \in sessions : Current(s)
      /\ NotYetActive /\ account \in Row
  BY DEF SessionsCurrent
<1> DEFINE Fine == Revoking \/ \A s \in sessions : Current(s)
<1> SUFFICES Fine' /\ NotYetActive'
  BY DEF SessionsCurrent
<1>2. ASSUME \A q \in Call : q # r => call'[q] = call[q], call[r].pc # "revoke",
             sessions' \subseteq sessions, cred' = cred, unrevoked => unrevoked'
      PROVE  Fine'
  BY <1>1, <1>2 DEF Revoking, Current
<1>3. CASE Reads(r)
  <2>1. UNCHANGED <<sessions, cred, unrevoked>>
    BY <1>3, Zenon DEF Reads, LoginRead, AcceptRead, Deactivate, Enter
  <2>2. Fine'
    BY <1>2, <1>3, <2>1, AfterReads
  <2>3. CASE LoginRead(r) \/ \E s \in sessions : Enter(r, s)
    <3>1. account' = account /\ account.status = "active"
      BY <2>3 DEF LoginRead, Enter
    <3> QED BY <2>2, <3>1 DEF NotYetActive
  <2>4. CASE Deactivate(r)
    <3>1. account'.status = "disabled"
      BY <1>1, <2>4 DEF Deactivate, Row
    <3> QED BY <2>2, <3>1 DEF NotYetActive
  <2>5. CASE AcceptRead(r)
    <3>1. account' = account /\ account.status = "pending"
      BY <2>5 DEF AcceptRead
    <3>2. ~LoginRead(r) /\ ~Deactivate(r) /\ ~\E s \in sessions : Enter(r, s)
      <4>1. ~LoginRead(r) /\ ~\E s \in sessions : Enter(r, s)
        BY <3>1 DEF LoginRead, Enter
      <4>2. ~Deactivate(r)
        <5>1. Deactivate(r) => account'.status = "disabled"
          BY <1>1 DEF Deactivate, Row
        <5> QED BY <3>1, <5>1
      <4> QED BY <4>1, <4>2
    <3>3. call'[r].pc = "accept" /\ \A q \in Call : q # r => call'[q] = call[q]
      BY <1>3, <3>2, AfterReads
    <3> QED BY <1>1, <2>1, <2>2, <3>1, <3>3 DEF NotYetActive
  <2> QED BY <1>3, <2>3, <2>4, <2>5 DEF Reads
<1>4. CASE Finishes(r)
  <2>1. (\A q \in Call : q # r => call'[q] = call[q]) /\ call'[r].pc = "idle"
    BY <1>4, AfterFinishes
  <2>2. ASSUME UNCHANGED <<account, sessions>> PROVE NotYetActive'
    BY <1>1, <2>1, <2>2 DEF NotYetActive
  <2>3. CASE LoginSession(r)
    <3>1. /\ sessions' = sessions \cup
               {[sid |-> call[r].n, cred |-> call[r].cred, late |-> call[r].cred # cred]}
          /\ UNCHANGED <<account, cred, unrevoked>> /\ call[r].pc = "session"
      BY <2>3 DEF LoginSession, CallAt
    <3>2. account.status \notin {"absent", "pending"}
      BY <1>1, <3>1 DEF NotYetActive
    <3>3. ASSUME NEW s \in sessions', s \notin sessions PROVE Current(s)'
      <4>1. s.cred = call[r].cred /\ s.late = (call[r].cred # cred)
        BY <3>1, <3>3
      <4>2. s.cred = cred \/ s.late
        BY <4>1, Zenon
      <4> QED BY <3>1, <4>2 DEF Current
    <3>4. Fine'
      BY <1>1, <2>1, <3>1, <3>3 DEF Revoking, Current
    <3> QED BY <3>1, <3>2, <3>4 DEF NotYetActive
  <2>4. CASE Refused(r) \/ SetupWrite(r)
    <3>1. /\ UNCHANGED <<sessions, cred, unrevoked>> /\ account'.status = account.status
          /\ call[r].pc # "revoke"
      BY <1>1, <2>4 DEF Refused, SetupWrite, CallAt, Row
    <3> QED BY <1>1, <1>2, <2>1, <3>1 DEF NotYetActive
  <2>5. CASE RevokeOthers(r)
    <3>1. /\ sessions' = {[s EXCEPT !.cred = cred, !.late = FALSE] :
                            s \in {t \in sessions : t.sid = call[r].sid}}
          /\ UNCHANGED <<account, cred, unrevoked>> /\ call[r].pc = "revoke"
      BY <2>5 DEF RevokeOthers, CallAt
    <3>2. \A s \in sessions' : s.cred = cred
      BY <3>1 DEF Session
    <3>3. account.status \notin {"absent", "pending"}
      BY <1>1, <3>1 DEF NotYetActive
    <3> QED BY <3>1, <3>2, <3>3 DEF Current, NotYetActive
  <2>6. CASE RevokeAll(r)
    <3>1. sessions' = {} /\ UNCHANGED <<account, cred, unrevoked>>
      BY <2>6 DEF RevokeAll
    <3> QED BY <1>1, <2>1, <3>1 DEF NotYetActive
  <2>7. CASE CallAborts(r)
    <3>1. UNCHANGED <<account, sessions, cred>> /\ unrevoked' = (unrevoked \/ call[r].pc = "revoke")
      BY <2>7 DEF CallAborts, CallAt
    <3>2. CASE call[r].pc = "revoke"
      <4>1. unrevoked'
        BY <3>1, <3>2, Zenon
      <4> QED BY <2>2, <3>1, <4>1 DEF Current
    <3>3. CASE call[r].pc # "revoke"
      <4>1. unrevoked => unrevoked'
        BY <3>1, Zenon
      <4> QED BY <1>2, <2>1, <2>2, <3>1, <3>3, <4>1
    <3> QED BY <3>2, <3>3
  <2>8. CASE AcceptWrite(r)
    <3>1. /\ account'.status = "active" /\ sessions' = sessions
          /\ unrevoked' = (unrevoked \/ account.status # "pending")
      BY <1>1, <2>8 DEF AcceptWrite, Row
    <3>2. CASE account.status = "pending"
      <4>1. sessions' = {}
        BY <1>1, <3>1, <3>2 DEF NotYetActive
      <4> QED BY <3>1, <4>1 DEF NotYetActive
    <3>3. CASE account.status # "pending"
      <4>1. unrevoked'
        BY <3>1, <3>3, Zenon
      <4> QED BY <3>1, <4>1 DEF NotYetActive, Current
    <3> QED BY <3>2, <3>3
  <2> QED BY <1>4, <2>3, <2>4, <2>5, <2>6, <2>7, <2>8 DEF Finishes
<1>5. CASE Changes(r)
  <2>1. call'[r].pc = "revoke" /\ call[r].pc \in {"password", "disable", "confirm"}
    BY <1>5, AfterChanges
  <2>2. account'.status = account.status
    BY <1>1, <1>5 DEF Changes, PasswordWrite, DisableWrite, ConfirmWrite, Row
  <2>3. account.status \notin {"absent", "pending"}
    BY <1>1, <2>1 DEF NotYetActive
  <2> QED BY <2>1, <2>2, <2>3 DEF Revoking, NotYetActive
<1>6. CASE TakesCode(r)
  <2>1. UNCHANGED <<sessions, cred, unrevoked>> /\ account'.status = account.status
    BY <1>1, <1>6 DEF TakesCode, LoginRecovery, LoginTotp, Row
  <2>2. call[r].pc = "mfa" /\ \A q \in Call : q # r => call'[q] = call[q]
    BY <1>6, AfterTakesCode
  <2>3. account.status \notin {"absent", "pending"}
    BY <1>1, <2>2 DEF NotYetActive
  <2> QED BY <1>2, <2>1, <2>2, <2>3 DEF NotYetActive
<1>7. CASE \E pc \in {"password", "setup", "confirm", "disable"} : HandlerRead(r, pc)
  <2>1. UNCHANGED <<account, sessions, cred, unrevoked>>
    BY <1>7 DEF HandlerRead
  <2>2. call[r].pc = "entered" /\ \A q \in Call : q # r => call'[q] = call[q]
    BY <1>7, AfterHandlerRead
  <2>3. account.status \notin {"absent", "pending"}
    BY <1>1, <2>2 DEF NotYetActive
  <2> QED BY <1>2, <2>1, <2>2, <2>3 DEF NotYetActive
<1> QED BY <1>3, <1>4, <1>5, <1>6, <1>7, KindsOfStep

\* Once no change of credentials has its revocation to come, each session was opened with
\* the credentials in force, changed them, or is a login's that read the row before.
THEOREM OldSessionsEnd == AccountsSpec => []OldCredentialsEndSessions
<1>1. AccountsInit => SessionsCurrent
  <2> SUFFICES ASSUME AccountsInit PROVE SessionsCurrent
    OBVIOUS
  <2>1. (\A r \in Call : call[r].pc = "idle") /\ cred = 0
    BY EmptyCall DEF AccountsInit
  <2>2. \A s \in sessions : s.cred = 0
    BY DEF AccountsInit
  <2>3. sessions = {} \/ account.status = "active"
    BY FirstRows
  <2> QED BY <2>1, <2>2, <2>3 DEF SessionsCurrent, NotYetActive, Current
<1>2. AccountsTypeOK /\ SessionsCurrent /\ [AccountsNext]_accountVars => SessionsCurrent'
  <2> SUFFICES ASSUME AccountsTypeOK, SessionsCurrent, [AccountsNext]_accountVars
               PROVE  SessionsCurrent'
    OBVIOUS
  <2>1. CASE \E r \in Call : CallStep(r)
    BY <2>1, SessionsStep
  <2>2. CASE Invite
    <3>1. account.status = "absent" /\ UNCHANGED <<sessions, call, cred, unrevoked>>
      BY <2>2 DEF Invite
    <3>2. sessions = {} /\ \A r \in Call : call[r].pc \in {"idle", "accept"}
      BY <3>1 DEF SessionsCurrent, NotYetActive
    <3> QED BY <3>1, <3>2 DEF SessionsCurrent, NotYetActive
  <2>3. CASE AuthenticatorTick \/ (\E s \in sessions : SessionEnds(s)) \/ UNCHANGED accountVars
    <3>1. UNCHANGED <<account, call, cred, unrevoked>> /\ sessions' \subseteq sessions
      BY <2>3 DEF AuthenticatorTick, SessionEnds, accountVars
    <3> QED BY <3>1 DEF SessionsCurrent, NotYetActive, Revoking, Current
  <2> QED BY <2>1, <2>2, <2>3 DEF AccountsNext
<1> QED BY <1>1, <1>2, SessionsCurrentIsIt, AccountsTypeCorrect, PTL DEF AccountsSpec

-----------------------------------------------------------------------------
\* MFA

\* A set-up has read a row without MFA.
MfaKept == MfaAsLeft /\ \A r \in Call : call[r].pc = "setup" => ~call[r].row.enabled

LEMMA MfaStep ==
  ASSUME AccountsTypeOK, MfaKept, NEW r \in Call, CallStep(r)
  PROVE  MfaKept'
<1> USE Types
<1>1. /\ account.enabled => account.secret \in proved \/ crossed
      /\ mfaOn => account.enabled \/ crossed
      /\ \A q \in Call : call[q].pc = "setup" => ~call[q].row.enabled
      /\ account \in Row
  BY DEF MfaKept, MfaAsLeft
<1> DEFINE Reading == \A q \in Call : call[q].pc = "setup" => ~call[q].row.enabled
<1> SUFFICES MfaAsLeft' /\ Reading'
  BY DEF MfaKept
<1>2. ASSUME UNCHANGED <<mfaGhosts, account.enabled, account.secret>> PROVE MfaAsLeft'
  BY <1>1, <1>2 DEF MfaAsLeft, mfaGhosts
<1>3. CASE Reads(r)
  <2>1. Reading'
    BY <1>1, <1>3, AfterReads
  <2>2. UNCHANGED <<mfaGhosts, account.enabled, account.secret>>
    BY <1>1, <1>3 DEF Reads, LoginRead, AcceptRead, Deactivate, Enter, Row
  <2> QED BY <1>2, <2>1, <2>2
<1>4. CASE Finishes(r)
  <2>1. Reading'
    BY <1>1, <1>4, AfterFinishes
  <2>2. CASE SetupWrite(r)
    <3>1. /\ account'.enabled = FALSE /\ mfaOn' = mfaOn
          /\ crossed' = (crossed \/ (account.enabled /\ ~call[r].row.enabled))
          /\ ~call[r].row.enabled
      BY <1>1, <2>2 DEF SetupWrite, CallAt, Row
    <3>2. ~account'.enabled
      BY <3>1, Zenon
    <3>3. mfaOn' => crossed'
      BY <1>1, <3>1, Zenon
    <3> QED BY <2>1, <3>2, <3>3 DEF MfaAsLeft
  <2>3. CASE ~SetupWrite(r)
    <3>1. UNCHANGED <<mfaGhosts, account.enabled, account.secret>>
      BY <1>1, <1>4, <2>3
      DEF Finishes, LoginSession, Refused, RevokeOthers, AcceptWrite, RevokeAll, CallAborts, Row
    <3> QED BY <1>2, <2>1, <3>1
  <2> QED BY <2>2, <2>3
<1>5. CASE Changes(r)
  <2>1. Reading'
    BY <1>1, <1>5, AfterChanges
  <2>2. CASE PasswordWrite(r)
    <3>1. UNCHANGED <<mfaGhosts, account.enabled, account.secret>>
      BY <1>1, <2>2 DEF PasswordWrite, Row
    <3> QED BY <1>2, <2>1, <3>1
  <2>3. CASE DisableWrite(r)
    <3>1. account'.enabled = FALSE /\ mfaOn' = FALSE
      BY <1>1, <2>3 DEF DisableWrite, Row
    <3>2. ~account'.enabled /\ ~mfaOn'
      BY <3>1, Zenon
    <3> QED BY <2>1, <3>2 DEF MfaAsLeft
  <2>4. CASE \E step \in 1..MaxStep : ConfirmWrite(r, step)
    <3>1. /\ account'.enabled = TRUE /\ account'.secret = account.secret
          /\ proved' = proved \cup {call[r].row.secret}
          /\ crossed' = (account.secret # call[r].row.secret)
      BY <1>1, <2>4 DEF ConfirmWrite, Row
    <3>2. account'.enabled
      BY <3>1, Zenon
    <3>3. account'.secret \in proved' \/ crossed'
      BY <3>1, Zenon
    <3> QED BY <2>1, <3>2, <3>3 DEF MfaAsLeft
  <2> QED BY <1>5, <2>2, <2>3, <2>4 DEF Changes
<1>6. CASE TakesCode(r)
  <2>1. Reading'
    BY <1>1, <1>6, AfterTakesCode
  <2>2. /\ UNCHANGED <<proved, mfaOn, crossed>>
        /\ account'.enabled = account.enabled /\ account'.secret = account.secret
    BY <1>1, <1>6 DEF TakesCode, LoginRecovery, LoginTotp, Row
  <2> QED BY <1>1, <2>1, <2>2 DEF MfaAsLeft
<1>7. CASE \E pc \in {"password", "setup", "confirm", "disable"} : HandlerRead(r, pc)
  <2>1. PICK pc \in {"password", "setup", "confirm", "disable"} : HandlerRead(r, pc)
    BY <1>7
  <2>2. UNCHANGED <<mfaGhosts, account>> /\ (pc = "setup" => ~account.enabled)
    BY <2>1 DEF HandlerRead
  <2>3. Reading'
    BY <1>1, <2>1, <2>2, AfterHandlerRead
  <2> QED BY <1>2, <2>2, <2>3
<1> QED BY <1>3, <1>4, <1>5, <1>6, <1>7, KindsOfStep

\* MFA that is on was confirmed with a code, and MFA that was turned on is on, unless two
\* MFA requests crossed.
THEOREM MfaStaysAsLeft == AccountsSpec => []MfaAsLeft
<1>1. AccountsInit => MfaKept
  <2> SUFFICES ASSUME AccountsInit PROVE MfaKept
    OBVIOUS
  <2>1. \A r \in Call : call[r].pc = "idle"
    BY EmptyCall DEF AccountsInit
  <2>2. CASE mfaOn = FALSE /\ account.enabled = FALSE
    <3>1. ~mfaOn /\ ~account.enabled
      BY <2>2, Zenon
    <3> QED BY <2>1, <3>1 DEF MfaKept, MfaAsLeft
  <2>3. CASE account.enabled = TRUE /\ account.secret \in proved
    <3>1. account.enabled
      BY <2>3, Zenon
    <3> QED BY <2>1, <2>3, <3>1 DEF MfaKept, MfaAsLeft
  <2> QED BY <2>2, <2>3, FirstRows
<1>2. AccountsTypeOK /\ MfaKept /\ [AccountsNext]_accountVars => MfaKept'
  <2> SUFFICES ASSUME AccountsTypeOK, MfaKept, [AccountsNext]_accountVars
               PROVE  MfaKept'
    OBVIOUS
  <2>1. CASE \E r \in Call : CallStep(r)
    BY <2>1, MfaStep
  <2>2. CASE Invite
    <3>1. UNCHANGED <<call, mfaGhosts, account.enabled, account.secret>>
      BY <2>2, Types DEF Invite, Row
    <3> QED BY <3>1 DEF MfaKept, MfaAsLeft, mfaGhosts
  <2>3. CASE AuthenticatorTick \/ (\E s \in sessions : SessionEnds(s)) \/ UNCHANGED accountVars
    <3>1. UNCHANGED <<account, call, mfaGhosts>>
      BY <2>3 DEF AuthenticatorTick, SessionEnds, accountVars
    <3> QED BY <3>1 DEF MfaKept, MfaAsLeft, mfaGhosts
  <2> QED BY <2>1, <2>2, <2>3 DEF AccountsNext
<1>3. MfaKept => MfaAsLeft
  BY DEF MfaKept
<1> QED BY <1>1, <1>2, <1>3, AccountsTypeCorrect, PTL DEF AccountsSpec

-----------------------------------------------------------------------------
\* Codes

\* The numbers that secrets and codes carry: those in the row, those used, and those a
\* login has read.
Taken(n) ==
  \/ \E code \in account.recovery \cup usedCodes.recovery \cup usedCodes.totp : code[1] = n
  \/ account.secret = n
  \/ \E q \in Call : call[q].pc = "mfa" /\ call[q].row.secret = n

Under(r) == call[r].pc # "idle"

\* Requests have different numbers, and what a request makes is new.
NumbersApart ==
  /\ \A n \in Number : Taken(n) => n <= calls + 1
  /\ \A r \in Call : Under(r) => call[r].n <= calls + 1
  /\ \A q, r \in Call : q # r /\ Under(q) /\ Under(r) => call[q].n # call[r].n
  /\ \A r \in Call : Under(r) /\ call[r].pc # "revoke" => ~Taken(call[r].n)

\* A used recovery code is no longer in the row, and a used TOTP code's step is not above
\* the last one, or its secret is gone from the row and from what logins have read.
RecoveryOnce == "recovery" \notin twice /\ usedCodes.recovery \cap account.recovery = {}
Behind(code) == code[2] <= account.lastStep
Gone(code) ==
  /\ account.secret # code[1]
  /\ \A q \in Call : call[q].pc = "mfa" => call[q].row.secret # code[1]
TotpOnce == "totp" \notin twice /\ \A code \in usedCodes.totp : Behind(code) \/ Gone(code)

CodesApart == NumbersApart /\ RecoveryOnce /\ (lowered \/ TotpOnce)

\* Which numbers a step takes.
LEMMA TakenBy ==
  ASSUME AccountsTypeOK, NEW r \in Call, CallStep(r), NEW n \in Number, Taken(n)'
  PROVE  Taken(n) \/ (n = call[r].n /\ call'[r].pc \in {"idle", "revoke"} /\ Under(r))
<1> USE Types
<1>1. account \in Row /\ usedCodes \in [recovery: SUBSET RecoveryCode, totp: SUBSET TotpCode]
  OBVIOUS
<1>2. (\A q \in Call : q # r => call'[q] = call[q])
      /\ (call'[r].pc = "mfa" => call'[r].row = account)
  <2>1. CASE Reads(r)
    BY <2>1, AfterReads
  <2>2. CASE Finishes(r) \/ Changes(r) \/ TakesCode(r)
    BY <2>2, AfterFinishes, AfterChanges, AfterTakesCode
  <2>3. CASE \E pc \in {"password", "setup", "confirm", "disable"} : HandlerRead(r, pc)
    BY <2>3, AfterHandlerRead
  <2> QED BY <2>1, <2>2, <2>3, KindsOfStep
<1>3. ASSUME account'.recovery \cup usedCodes'.recovery \cup usedCodes'.totp
               \subseteq account.recovery \cup usedCodes.recovery \cup usedCodes.totp,
             account'.secret = account.secret
      PROVE  Taken(n)
  BY <1>2, <1>3 DEF Taken
<1>4. CASE UNCHANGED <<account.recovery, usedCodes, account.secret>>
  BY <1>3, <1>4
<1>5. CASE LoginRead(r) \/ LoginSession(r) \/ Refused(r) \/ (\E s \in sessions : Enter(r, s))
           \/ RevokeOthers(r) \/ AcceptRead(r) \/ RevokeAll(r) \/ CallAborts(r)
           \/ \E pc \in {"password", "setup", "confirm", "disable"} : HandlerRead(r, pc)
  <2>1. UNCHANGED <<account, usedCodes>>
    BY <1>5 DEF LoginRead, LoginSession, Refused, Enter, RevokeOthers, AcceptRead, RevokeAll,
                CallAborts, HandlerRead, mfaGhosts
  <2> QED BY <1>4, <2>1
<1>6. CASE PasswordWrite(r) \/ AcceptWrite(r) \/ Deactivate(r)
  <2>1. UNCHANGED <<account.recovery, usedCodes, account.secret>>
    BY <1>1, <1>6 DEF PasswordWrite, AcceptWrite, Deactivate, mfaGhosts, Row
  <2> QED BY <1>4, <2>1
<1>7. CASE \E code \in RecoveryCode : LoginRecovery(r, code)
  <2>1. PICK code \in RecoveryCode : LoginRecovery(r, code)
    BY <1>7
  <2>2. CASE code \in account.recovery
    <3>1. /\ account' = [account EXCEPT !.recovery = @ \ {code}]
          /\ usedCodes' = [usedCodes EXCEPT !.recovery = @ \cup {code}]
      BY <2>1, <2>2 DEF LoginRecovery
    <3>2. /\ account'.recovery = account.recovery \ {code} /\ account'.secret = account.secret
          /\ usedCodes'.recovery = usedCodes.recovery \cup {code}
          /\ usedCodes'.totp = usedCodes.totp
      BY <1>1, <3>1 DEF Row
    <3> QED BY <1>3, <2>2, <3>2
  <2>3. CASE code \notin account.recovery
    BY <1>4, <2>1, <2>3 DEF LoginRecovery
  <2> QED BY <2>2, <2>3
<1>8. CASE \E step \in 1..MaxStep : LoginTotp(r, step)
  <2>1. PICK step \in 1..MaxStep : LoginTotp(r, step)
    BY <1>8
  <2>2. CASE ClaimsStep(step)
    <3>1. /\ account' = [account EXCEPT !.lastStep = step]
          /\ usedCodes' = [usedCodes EXCEPT !.totp = @ \cup {<<call[r].row.secret, step>>}]
      BY <2>1, <2>2 DEF LoginTotp
    <3>2. /\ account'.recovery = account.recovery /\ account'.secret = account.secret
          /\ usedCodes'.recovery = usedCodes.recovery
          /\ usedCodes'.totp = usedCodes.totp \cup {<<call[r].row.secret, step>>}
      BY <1>1, <3>1 DEF Row
    <3>3. CASE n = call[r].row.secret
      BY <2>1, <3>3 DEF LoginTotp, CallAt, Taken
    <3>4. CASE n # call[r].row.secret
      BY <1>2, <3>2, <3>4 DEF Taken
    <3> QED BY <3>3, <3>4
  <2>3. CASE ~ClaimsStep(step)
    BY <1>4, <2>1, <2>3 DEF LoginTotp
  <2> QED BY <2>2, <2>3
<1>9. CASE SetupWrite(r)
  <2>1. /\ account'.recovery = account.recovery /\ account'.secret = call[r].n
        /\ usedCodes' = usedCodes /\ call[r].pc = "setup"
    BY <1>1, <1>9 DEF SetupWrite, CallAt, Row
  <2>2. call'[r].pc = "idle"
    BY <1>9, AfterFinishes DEF Finishes
  <2>3. CASE n = call[r].n
    BY <2>1, <2>2, <2>3 DEF Under
  <2>4. CASE n # call[r].n
    BY <1>2, <2>1, <2>2, <2>4 DEF Taken
  <2> QED BY <2>3, <2>4
<1>10. CASE \E step \in 1..MaxStep : ConfirmWrite(r, step)
  <2>1. /\ account'.recovery = {call[r].n} \X Slot /\ account'.secret = account.secret
        /\ usedCodes' = usedCodes /\ call[r].pc = "confirm"
    BY <1>1, <1>10 DEF ConfirmWrite, CallAt, Row
  <2>2. call'[r].pc = "revoke"
    BY <1>10, AfterChanges DEF Changes
  <2>3. CASE n = call[r].n
    BY <2>1, <2>2, <2>3 DEF Under
  <2>4. CASE n # call[r].n
    BY <1>2, <2>1, <2>2, <2>4 DEF Taken
  <2> QED BY <2>3, <2>4
<1>11. CASE DisableWrite(r)
  <2>1. /\ account'.recovery = {} /\ account'.secret = 0 /\ usedCodes' = usedCodes
    BY <1>1, <1>11 DEF DisableWrite, Row
  <2>2. call'[r].pc = "revoke" /\ n # 0
    BY <1>11, AfterChanges DEF Changes, Number
  <2> QED BY <1>2, <2>1, <2>2 DEF Taken
<1> QED
  BY <1>5, <1>6, <1>7, <1>8, <1>9, <1>10, <1>11, Zenon DEF CallStep

\* The numbers stay apart.
LEMMA NumbersStep ==
  ASSUME AccountsTypeOK, NumbersApart, NEW r \in Call, CallStep(r)
  PROVE  NumbersApart'
<1>1. /\ calls \in Nat
      /\ \A q \in Call : call[q].n \in Number /\ call[q].n \in Nat
      /\ \A n \in Number : n \in Nat
  BY Types, Bounds
<1>2. /\ \A n \in Number : Taken(n) => n <= calls + 1
      /\ \A q \in Call : Under(q) => call[q].n <= calls + 1
      /\ \A p, q \in Call : p # q /\ Under(p) /\ Under(q) => call[p].n # call[q].n
      /\ \A q \in Call : Under(q) /\ call[q].pc # "revoke" => ~Taken(call[q].n)
  BY DEF NumbersApart
<1>3. \A q \in Call : call'[q].n \in Number
  <2>1. call' \in [Call -> CallRecord]
    BY CallsTyped
  <2> QED BY <2>1 DEF CallRecord
<1>4. CASE Reads(r)
  <2>1. /\ \A q \in Call : q # r => call'[q] = call[q]
        /\ ~Under(r) /\ calls' = calls + 1 /\ call'[r].n = calls + 2
    BY <1>4, AfterReads DEF Under
  <2>2. \A n \in Number : Taken(n)' => Taken(n)
    BY <2>1, TakenBy
  <2>3. \A n \in Number : Taken(n)' => n <= calls + 1
    BY <1>2, <2>2
  <2>4. \A n \in Number : Taken(n)' => n <= calls' + 1
    BY <1>1, <2>1, <2>3
  <2>5. \A q \in Call : q # r /\ Under(q) => call'[q].n <= calls + 1 /\ call'[q].n \in Nat
    BY <1>1, <1>2, <2>1
  <2>6. \A q \in Call : Under(q)' => call'[q].n <= calls' + 1
    BY <1>1, <2>1, <2>5 DEF Under
  <2>7. \A q \in Call : q # r /\ Under(q)' => call'[q].n # call'[r].n
    BY <1>1, <2>1, <2>5 DEF Under
  <2>8. \A p, q \in Call : p # q /\ Under(p)' /\ Under(q)' => call'[p].n # call'[q].n
    BY <1>2, <2>1, <2>7 DEF Under
  <2>9. ASSUME NEW q \in Call, Under(q)', call'[q].pc # "revoke", NEW n \in Number, n = call'[q].n
        PROVE  ~Taken(n)'
    <3>1. CASE q = r
      BY <1>1, <2>1, <2>3, <2>9, <3>1
    <3>2. CASE q # r
      <4>1. Under(q) /\ call[q].pc # "revoke" /\ n = call[q].n
        BY <2>1, <2>9, <3>2 DEF Under
      <4>2. ~Taken(n)
        BY <1>2, <4>1
      <4> QED BY <2>2, <4>2
    <3> QED BY <3>1, <3>2
  <2>10. \A q \in Call : Under(q)' /\ call'[q].pc # "revoke" => ~Taken(call[q].n)'
    BY <1>3, <2>9 DEF Taken
  <2> QED BY <2>4, <2>6, <2>8, <2>10 DEF NumbersApart
<1>5. CASE /\ \A q \in Call : q # r => call'[q] = call[q]
           /\ calls' = calls
           /\ Under(r) \/ ~Under(r)'
           /\ Under(r)' => call'[r].n = call[r].n /\ (call[r].pc = "revoke" => call'[r].pc = "revoke")
  <2>1. \A q \in Call : Under(q)' => Under(q) /\ call'[q].n = call[q].n
    BY <1>5 DEF Under
  <2>2. \A n \in Number : Taken(n)' => n <= calls' + 1
    BY <1>2, <1>5, TakenBy
  <2>3. \A q \in Call : Under(q)' => call'[q].n <= calls' + 1
    BY <1>2, <1>5, <2>1
  <2>4. \A p, q \in Call : p # q /\ Under(p)' /\ Under(q)' => call'[p].n # call'[q].n
    BY <1>2, <2>1
  <2>5. ASSUME NEW q \in Call, Under(q)', call'[q].pc # "revoke", NEW n \in Number, n = call'[q].n
        PROVE  ~Taken(n)'
    <3>1. Under(q) /\ n = call[q].n
      BY <2>1, <2>5
    <3>2. call[q].pc # "revoke"
      BY <1>5, <2>5
    <3>3. ~Taken(n)
      BY <1>2, <3>1, <3>2
    <3>4. SUFFICES ASSUME Taken(n)' PROVE FALSE
      OBVIOUS
    <3>5. n = call[r].n /\ call'[r].pc \in {"idle", "revoke"} /\ Under(r)
      BY <3>3, <3>4, TakenBy
    <3>6. q = r
      BY <1>2, <3>1, <3>5
    <3> QED BY <2>5, <3>5, <3>6 DEF Under
  <2>6. \A q \in Call : Under(q)' /\ call'[q].pc # "revoke" => ~Taken(call[q].n)'
    BY <1>3, <2>5 DEF Taken
  <2> QED BY <2>2, <2>3, <2>4, <2>6 DEF NumbersApart
<1>6. CASE Finishes(r)
  BY <1>5, <1>6, AfterFinishes DEF Under
<1>7. CASE Changes(r)
  BY <1>5, <1>7, AfterChanges DEF Under
<1>8. CASE TakesCode(r)
  BY <1>5, <1>8, AfterTakesCode DEF Under
<1>9. CASE \E pc \in {"password", "setup", "confirm", "disable"} : HandlerRead(r, pc)
  <2>1. PICK pc \in {"password", "setup", "confirm", "disable"} : HandlerRead(r, pc)
    BY <1>9
  <2> QED BY <1>5, <2>1, AfterHandlerRead DEF Under
<1> QED BY <1>4, <1>6, <1>7, <1>8, <1>9, KindsOfStep

\* Recovery codes: what is used leaves the row, and what a confirmation puts there is new.
LEMMA RecoveryStep ==
  ASSUME AccountsTypeOK, NumbersApart, RecoveryOnce, NEW r \in Call, CallStep(r)
  PROVE  RecoveryOnce'
<1> USE Types
<1>1. /\ "recovery" \notin twice /\ usedCodes.recovery \cap account.recovery = {}
      /\ account \in Row /\ usedCodes \in [recovery: SUBSET RecoveryCode, totp: SUBSET TotpCode]
  BY DEF RecoveryOnce
<1>2. CASE UNCHANGED twice /\ usedCodes'.recovery = usedCodes.recovery
           /\ account'.recovery \subseteq account.recovery
  BY <1>1, <1>2 DEF RecoveryOnce
<1>3. CASE \E code \in RecoveryCode : LoginRecovery(r, code)
  <2>1. PICK code \in RecoveryCode : LoginRecovery(r, code)
    BY <1>3
  <2>2. CASE code \in account.recovery
    <3>1. code \notin usedCodes.recovery
      BY <1>1, <2>2
    <3>2. /\ account' = [account EXCEPT !.recovery = @ \ {code}]
          /\ usedCodes' = [usedCodes EXCEPT !.recovery = @ \cup {code}]
          /\ twice' = twice
      BY <2>1, <2>2, <3>1 DEF LoginRecovery
    <3>3. /\ account'.recovery = account.recovery \ {code}
          /\ usedCodes'.recovery = usedCodes.recovery \cup {code}
      BY <1>1, <3>2 DEF Row
    <3> QED BY <1>1, <3>2, <3>3 DEF RecoveryOnce
  <2>3. CASE code \notin account.recovery
    BY <1>2, <2>1, <2>3 DEF LoginRecovery
  <2> QED BY <2>2, <2>3
<1>4. CASE \E step \in 1..MaxStep : LoginTotp(r, step)
  <2>1. /\ twice' \subseteq twice \cup {"totp"} /\ usedCodes'.recovery = usedCodes.recovery
        /\ account'.recovery = account.recovery
    BY <1>1, <1>4 DEF LoginTotp, Row
  <2> QED BY <1>1, <2>1 DEF RecoveryOnce
<1>5. CASE \E step \in 1..MaxStep : ConfirmWrite(r, step)
  <2>1. /\ account'.recovery = {call[r].n} \X Slot /\ UNCHANGED <<usedCodes, twice>>
        /\ call[r].pc = "confirm" /\ call[r].n \in Number
    BY <1>1, <1>5 DEF ConfirmWrite, CallAt, Row
  <2>2. ~Taken(call[r].n)
    BY <2>1 DEF NumbersApart, Under
  <2>3. \A code \in usedCodes.recovery : code[1] # call[r].n
    BY <2>2 DEF Taken
  <2> QED BY <1>1, <2>1, <2>3 DEF RecoveryOnce
<1>6. CASE PasswordWrite(r) \/ AcceptWrite(r) \/ Deactivate(r) \/ SetupWrite(r) \/ DisableWrite(r)
  <2>1. UNCHANGED <<usedCodes, twice>> /\ account'.recovery \subseteq account.recovery
    BY <1>1, <1>6
    DEF PasswordWrite, AcceptWrite, Deactivate, SetupWrite, DisableWrite, mfaGhosts, Row
  <2> QED BY <1>2, <2>1
<1>7. CASE LoginRead(r) \/ LoginSession(r) \/ Refused(r) \/ (\E s \in sessions : Enter(r, s))
           \/ RevokeOthers(r) \/ AcceptRead(r) \/ RevokeAll(r) \/ CallAborts(r)
           \/ \E pc \in {"password", "setup", "confirm", "disable"} : HandlerRead(r, pc)
  <2>1. UNCHANGED <<account, usedCodes, twice>>
    BY <1>7 DEF LoginRead, LoginSession, Refused, Enter, RevokeOthers, AcceptRead, RevokeAll,
                CallAborts, HandlerRead, mfaGhosts
  <2> QED BY <1>2, <2>1
<1> QED BY <1>3, <1>4, <1>5, <1>6, <1>7, Zenon DEF CallStep

\* TOTP codes: the last step stays at or above the used ones' of a secret in use, unless
\* it is lowered under a login's feet.
LEMMA TotpStep ==
  ASSUME AccountsTypeOK, NumbersApart, lowered \/ TotpOnce, NEW r \in Call, CallStep(r)
  PROVE  lowered' \/ TotpOnce'
<1> USE Types
<1>1. CASE lowered
  <2>1. lowered'
    BY <1>1, Zenon
    DEF CallStep, LoginRead, LoginSession, Refused, LoginRecovery, LoginTotp, ConfirmWrite, Enter,
        HandlerRead, PasswordWrite, SetupWrite, DisableWrite, RevokeOthers, AcceptRead, AcceptWrite,
        Deactivate, RevokeAll, CallAborts, mfaGhosts
  <2> QED BY <2>1
<1>2. CASE TotpOnce
  <2>1. /\ "totp" \notin twice /\ \A code \in usedCodes.totp : Behind(code) \/ Gone(code)
        /\ account \in Row /\ usedCodes \in [recovery: SUBSET RecoveryCode, totp: SUBSET TotpCode]
    BY <1>2 DEF TotpOnce
  <2>2. /\ account.lastStep \in Nat /\ account.lastStep \in Step
        /\ \A code \in usedCodes.totp : code[2] \in 1..MaxStep /\ code[2] \in Nat
                                        /\ code[1] \in Number
    BY <2>1, Bounds DEF Row, Step, TotpCode
  <2>3. \A q \in Call : q # r => call'[q] = call[q]
    BY AfterReads, AfterFinishes, AfterChanges, AfterTakesCode, AfterHandlerRead, KindsOfStep
  <2>4. ASSUME call'[r].pc = "mfa" => call'[r].row = account,
               account'.secret = account.secret,
               NEW code, Gone(code)
        PROVE  Gone(code)'
    BY <2>3, <2>4 DEF Gone
  <2>5. CASE /\ UNCHANGED twice /\ usedCodes'.totp = usedCodes.totp
             /\ account'.secret = account.secret /\ account'.lastStep = account.lastStep
             /\ call'[r].pc = "mfa" => call'[r].row = account
    BY <2>1, <2>4, <2>5 DEF TotpOnce, Behind
  <2>6. CASE Reads(r)
    <3>1. /\ UNCHANGED <<usedCodes, twice>>
          /\ account'.secret = account.secret /\ account'.lastStep = account.lastStep
      BY <2>1, <2>6 DEF Reads, LoginRead, AcceptRead, Deactivate, Enter, mfaGhosts, Row
    <3> QED BY <2>5, <2>6, <3>1, AfterReads
  <2>7. CASE \E pc \in {"password", "setup", "confirm", "disable"} : HandlerRead(r, pc)
    <3>1. UNCHANGED <<account, usedCodes, twice>>
      BY <2>7 DEF HandlerRead, mfaGhosts
    <3> QED BY <2>5, <2>7, <3>1, AfterHandlerRead
  <2>8. CASE Finishes(r) /\ ~SetupWrite(r)
    <3>1. /\ UNCHANGED <<usedCodes, twice>>
          /\ account'.secret = account.secret /\ account'.lastStep = account.lastStep
      BY <2>1, <2>8 DEF Finishes, LoginSession, Refused, RevokeOthers, AcceptWrite, RevokeAll,
                        CallAborts, mfaGhosts, Row
    <3> QED BY <2>5, <2>8, <3>1, AfterFinishes
  <2>9. CASE SetupWrite(r)
    <3>1. /\ account'.secret = call[r].n /\ account'.lastStep = account.lastStep
          /\ UNCHANGED <<usedCodes, twice>> /\ call[r].pc = "setup"
      BY <2>1, <2>9 DEF SetupWrite, CallAt, Row
    <3>2. ~Taken(call[r].n)
      BY <3>1 DEF NumbersApart, Under
    <3>3. \A code \in usedCodes.totp : code[1] # call[r].n
      BY <3>2 DEF Taken
    <3>4. call'[r].pc = "idle"
      BY <2>9, AfterFinishes DEF Finishes
    <3>5. \A code \in usedCodes.totp : Gone(code) => Gone(code)'
      BY <2>3, <3>1, <3>3, <3>4 DEF Gone
    <3> QED BY <2>1, <3>1, <3>5 DEF TotpOnce, Behind
  <2>10. CASE PasswordWrite(r)
    <3>1. /\ account'.secret = account.secret /\ account'.lastStep = account.lastStep
          /\ UNCHANGED <<usedCodes, twice>>
      BY <2>1, <2>10 DEF PasswordWrite, mfaGhosts, Row
    <3> QED BY <2>5, <2>10, <3>1, AfterChanges DEF Changes
  <2>11. CASE DisableWrite(r)
    <3>1. /\ account'.secret = 0 /\ UNCHANGED <<usedCodes, twice>>
          /\ lowered' = (lowered \/ (account.lastStep # 0 /\ \E q \in Call : CallAt(q, "mfa")))
          /\ call'[r].pc = "revoke"
      BY <2>1, <2>11, AfterChanges DEF DisableWrite, Changes, Row
    <3>2. CASE account.lastStep # 0 /\ \E q \in Call : CallAt(q, "mfa")
      BY <3>1, <3>2, Zenon
    <3>3. CASE account.lastStep = 0
      <4>1. \A code \in usedCodes.totp : ~Behind(code)
        BY <2>2, <3>3 DEF Behind
      <4>2. \A code \in usedCodes.totp : Gone(code)'
        BY <2>1, <2>2, <2>3, <3>1, <4>1 DEF Gone, Number
      <4> QED BY <2>1, <3>1, <4>2 DEF TotpOnce
    <3>4. CASE ~\E q \in Call : CallAt(q, "mfa")
      <4>1. \A code \in usedCodes.totp : Gone(code)'
        BY <2>2, <2>3, <3>1, <3>4 DEF Gone, Number, CallAt
      <4> QED BY <2>1, <3>1, <4>1 DEF TotpOnce
    <3> QED BY <3>2, <3>3, <3>4
  <2>12. CASE \E step \in 1..MaxStep : ConfirmWrite(r, step)
    <3>1. PICK step \in 1..MaxStep : ConfirmWrite(r, step)
      BY <2>12
    <3>2. /\ account'.lastStep = step /\ account'.secret = account.secret
          /\ lowered' = (lowered \/ step < account.lastStep)
          /\ UNCHANGED <<usedCodes, twice>> /\ step \in Nat
      BY <2>1, <3>1, Bounds DEF ConfirmWrite, Row
    <3>3. CASE step < account.lastStep
      BY <3>2, <3>3, Zenon
    <3>4. CASE ~(step < account.lastStep)
      <4>1. \A code \in usedCodes.totp : Behind(code) => Behind(code)'
        BY <2>2, <3>2, <3>4 DEF Behind
      <4>2. call'[r].pc = "revoke"
        BY <2>12, AfterChanges DEF Changes
      <4> QED BY <2>1, <2>4, <3>2, <4>1, <4>2 DEF TotpOnce
    <3> QED BY <3>3, <3>4
  <2>13. CASE \E code \in RecoveryCode : LoginRecovery(r, code)
    <3>1. /\ twice' \subseteq twice \cup {"recovery"} /\ usedCodes'.totp = usedCodes.totp
          /\ account'.secret = account.secret /\ account'.lastStep = account.lastStep
      BY <2>1, <2>13 DEF LoginRecovery, Row
    <3>2. call'[r].pc # "mfa"
      BY <2>13, AfterTakesCode DEF TakesCode
    <3> QED BY <2>1, <2>4, <3>1, <3>2 DEF TotpOnce, Behind
  <2>14. CASE \E step \in 1..MaxStep : LoginTotp(r, step)
    <3>1. PICK step \in 1..MaxStep : LoginTotp(r, step)
      BY <2>14
    <3>2. /\ call'[r].pc # "mfa" /\ call[r].pc = "mfa" /\ step \in Nat
      BY <2>14, AfterTakesCode, Bounds DEF TakesCode
    <3>3. CASE ~ClaimsStep(step)
      BY <2>5, <3>1, <3>2, <3>3 DEF LoginTotp
    <3>4. CASE ClaimsStep(step)
      <4>1. PICK code : code = <<call[r].row.secret, step>>
        OBVIOUS
      <4>2. account.lastStep < step
        BY <3>4 DEF ClaimsStep
      <4>3. ~Behind(code) /\ ~Gone(code)
        BY <2>2, <3>2, <4>2, <4>1 DEF Behind, Gone
      <4>4. code \notin usedCodes.totp
        BY <2>1, <4>3
      <4>5. /\ account' = [account EXCEPT !.lastStep = step]
            /\ usedCodes' = [usedCodes EXCEPT !.totp = @ \cup {code}] /\ twice' = twice
        BY <3>1, <3>4, <4>4, <4>1 DEF LoginTotp
      <4>6. /\ account'.lastStep = step /\ account'.secret = account.secret
            /\ usedCodes'.totp = usedCodes.totp \cup {code}
        BY <2>1, <4>5 DEF Row
      <4>7. \A c \in usedCodes.totp : Behind(c) => Behind(c)'
        BY <2>2, <3>2, <4>2, <4>6 DEF Behind
      <4>8. Behind(code)'
        BY <3>2, <4>6, <4>1 DEF Behind
      <4>9. \A c \in usedCodes.totp : Gone(c) => Gone(c)'
        BY <2>4, <3>2, <4>6
      <4> QED BY <2>1, <4>5, <4>6, <4>7, <4>8, <4>9 DEF TotpOnce
    <3> QED BY <3>3, <3>4
  <2> QED
    BY <2>6, <2>7, <2>8, <2>9, <2>10, <2>11, <2>12, <2>13, <2>14, KindsOfStep
    DEF Changes, TakesCode
<1> QED BY <1>1, <1>2

\* Over logins that judge the same row side by side, a recovery code lets one of them
\* through, and a TOTP code does unless a confirmation or a removal of MFA set the last
\* step back under their feet.
THEOREM CodesAreUsedOnce == AccountsSpec => []CodesWorkOnce
<1>1. AccountsInit => CodesApart
  <2> SUFFICES ASSUME AccountsInit PROVE CodesApart
    OBVIOUS
  <2>1. /\ \A r \in Call : call[r].pc = "idle"
        /\ usedCodes = [recovery |-> {}, totp |-> {}] /\ twice = {} /\ calls = 0
    BY EmptyCall DEF AccountsInit
  <2>2. account.secret \in {0, 1} /\ \A code \in account.recovery : code[1] = 1
    BY FirstRows
  <2>3. \A n \in Number : Taken(n) => n = 1
    BY <2>1, <2>2 DEF Taken, Number
  <2>4. NumbersApart
    BY <2>1, <2>3 DEF NumbersApart, Under
  <2> QED BY <2>1, <2>4 DEF CodesApart, RecoveryOnce, TotpOnce
<1>2. AccountsTypeOK /\ CodesApart /\ [AccountsNext]_accountVars => CodesApart'
  <2> SUFFICES ASSUME AccountsTypeOK, CodesApart, [AccountsNext]_accountVars
               PROVE  CodesApart'
    OBVIOUS
  <2>1. CASE \E r \in Call : CallStep(r)
    BY <2>1, NumbersStep, RecoveryStep, TotpStep DEF CodesApart
  <2>2. CASE Invite \/ AuthenticatorTick \/ \E s \in sessions : SessionEnds(s)
    <3>1. /\ UNCHANGED <<call, calls, usedCodes, twice, lowered>>
          /\ UNCHANGED <<account.recovery, account.secret, account.lastStep>>
      BY <2>2, Types DEF Invite, AuthenticatorTick, SessionEnds, mfaGhosts, Row
    <3> QED BY <3>1 DEF CodesApart, NumbersApart, Taken, Under, RecoveryOnce, TotpOnce, Behind, Gone
  <2>3. CASE UNCHANGED accountVars
    <3>1. UNCHANGED <<call, calls, usedCodes, twice, lowered, account>>
      BY <2>3 DEF accountVars, mfaGhosts
    <3> QED BY <3>1 DEF CodesApart, NumbersApart, Taken, Under, RecoveryOnce, TotpOnce, Behind, Gone
  <2> QED BY <2>1, <2>2, <2>3 DEF AccountsNext
<1>3. CodesApart => CodesWorkOnce
  BY DEF CodesApart, RecoveryOnce, TotpOnce, CodesWorkOnce
<1> QED BY <1>1, <1>2, <1>3, AccountsTypeCorrect, PTL DEF AccountsSpec
=============================================================================

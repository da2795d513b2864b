------------------------------ MODULE Accounts ------------------------------
(***************************************************************************)
(* One admin account: its row in admin_users, its sessions, and the        *)
(* requests that read the row, work on what they read (a password is       *)
(* verified or hashed in between, which takes a while) and then write.     *)
(* There is no transaction and no lock: the login's two UPDATEs have a     *)
(* condition, every other one writes whatever the row has become.          *)
(* Accounts have separate rows; this is one, and the superadmin who        *)
(* invites and deactivates has another.  What a login's failures count is  *)
(* in module LoginThrottle.                                                *)
(***************************************************************************)
EXTENDS Naturals

CONSTANTS
  Call,          \* requests in flight at one time
  Slot,          \* the places of a batch of recovery codes
  MaxCalls,      \* bound: requests
  MaxStep,       \* bound: steps of the authenticator's clock
  MaxAborts      \* bound: requests cut short

ASSUME AccountsAssumption ==
  /\ {MaxCalls, MaxStep, MaxAborts} \subseteq Nat
  /\ MaxStep > 0

VARIABLES
  account,     \* the row
  sessions,    \* the rows of admin_sessions
  call,        \* [Call -> what the request is doing]
  clock,       \* the authenticator's current step
  calls,       \* requests so far; what a request makes has its number
  aborts,      \* requests cut short so far
  cred,        \* ghost: how often password or MFA have changed
  usedCodes,   \* ghost: the codes that have let a login through
  twice,       \* ghost: the kinds of code that did so twice
  lowered,     \* ghost: totp_last_step went back under a login's feet
  proved,      \* ghost: secrets whose code a confirmation has checked
  mfaOn,       \* ghost: the admin's last completed MFA change turned it on
  crossed,     \* ghost: an MFA change wrote over one made since it read the row
  deactivated, \* ghost: the superadmin has deactivated the account
  revived,     \* ghost: ... and an acceptance that read it before made it active
  unrevoked    \* ghost: a request was cut short before it ended other sessions

mfaGhosts == <<usedCodes, twice, lowered, proved, mfaOn, crossed>>
userGhosts == <<deactivated, revived>>
accountVars == <<account, sessions, call, clock, calls, aborts, cred, mfaGhosts, userGhosts,
                 unrevoked>>

Status == {"absent", "pending", "active", "disabled"}
Number == 1..(MaxCalls + 1)            \* 1: made before the first request
Password == {0} \cup Number            \* 0: none that verifies
Secret == {0} \cup Number              \* 0: null
Step == 0..MaxStep                     \* 0: null
RecoveryCode == Number \X Slot
TotpCode == Number \X (1..MaxStep)
Row == [status: Status, password: Password, secret: Secret, enabled: BOOLEAN, lastStep: Step,
        recovery: SUBSET RecoveryCode]
\* late: its login read the row before the last change of credentials.
Session == [sid: Number, cred: Nat, late: BOOLEAN]
CallPC == {"idle", "mfa", "session", "entered", "password", "setup", "confirm", "disable",
           "revoke", "accept", "revokeAll"}

NoRow == [status |-> "absent", password |-> 0, secret |-> 0, enabled |-> FALSE, lastStep |-> 0,
          recovery |-> {}]
\* n: the request's number; sid: the session it came with, 0 is none; row, cred: what it
\* read.
NoCall == [pc |-> "idle", n |-> 1, sid |-> 0, row |-> NoRow, cred |-> 0]

AccountsTypeOK ==
  /\ account \in Row
  /\ sessions \subseteq Session
  /\ call \in [Call -> [pc: CallPC, n: Number, sid: {0} \cup Number, row: Row, cred: Nat]]
  /\ clock \in 1..MaxStep
  /\ calls \in 0..MaxCalls /\ aborts \in 0..MaxAborts
  /\ cred \in Nat
  /\ usedCodes \in [recovery: SUBSET RecoveryCode, totp: SUBSET TotpCode]
  /\ twice \subseteq {"recovery", "totp"}
  /\ proved \subseteq Secret
  /\ {lowered, mfaOn, crossed, deactivated, revived, unrevoked} \subseteq BOOLEAN

\* No account yet, or one that is signed in, without MFA or with it.
AccountsInit ==
  /\ \/ account = NoRow /\ sessions = {} /\ mfaOn = FALSE /\ proved = {}
     \/ /\ sessions = {[sid |-> 1, cred |-> 0, late |-> FALSE]}
        /\ \/ /\ account = [NoRow EXCEPT !.status = "active", !.password = 1]
              /\ mfaOn = FALSE /\ proved = {}
           \/ /\ account = [status |-> "active", password |-> 1, secret |-> 1, enabled |-> TRUE,
                            lastStep |-> 0, recovery |-> {1} \X Slot]
              /\ mfaOn = TRUE /\ proved = {1}
  /\ call = [r \in Call |-> NoCall]
  /\ clock = 1 /\ calls = 0 /\ aborts = 0 /\ cred = 0
  /\ usedCodes = [recovery |-> {}, totp |-> {}] /\ twice = {}
  /\ lowered = FALSE /\ crossed = FALSE
  /\ deactivated = FALSE /\ revived = FALSE /\ unrevoked = FALSE

-----------------------------------------------------------------------------
CallAt(r, pc) == call[r].pc = pc
EndCall(r) == call' = [call EXCEPT ![r] = NoCall]

\* The request goes on; what it read matters no more, but for the credentials.
Goto(r, pc) == call' = [call EXCEPT ![r].pc = pc, ![r].row = NoRow]

\* A request arrives, at the place named pc, with a session or none, having read a row.
Arrive(r, pc, sid, row) ==
  /\ CallAt(r, "idle")
  /\ calls < MaxCalls /\ calls' = calls + 1
  /\ call' = [call EXCEPT ![r] = [pc |-> pc, n |-> calls' + 1, sid |-> sid, row |-> row,
                                  cred |-> cred]]

\* verifyTotpOnce: a code of that secret for a step within one of the clock's, after the
\* last one accepted; null accepts any.
TotpAccepted(row, step) ==
  /\ row.secret # 0
  /\ step \in 1..MaxStep /\ step <= clock + 1 /\ clock <= step + 1
  /\ step > row.lastStep

-----------------------------------------------------------------------------
\* POST /login

\* The row is read once: status and password are judged on it, some time later.
LoginRead(r) ==
  /\ account.status = "active"
  /\ IF account.enabled THEN Arrive(r, "mfa", 0, account) ELSE Arrive(r, "session", 0, NoRow)
  /\ UNCHANGED <<account, sessions, clock, aborts, cred, mfaGhosts, userGhosts, unrevoked>>

\* A recovery code found in the row as it was read is removed from the row as it is; if
\* it is no longer there, the login fails.
LoginRecovery(r, code) ==
  /\ CallAt(r, "mfa") /\ code \in call[r].row.recovery
  /\ IF code \in account.recovery
     THEN /\ account' = [account EXCEPT !.recovery = @ \ {code}]
          /\ usedCodes' = [usedCodes EXCEPT !.recovery = @ \cup {code}]
          /\ twice' = IF code \in usedCodes.recovery THEN twice \cup {"recovery"} ELSE twice
          /\ Goto(r, "session")
     ELSE EndCall(r) /\ UNCHANGED <<account, usedCodes, twice>>
  /\ UNCHANGED <<sessions, clock, calls, aborts, cred, lowered, proved, mfaOn, crossed, userGhosts,
                 unrevoked>>

\* Mutant: the step is stored whatever the row has become.
StepIsNew(step) == step \in Step

\* UPDATE ... WHERE totp_last_step IS NULL OR totp_last_step < step
ClaimsStep(step) == account.lastStep < step

\* A TOTP code: judged on the row as it was read, claimed on the row as it is.
LoginTotp(r, step) ==
  /\ CallAt(r, "mfa") /\ TotpAccepted(call[r].row, step)
  /\ LET code == <<call[r].row.secret, step>>
     IN IF ClaimsStep(step)
        THEN /\ account' = [account EXCEPT !.lastStep = step]
             /\ usedCodes' = [usedCodes EXCEPT !.totp = @ \cup {code}]
             /\ twice' = IF code \in usedCodes.totp THEN twice \cup {"totp"} ELSE twice
             /\ Goto(r, "session")
        ELSE EndCall(r) /\ UNCHANGED <<account, usedCodes, twice>>
  /\ UNCHANGED <<sessions, clock, calls, aborts, cred, lowered, proved, mfaOn, crossed, userGhosts,
                 unrevoked>>

\* createSession, without another look at the account.
LoginSession(r) ==
  /\ CallAt(r, "session")
  /\ sessions' = sessions \cup
       {[sid |-> call[r].n, cred |-> call[r].cred, late |-> call[r].cred # cred]}
  /\ EndCall(r)
  /\ UNCHANGED <<account, clock, calls, aborts, cred, mfaGhosts, userGhosts, unrevoked>>

\* A missing or wrong code, a wrong password, a handler's 4xx: nothing is written.
Refused(r) ==
  /\ call[r].pc \in {"mfa", "entered", "confirm", "disable"}
  /\ EndCall(r)
  /\ UNCHANGED <<account, sessions, clock, calls, aborts, cred, mfaGhosts, userGhosts, unrevoked>>

-----------------------------------------------------------------------------
\* Requests that come with a session

\* registerAdminAuthHook: findSession joins the session with its account.
Enter(r, s) ==
  /\ s \in sessions /\ account.status = "active"
  /\ Arrive(r, "entered", s.sid, NoRow)
  /\ UNCHANGED <<account, sessions, clock, aborts, cred, mfaGhosts, userGhosts, unrevoked>>

\* Logout, the idle limit, expiry and its purge.
SessionEnds(s) ==
  /\ s \in sessions
  /\ sessions' = sessions \ {s}
  /\ UNCHANGED <<account, call, clock, calls, aborts, cred, mfaGhosts, userGhosts, unrevoked>>

\* Mutant: the check for an enabled authenticator is left to the page.
HandlerReadOpen(r, pc) ==
  /\ CallAt(r, "entered")
  /\ pc = "confirm" => account.secret # 0
  /\ call' = [call EXCEPT ![r].pc = pc, ![r].row = account]
  /\ UNCHANGED <<account, sessions, clock, calls, aborts, cred, mfaGhosts, userGhosts, unrevoked>>

\* The handler's own SELECT, which sees what has been written since the hook's.
HandlerRead(r, pc) ==
  /\ CallAt(r, "entered")
  /\ pc = "setup" => ~account.enabled
  /\ pc = "confirm" => account.secret # 0
  /\ call' = [call EXCEPT ![r].pc = pc, ![r].row = account]
  /\ UNCHANGED <<account, sessions, clock, calls, aborts, cred, mfaGhosts, userGhosts, unrevoked>>

\* POST /password, after the current one was verified and the new one hashed.
PasswordWrite(r) ==
  /\ CallAt(r, "password")
  /\ account' = [account EXCEPT !.password = call[r].n]
  /\ cred' = cred + 1
  /\ Goto(r, "revoke")
  /\ UNCHANGED <<sessions, clock, calls, aborts, mfaGhosts, userGhosts, unrevoked>>

\* POST /totp/setup stages a secret, and shows it.
SetupWrite(r) ==
  /\ CallAt(r, "setup")
  /\ account' = [account EXCEPT !.secret = call[r].n, !.enabled = FALSE]
  /\ crossed' = (crossed \/ (account.enabled /\ ~call[r].row.enabled))
  /\ EndCall(r)
  /\ UNCHANGED <<sessions, clock, calls, aborts, cred, usedCodes, twice, lowered, proved, mfaOn, userGhosts,
                 unrevoked>>

\* POST /totp/confirm: the code is judged on the secret that was read; the recovery codes
\* are new ones.
ConfirmWrite(r, step) ==
  /\ CallAt(r, "confirm") /\ TotpAccepted(call[r].row, step)
  /\ account' = [account EXCEPT !.enabled = TRUE, !.lastStep = step,
                                !.recovery = {call[r].n} \X Slot]
  /\ proved' = proved \cup {call[r].row.secret} /\ mfaOn' = TRUE
  /\ crossed' = (account.secret # call[r].row.secret)
  /\ lowered' = (lowered \/ step < account.lastStep)
  /\ cred' = cred + 1
  /\ Goto(r, "revoke")
  /\ UNCHANGED <<sessions, clock, calls, aborts, usedCodes, twice, userGhosts, unrevoked>>

\* POST /totp/disable: the code, judged on the row that was read, is not claimed.
DisableWrite(r) ==
  /\ CallAt(r, "disable")
  /\ call[r].row.enabled =>
       \/ \E step \in 1..MaxStep : TotpAccepted(call[r].row, step)
       \/ call[r].row.recovery # {}
  /\ account' = [account EXCEPT !.secret = 0, !.enabled = FALSE, !.lastStep = 0, !.recovery = {}]
  /\ mfaOn' = FALSE /\ crossed' = FALSE
  /\ lowered' = (lowered \/ (account.lastStep # 0 /\ \E q \in Call : CallAt(q, "mfa")))
  /\ cred' = cred + 1
  /\ Goto(r, "revoke")
  /\ UNCHANGED <<sessions, clock, calls, aborts, usedCodes, twice, proved, userGhosts, unrevoked>>

\* Mutant: eq in place of ne.
RevokeOwn(r) ==
  /\ CallAt(r, "revoke")
  /\ sessions' = {s \in sessions : s.sid # call[r].sid}
  /\ EndCall(r)
  /\ UNCHANGED <<account, clock, calls, aborts, cred, mfaGhosts, userGhosts, unrevoked>>

\* revokeOtherSessions: the session the request came with stays, and goes on under the
\* credentials now in force.
RevokeOthers(r) ==
  /\ CallAt(r, "revoke")
  /\ sessions' = {[s EXCEPT !.cred = cred, !.late = FALSE] :
                    s \in {t \in sessions : t.sid = call[r].sid}}
  /\ EndCall(r)
  /\ UNCHANGED <<account, clock, calls, aborts, cred, mfaGhosts, userGhosts, unrevoked>>

-----------------------------------------------------------------------------
\* Invitation, acceptance, deactivation

\* The row is inserted pending; a second invitation meets the unique e-mail (409).
Invite ==
  /\ account.status = "absent"
  /\ account' = [account EXCEPT !.status = "pending"]
  /\ UNCHANGED <<sessions, call, clock, calls, aborts, cred, mfaGhosts, userGhosts, unrevoked>>

\* Mutant: an invitation's link works until it expires.
AcceptAgain(r) ==
  /\ account.status # "absent"
  /\ Arrive(r, "accept", 0, account)
  /\ UNCHANGED <<account, sessions, clock, aborts, cred, mfaGhosts, userGhosts, unrevoked>>

\* POST /users/invite/accept with a link that is genuine and not expired.
AcceptRead(r) ==
  /\ account.status = "pending"
  /\ Arrive(r, "accept", 0, account)
  /\ UNCHANGED <<account, sessions, clock, aborts, cred, mfaGhosts, userGhosts, unrevoked>>

\* After hashing: the row becomes active, whatever it is by now.  A second acceptance
\* changes a password and ends no session.
AcceptWrite(r) ==
  /\ CallAt(r, "accept")
  /\ account' = [account EXCEPT !.status = "active", !.password = call[r].n]
  /\ revived' = (revived \/ (account.status = "disabled" /\ call[r].row.status = "pending"))
  /\ cred' = cred + 1
  /\ unrevoked' = (unrevoked \/ account.status # "pending")
  /\ EndCall(r)
  /\ UNCHANGED <<sessions, clock, calls, aborts, mfaGhosts, deactivated>>

\* The superadmin's POST /users/:id/deactivate: the row first, then its sessions.
Deactivate(r) ==
  /\ account.status # "absent"
  /\ Arrive(r, "revokeAll", 0, NoRow)
  /\ account' = [account EXCEPT !.status = "disabled"]
  /\ deactivated' = TRUE
  /\ UNCHANGED <<sessions, clock, aborts, cred, mfaGhosts, revived, unrevoked>>

RevokeAll(r) ==
  /\ CallAt(r, "revokeAll")
  /\ sessions' = {}
  /\ EndCall(r)
  /\ UNCHANGED <<account, clock, calls, aborts, cred, mfaGhosts, userGhosts, unrevoked>>

-----------------------------------------------------------------------------
\* The authenticator's next step: 30 seconds.
AuthenticatorTick ==
  /\ clock < MaxStep /\ clock' = clock + 1
  /\ UNCHANGED <<account, sessions, call, calls, aborts, cred, mfaGhosts, userGhosts, unrevoked>>

\* A statement fails or the process dies: what the request wrote stays.
CallAborts(r) ==
  /\ ~CallAt(r, "idle")
  /\ aborts < MaxAborts /\ aborts' = aborts + 1
  /\ unrevoked' = (unrevoked \/ CallAt(r, "revoke"))
  /\ EndCall(r)
  /\ UNCHANGED <<account, sessions, clock, calls, cred, mfaGhosts, userGhosts>>

CallStep(r) ==
  \/ LoginRead(r) \/ LoginSession(r) \/ Refused(r)
  \/ \E code \in RecoveryCode : LoginRecovery(r, code)
  \/ \E step \in 1..MaxStep : LoginTotp(r, step) \/ ConfirmWrite(r, step)
  \/ \E s \in sessions : Enter(r, s)
  \/ \E pc \in {"password", "setup", "confirm", "disable"} : HandlerRead(r, pc)
  \/ PasswordWrite(r) \/ SetupWrite(r) \/ DisableWrite(r) \/ RevokeOthers(r)
  \/ AcceptRead(r) \/ AcceptWrite(r) \/ Deactivate(r) \/ RevokeAll(r)
  \/ CallAborts(r)

AccountsNext ==
  \/ \E r \in Call : CallStep(r)
  \/ \E s \in sessions : SessionEnds(s)
  \/ Invite \/ AuthenticatorTick

AccountsSpec == AccountsInit /\ [][AccountsNext]_accountVars

-----------------------------------------------------------------------------
\* Properties

\* "Save these recovery codes now.  They are shown once and each works one time"
\* (Settings.tsx 210), and a TOTP code "is accepted at most once" (totp.ts 32): over
\* logins that judge the same row side by side, a code lets one of them through - for
\* a TOTP code unless a confirmation or a removal of MFA, which write the last step
\* unconditionally, set it back meanwhile.
CodesWorkOnce == "recovery" \notin twice /\ ("totp" \in twice => lowered)

\* "Never let 'set up' silently downgrade an account that already has MFA"
\* (adminUsers.ts 167): MFA that is on has a secret whose code the admin has entered,
\* and MFA that was turned on is on - unless two of the three MFA requests crossed, and
\* one wrote over what the other had written since the first read the row.
MfaAsLeft ==
  /\ account.enabled => account.secret \in proved \/ crossed
  /\ mfaOn => account.enabled \/ crossed

\* "Called after a password change or an MFA change so a stolen cookie doesn't survive
\* the credential rotation" (sessions.ts 93): once no change has its revocation to
\* come, a session was opened with the credentials in force or is the one that changed
\* them - except those of logins that were under way, which read the row before.
OldCredentialsEndSessions ==
  (\A r \in Call : ~CallAt(r, "revoke")) =>
    \A s \in sessions : s.cred = cred \/ s.late \/ unrevoked

\* A deactivated account stays so: only an acceptance that read the row while it was
\* pending makes it active again, and nothing else does, however the links are used.
DeactivationIsFinal == deactivated => account.status = "disabled" \/ revived
=============================================================================

---------------------------- MODULE LoginThrottle ----------------------------
(***************************************************************************)
(* The failed logins of one e-mail address: a counter in Redis for each    *)
(* client address it was tried from, and the attempts that read the        *)
(* counter, verify a password for a while and then count a failure.        *)
(* The soft counter, which only sets how long an attempt waits, is left    *)
(* out; what a login does to the account is in module Accounts.            *)
(***************************************************************************)
EXTENDS Naturals, FiniteSets

CONSTANTS
  Ip,             \* client addresses
  Attempt,        \* logins in flight at one time
  LOGIN_HARD_LOCK,
  MaxUnlocks,     \* bound: unlocks and windows that end
  MaxUncounted    \* bound: failures Redis does not count

ASSUME LoginThrottleAssumption ==
  /\ LOGIN_HARD_LOCK \in Nat \ {0}
  /\ {MaxUnlocks, MaxUncounted} \subseteq Nat
  /\ IsFiniteSet(Attempt)

VARIABLES
  hard,       \* [Ip -> the counter's value; 0: no key]
  attempt,    \* [Attempt -> what the login is doing, and from where]
  unlocking,  \* the addresses whose counter the superadmin's scan has yet to meet
  unlocks,    \* unlocks and expired windows so far
  guesses,    \* ghost: [Ip -> passwords and codes found wrong since hard was cleared]
  uncounted   \* ghost: failures whose count was lost

throttleVars == <<hard, attempt, unlocking, unlocks, guesses, uncounted>>

AttemptPC == {"idle", "check", "bump", "reset"}

ThrottleTypeOK ==
  /\ hard \in [Ip -> Nat]
  /\ attempt \in [Attempt -> [pc: AttemptPC, ip: Ip]]
  /\ unlocking \subseteq Ip
  /\ unlocks \in 0..MaxUnlocks
  /\ guesses \in [Ip -> Nat]
  /\ uncounted \in 0..MaxUncounted

ThrottleInit ==
  /\ hard = [i \in Ip |-> 0]
  /\ attempt \in [Attempt -> [pc: {"idle"}, ip: Ip]]
  /\ unlocking = {} /\ unlocks = 0
  /\ guesses = [i \in Ip |-> 0] /\ uncounted = 0

-----------------------------------------------------------------------------
AttemptAt(a, pc) == attempt[a].pc = pc
AttemptTo(a, pc) == attempt' = [attempt EXCEPT ![a].pc = pc]

\* Mutant: one failure more before the lock.
BeginLoose(a, ip) ==
  /\ AttemptAt(a, "idle")
  /\ hard[ip] <= LOGIN_HARD_LOCK
  /\ attempt' = [attempt EXCEPT ![a] = [pc |-> "check", ip |-> ip]]
  /\ UNCHANGED <<hard, unlocking, unlocks, guesses, uncounted>>

\* getLoginFailures, and the lock it stands for: a locked login stops here, uncounted.
Begin(a, ip) ==
  /\ AttemptAt(a, "idle")
  /\ hard[ip] < LOGIN_HARD_LOCK
  /\ attempt' = [attempt EXCEPT ![a] = [pc |-> "check", ip |-> ip]]
  /\ UNCHANGED <<hard, unlocking, unlocks, guesses, uncounted>>

\* A wrong password, a wrong code, or a right one that another login used first: fail().
Wrong(a) ==
  /\ AttemptAt(a, "check")
  /\ guesses' = [guesses EXCEPT ![attempt[a].ip] = @ + 1]
  /\ AttemptTo(a, "bump")
  /\ UNCHANGED <<hard, unlocking, unlocks, uncounted>>

\* INCR and EXPIRE NX in one transaction: the window starts with the first failure.
Bump(a) ==
  /\ AttemptAt(a, "bump")
  /\ hard' = [hard EXCEPT ![attempt[a].ip] = @ + 1]
  /\ AttemptTo(a, "idle")
  /\ UNCHANGED <<unlocking, unlocks, guesses, uncounted>>

\* Redis refuses: the login answers 500, and the failure is not counted.
BumpLost(a) ==
  /\ AttemptAt(a, "bump")
  /\ uncounted < MaxUncounted /\ uncounted' = uncounted + 1
  /\ AttemptTo(a, "idle")
  /\ UNCHANGED <<hard, unlocking, unlocks, guesses>>

\* 202 needsMfa, a state of MFA the code cannot read, a statement that fails: neither a
\* success nor a failure.
Undecided(a) ==
  /\ AttemptAt(a, "check")
  /\ AttemptTo(a, "idle")
  /\ UNCHANGED <<hard, unlocking, unlocks, guesses, uncounted>>

Right(a) ==
  /\ AttemptAt(a, "check")
  /\ AttemptTo(a, "reset")
  /\ UNCHANGED <<hard, unlocking, unlocks, guesses, uncounted>>

Cleared(ip) ==
  /\ hard' = [hard EXCEPT ![ip] = 0]
  /\ guesses' = [guesses EXCEPT ![ip] = 0]

\* resetLoginFailures: the counter of this address only.
Reset(a) ==
  /\ AttemptAt(a, "reset")
  /\ Cleared(attempt[a].ip)
  /\ AttemptTo(a, "idle")
  /\ UNCHANGED <<unlocking, unlocks, uncounted>>

\* The DEL fails, and the login with it: no session, the counter as it was.
ResetLost(a) ==
  /\ AttemptAt(a, "reset")
  /\ AttemptTo(a, "idle")
  /\ UNCHANGED <<hard, unlocking, unlocks, guesses, uncounted>>

-----------------------------------------------------------------------------
\* unlockAccount: SCAN returns every key that is there from its start to its end, and a
\* page of them is deleted at a time.
Unlock ==
  /\ unlocking = {} /\ unlocks < MaxUnlocks /\ unlocks' = unlocks + 1
  /\ unlocking' = Ip
  /\ UNCHANGED <<hard, attempt, guesses, uncounted>>

UnlockNext(ip) ==
  /\ ip \in unlocking /\ unlocking' = unlocking \ {ip}
  /\ Cleared(ip)
  /\ UNCHANGED <<attempt, unlocks, uncounted>>

\* LOGIN_WINDOW_SEC after the first failure.
WindowEnds(ip) ==
  /\ hard[ip] > 0
  /\ unlocks < MaxUnlocks /\ unlocks' = unlocks + 1
  /\ Cleared(ip)
  /\ UNCHANGED <<attempt, unlocking, uncounted>>

ThrottleNext ==
  \/ \E a \in Attempt :
       \/ \E ip \in Ip : Begin(a, ip)
       \/ Wrong(a) \/ Bump(a) \/ BumpLost(a) \/ Undecided(a)
       \/ Right(a) \/ Reset(a) \/ ResetLost(a)
  \/ Unlock
  \/ \E ip \in Ip : UnlockNext(ip) \/ WindowEnds(ip)

ThrottleSpec == ThrottleInit /\ [][ThrottleNext]_throttleVars

-----------------------------------------------------------------------------
\* What the proof rests on: the logins from an address whose count is to come, and those
\* whose credentials are still to be judged.
Pending(ip) == Cardinality({a \in Attempt : attempt[a] = [pc |-> "bump", ip |-> ip]})
Judging(ip) == Cardinality({a \in Attempt : attempt[a] = [pc |-> "check", ip |-> ip]})

ThrottleIInv ==
  \A ip \in Ip :
    /\ guesses[ip] <= hard[ip] + Pending(ip) + uncounted
    /\ hard[ip] + Pending(ip) + Judging(ip) <= LOGIN_HARD_LOCK - 1 + Cardinality(Attempt)

\* "HARD (per email + client IP): full lock for the window" (rateLimit.ts 26): between two
\* clearings of an address's counter, no more than LOGIN_HARD_LOCK - 1 credentials are
\* found wrong from there, and one for each login that was past the lock already when the
\* counter reached it - however logins, successes, unlocks and windows interleave.
\* A failure that Redis could not count is one more.
HardLockHolds ==
  \A ip \in Ip : guesses[ip] <= LOGIN_HARD_LOCK - 1 + Cardinality(Attempt) + uncounted
=============================================================================

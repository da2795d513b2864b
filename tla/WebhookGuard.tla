---------------------------- MODULE WebhookGuard ----------------------------
(***************************************************************************)
(* The guard of a tenant's webhook (allow-list and token hash): the row in *)
(* Postgres, its cache in every API process, the loads of deliveries and   *)
(* the admin requests that change it and invalidate the cache.  Writes are *)
(* numbered: guard version n is what the n-th write left in the row, and   *)
(* version 0 is "no row", which refuses every delivery.  Tenants have      *)
(* separate rows and cache entries; this is one of them.                   *)
(***************************************************************************)
EXTENDS Naturals, Sequences

CONSTANTS
  Process,     \* API processes
  Request,     \* requests in flight at one time
  None,        \* "no value"
  TTL,         \* CACHE_TTL_MS, in ticks
  MaxTime,     \* bound: ticks of the clock
  MaxWrites,   \* bound: writes of the guard
  MaxFaults    \* bound: faults

ASSUME GuardAssumption ==
  /\ {TTL, MaxTime, MaxFaults} \subseteq Nat /\ MaxWrites \in Nat \ {0}
  /\ None \notin Process

VARIABLES
  clock,     \* Date.now()
  born,      \* born[v]: when guard version v was written; its length is the row's version
  cache,     \* [Process -> the cached guard]
  request,   \* [Request -> what the request is doing]
  applied,   \* ghost: newest version an admin request has applied in the process
  faults     \* faults so far

vars == <<clock, born, cache, request, applied, faults>>

Version == 0..MaxWrites
Time == 0..MaxTime
PC == {"idle", "select", "fill", "written"}

\* at: "now" of a load.  guard: the version it has read, or the one the request wrote.
\* late: a change was applied in the process after the load had read the row.
Idle == [pc |-> "idle", proc |-> None, at |-> 0, guard |-> 0, late |-> FALSE]
CacheEntry == [guard: Version, expiresAt: 0..(MaxTime + TTL), late: BOOLEAN]

\* A missing entry is one that has expired.
NoEntry == [guard |-> 0, expiresAt |-> 0, late |-> FALSE]

TypeOK ==
  /\ clock \in Time
  /\ born \in Seq(Time) /\ Len(born) \in Version
  /\ cache \in [Process -> CacheEntry]
  /\ request \in [Request -> [pc: PC, proc: Process \cup {None}, at: Time,
                              guard: Version, late: BOOLEAN]]
  /\ applied \in [Process -> Version]
  /\ faults \in 0..MaxFaults

\* A tenant that has only installed the app, or one that is configured.
Init ==
  /\ clock = 0 /\ born \in {<< >>, <<0>>}
  /\ cache = [p \in Process |-> NoEntry]
  /\ request = [r \in Request |-> Idle]
  /\ applied = [p \in Process |-> 0]
  /\ faults = 0

-----------------------------------------------------------------------------
Guard == Len(born)
RowExists == Guard > 0
At(r, pc) == request[r].pc = pc
ProcOf(r) == request[r].proc

\* The entry is not expired: deliveries are judged by it without a SELECT.
Live(p) == cache[p].expiresAt > clock

WriteGuard == Guard < MaxWrites /\ born' = Append(born, clock)

-----------------------------------------------------------------------------
\* loadWebhookGuard, when the cache has no live entry

\* "now" is read before the await.
Load(r, p) ==
  /\ At(r, "idle") /\ ~Live(p)
  /\ request' = [request EXCEPT ![r] = [Idle EXCEPT !.pc = "select", !.proc = p, !.at = clock]]
  /\ UNCHANGED <<clock, born, cache, applied, faults>>

\* The SELECT is executed; its answer is still to come.
LoadSelect(r) ==
  /\ At(r, "select")
  /\ request' = [request EXCEPT ![r].pc = "fill", ![r].guard = Guard]
  /\ UNCHANGED <<clock, born, cache, applied, faults>>

\* Mutant: the lifetime is counted from the end of the SELECT.
FillFromNow(r) ==
  /\ At(r, "fill")
  /\ cache' = [cache EXCEPT ![ProcOf(r)] = [guard |-> request[r].guard,
                 expiresAt |-> clock + TTL, late |-> request[r].late]]
  /\ request' = [request EXCEPT ![r] = Idle]
  /\ UNCHANGED <<clock, born, applied, faults>>

\* Whatever happened during the await, the entry is set.
LoadFill(r) ==
  /\ At(r, "fill")
  /\ cache' = [cache EXCEPT ![ProcOf(r)] = [guard |-> request[r].guard,
                 expiresAt |-> request[r].at + TTL, late |-> request[r].late]]
  /\ request' = [request EXCEPT ![r] = Idle]
  /\ UNCHANGED <<clock, born, applied, faults>>

-----------------------------------------------------------------------------
\* The admin requests: rotate the token, replace the allow-list, save the config.
\* Up to its UPDATE or INSERT a request does nothing another one can see.

\* In process p, request r has executed a statement that left version g in the row.
Written(r, p, g) ==
  request' = [request EXCEPT ![r] =
                [pc |-> "written", proc |-> p, at |-> 0, guard |-> g, late |-> FALSE]]

\* UPDATE ... RETURNING: without a row, 404 and no change.
Rotate(r, p) ==
  /\ At(r, "idle") /\ RowExists
  /\ WriteGuard /\ Written(r, p, Guard + 1)
  /\ UNCHANGED <<clock, cache, applied, faults>>

\* Mutant: the version of a row that does not exist.
AllowUnset(r, p) ==
  /\ At(r, "idle")
  /\ IF RowExists
     THEN WriteGuard /\ Written(r, p, Guard + 1)
     ELSE UNCHANGED born /\ Written(r, p, None)
  /\ UNCHANGED <<clock, cache, applied, faults>>

\* Without a row the UPDATE matches nothing, and the handler goes on all the same.
Allow(r, p) ==
  /\ At(r, "idle")
  /\ IF RowExists
     THEN WriteGuard /\ Written(r, p, Guard + 1)
     ELSE UNCHANGED born /\ Written(r, p, 0)
  /\ UNCHANGED <<clock, cache, applied, faults>>

\* The rest of the configuration is in module TenantConfig.  An update leaves the
\* guard alone and invalidates.
Update(r, p) ==
  /\ At(r, "idle") /\ RowExists
  /\ Written(r, p, 0)
  /\ UNCHANGED <<clock, born, cache, applied, faults>>

\* First-time configuration writes a row with a new token, and fails before it
\* would invalidate (CreateFails there).
Create ==
  /\ ~RowExists
  /\ WriteGuard
  /\ UNCHANGED <<clock, cache, request, applied, faults>>

\* Mutant: the cache is left alone.
ApplyNowhere(r) ==
  LET p == ProcOf(r) IN
  /\ At(r, "written")
  /\ applied' = [applied EXCEPT ![p] = IF request[r].guard > @ THEN request[r].guard ELSE @]
  /\ request' = [request EXCEPT ![r] = Idle]
  /\ UNCHANGED <<clock, born, cache, faults>>

\* invalidateWebhookAllowlist, back in the process.  A load that has read the row
\* already is not stopped by it: its fill comes late.
Invalidate(r) ==
  LET p == ProcOf(r) IN
  /\ At(r, "written")
  /\ cache' = [cache EXCEPT ![p] = NoEntry]
  /\ applied' = [applied EXCEPT ![p] = IF request[r].guard > @ THEN request[r].guard ELSE @]
  /\ request' = [q \in Request |->
       IF q = r THEN Idle
       ELSE [request[q] EXCEPT !.late = @ \/ (At(q, "fill") /\ ProcOf(q) = p)]]
  /\ UNCHANGED <<clock, born, faults>>

-----------------------------------------------------------------------------
\* Failures and time

Fault == faults < MaxFaults /\ faults' = faults + 1

\* A statement fails, or its answer is lost: what was written stays, and nothing is
\* invalidated or cached.
Abort(r) ==
  /\ ~At(r, "idle")
  /\ Fault
  /\ request' = [request EXCEPT ![r] = Idle]
  /\ UNCHANGED <<clock, born, cache, applied>>

\* The process restarts: its requests and its cache are gone.
Restart(p) ==
  /\ Fault
  /\ request' = [r \in Request |-> IF ProcOf(r) = p THEN Idle ELSE request[r]]
  /\ cache' = [cache EXCEPT ![p] = NoEntry]
  /\ UNCHANGED <<clock, born, applied>>

Tick ==
  /\ clock < MaxTime
  /\ clock' = clock + 1
  /\ UNCHANGED <<born, cache, request, applied, faults>>

-----------------------------------------------------------------------------
Step(r) == LoadSelect(r) \/ LoadFill(r) \/ Invalidate(r) \/ Abort(r)

Next ==
  \/ \E r \in Request, p \in Process : Load(r, p) \/ Rotate(r, p) \/ Allow(r, p) \/ Update(r, p)
  \/ \E r \in Request : Step(r)
  \/ Create
  \/ \E p \in Process : Restart(p)
  \/ Tick

Spec == Init /\ [][Next]_vars

-----------------------------------------------------------------------------
\* Properties

\* "Within the TTL on any other instance" (webhookAllowlist.ts 11-12): the guard a
\* process answers from was replaced less than the TTL ago, however long the SELECT
\* took and whatever other processes wrote meanwhile.
StaleForLessThanTTL ==
  \A p \in Process :
    Live(p) /\ cache[p].guard < Guard => clock < born[cache[p].guard + 1] + TTL

\* "They apply immediately on this instance" (webhookAllowlist.ts 10-11): once a
\* change was applied in a process, it answers from that change or a later one -
\* unless the entry comes from a load that had read the row before.
AppliedHereAtOnce ==
  \A p \in Process : Live(p) /\ cache[p].guard < applied[p] => cache[p].late
=============================================================================

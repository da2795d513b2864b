------------------------- MODULE WebhookGuardProofs -------------------------
(***************************************************************************)
(* The two freshness properties of WebhookGuard, for any number of         *)
(* processes and requests and any lifetime of an entry.  Neither is        *)
(* inductive: how old an entry may be is settled when the load that fills  *)
(* it has read the row, so the invariant speaks of loads in flight too.    *)
(***************************************************************************)
EXTENDS WebhookGuard, TLAPS

\* Version g was in the row at time t, or later.
NotReplacedBefore(g, t) == g < Guard => t <= born[g + 1]

\* Writes lie in the past.
Past == \A v \in 1..Guard : born[v] <= clock

\* Nobody knows of a version that is not written yet, or of a later time.
Known ==
  /\ \A p \in Process : applied[p] <= Guard /\ cache[p].guard <= Guard
                          /\ cache[p].expiresAt <= clock + TTL
  /\ \A r \in Request : request[r].guard <= Guard /\ request[r].at <= clock
  /\ \A r \in Request : ~At(r, "idle") => ProcOf(r) \in Process

\* An entry, and a load that is about to fill one, was read no earlier than the time
\* its lifetime is counted from.
FreshFrom ==
  /\ \A p \in Process : cache[p].guard < Guard => cache[p].expiresAt <= born[cache[p].guard + 1] + TTL
  /\ \A r \in Request : At(r, "fill") => NotReplacedBefore(request[r].guard, request[r].at)

\* An entry, or a load about to fill one, that is older than what was applied in its
\* process is marked late.
LateOnly ==
  /\ \A p \in Process : (cache[p].expiresAt > 0 /\ cache[p].guard < applied[p]) => cache[p].late
  /\ \A r \in Request : (At(r, "fill") /\ request[r].guard < applied[ProcOf(r)]) => request[r].late

IInv == TypeOK /\ Past /\ Known /\ FreshFrom /\ LateOnly

-----------------------------------------------------------------------------
\* Zero is within every bound, and counters below their bounds may grow.
LEMMA Bounds ==
  /\ TTL \in Nat /\ MaxTime \in Nat /\ MaxWrites \in Nat /\ MaxFaults \in Nat
  /\ 0 \in Version /\ 0 \in Time /\ 0 \in 0..MaxFaults /\ 0 \in 0..(MaxTime + TTL)
  /\ \A t \in Time : t \in Nat /\ t + TTL \in 0..(MaxTime + TTL)
  /\ \A n \in 0..MaxFaults : n < MaxFaults => n + 1 \in 0..MaxFaults
  BY GuardAssumption DEF Version, Time

\* No request, no entry, at most one write.
LEMMA InitInv == Init => IInv
<1> SUFFICES ASSUME Init PROVE IInv
  OBVIOUS
<1>1. born \in Seq(Time) /\ Len(born) \in Version /\ \A v \in 1..Len(born) : born[v] = 0
  <2>1. CASE born = << >>
    BY <2>1, Bounds
  <2>2. CASE born = <<0>>
    BY <2>2, GuardAssumption DEF Version, Time
  <2> QED BY <2>1, <2>2 DEF Init
<1>2. Guard \in Nat
  BY <1>1, Bounds DEF Version, Guard
<1>3. TypeOK
  BY <1>1, Bounds DEF Init, TypeOK, Idle, NoEntry, CacheEntry, PC
<1>4. Past /\ Known
  BY <1>1, <1>2, Bounds DEF Init, Past, Known, Guard, At, ProcOf, Idle, NoEntry
<1>5. FreshFrom
  <2>1. ASSUME Guard > 0 PROVE born[1] = 0
    BY <1>1, <1>2, <2>1 DEF Guard
  <2>2. \A p \in Process : cache[p].guard = 0 /\ cache[p].expiresAt = 0
    BY DEF Init, NoEntry
  <2>3. \A r \in Request : ~At(r, "fill")
    BY DEF Init, At, Idle
  <2> QED BY <1>2, <2>1, <2>2, <2>3, Bounds DEF FreshFrom
<1>6. LateOnly
  BY DEF Init, LateOnly, At, Idle, NoEntry
<1> QED BY <1>3, <1>4, <1>5, <1>6 DEF IInv

\* What a write does to the row: one more version, written now.
LEMMA Write ==
  ASSUME TypeOK, Past, WriteGuard
  PROVE  /\ born' \in Seq(Time) /\ Guard' = Guard + 1 /\ Guard' \in Version
         /\ Guard \in Nat
         /\ born'[Guard + 1] = clock
         /\ \A v \in 1..Guard : born'[v] = born[v]
  BY Bounds DEF TypeOK, WriteGuard, Guard, Version

\* The sequence of writes, as arithmetic sees it.
LEMMA Numbers ==
  ASSUME TypeOK
  PROVE  /\ Guard \in Nat /\ clock \in Nat
         /\ \A v \in 1..Guard : born[v] \in Nat
         /\ \A p \in Process : cache[p].guard \in Nat /\ cache[p].expiresAt \in Nat
                                 /\ applied[p] \in Nat
         /\ \A r \in Request : request[r].guard \in Nat /\ request[r].at \in Nat
  BY Bounds DEF TypeOK, Guard, Version, Time, CacheEntry

\* A write keeps what is said of entries and loads: to those that knew the newest
\* version the write comes no earlier than they read it.
LEMMA WriteKeeps ==
  ASSUME IInv, WriteGuard, UNCHANGED <<clock, cache, applied, faults>>,
         UNCHANGED request \/ \E r \in Request, p \in Process : Written(r, p, Guard + 1)
  PROVE  IInv'
<1> USE DEF IInv
<1>1. /\ Guard' = Guard + 1 /\ Guard' \in Version /\ born' \in Seq(Time)
      /\ born'[Guard + 1] = clock /\ \A v \in 1..Guard : born'[v] = born[v]
  BY Write
<1>2. /\ Guard \in Nat /\ clock \in Nat
      /\ \A v \in 1..Guard : born[v] \in Nat
      /\ \A q \in Process : cache[q].guard \in Nat /\ cache[q].expiresAt \in Nat /\ applied[q] \in Nat
      /\ \A q \in Request : request[q].guard \in Nat /\ request[q].at \in Nat
  BY Numbers
<1>3. \A q \in Request : \/ request'[q] = request[q]
                          \/ /\ request'[q].pc = "written" /\ request'[q].proc \in Process
                             /\ request'[q].guard = Guard + 1 /\ request'[q].at = 0
  <2>1. CASE \E r \in Request, p \in Process : Written(r, p, Guard + 1)
    <3>1. PICK r \in Request, p \in Process : Written(r, p, Guard + 1)
      BY <2>1
    <3> QED BY <3>1 DEF Written, TypeOK
  <2> QED BY <2>1
<1>4. TypeOK'
  <2>1. \A p \in Process : [pc |-> "written", proc |-> p, at |-> 0, guard |-> Guard + 1, late |-> FALSE]
          \in [pc: PC, proc: Process \cup {None}, at: Time, guard: Version, late: BOOLEAN]
    BY <1>1, Bounds DEF Idle, PC
  <2>2. request' \in [Request -> [pc: PC, proc: Process \cup {None}, at: Time,
                                  guard: Version, late: BOOLEAN]]
    BY <2>1 DEF TypeOK, Written
  <2>3. faults' \in 0..MaxFaults
    BY DEF TypeOK
  <2> QED BY <1>1, <2>2, <2>3 DEF TypeOK, Guard
<1>5. Past'
  BY <1>1, <1>2 DEF Past
<1>6. Known'
  <2>1. \A q \in Process : applied[q] <= Guard + 1 /\ cache[q].guard <= Guard + 1
                            /\ cache[q].expiresAt <= clock + TTL
    BY <1>2 DEF Known
  <2>2. \A q \in Request : request'[q].guard <= Guard + 1 /\ request'[q].at <= clock
    BY <1>2, <1>3 DEF Known
  <2>3. \A q \in Request : request'[q].pc # "idle" => request'[q].proc \in Process
    BY <1>3 DEF Known, At, ProcOf
  <2> QED BY <1>1, <2>1, <2>2, <2>3 DEF Known, At, ProcOf
<1>7. FreshFrom'
  <2>1. ASSUME NEW g \in Nat, NEW t \in Nat, g <= Guard, t <= clock, g < Guard => t <= born[g + 1]
        PROVE  t <= born'[g + 1]
    BY <1>1, <1>2, <2>1
  <2>2. \A q \in Process : cache[q].expiresAt <= born'[cache[q].guard + 1] + TTL
    <3> TAKE q \in Process
    <3>1. CASE cache[q].guard < Guard
      <4>1. cache[q].guard + 1 \in 1..Guard
        BY <1>2, <3>1
      <4> QED BY <1>1, <3>1, <4>1 DEF FreshFrom
    <3>2. CASE cache[q].guard = Guard
      BY <1>1, <1>2, <3>2 DEF Known
    <3> QED BY <1>2, <3>1, <3>2 DEF Known
  <2>3. \A q \in Request : At(q, "fill")' => request[q].at <= born'[request[q].guard + 1]
                            /\ request'[q] = request[q]
    BY <1>2, <1>3, <2>1 DEF FreshFrom, Known, At, NotReplacedBefore
  <2> QED BY <2>2, <2>3 DEF FreshFrom, NotReplacedBefore
<1>8. LateOnly'
  BY <1>3 DEF LateOnly, At, ProcOf
<1> QED BY <1>4, <1>5, <1>6, <1>7, <1>8

\* A request turns idle, or begins, and entries only go away.
LEMMA QuietKeeps ==
  ASSUME IInv, UNCHANGED <<clock, born, applied>>,
         cache' \in [Process -> CacheEntry],
         \A p \in Process : cache'[p] = cache[p] \/ cache'[p] = NoEntry,
         request' \in [Request -> [pc: PC, proc: Process \cup {None}, at: Time,
                                   guard: Version, late: BOOLEAN]],
         \A r \in Request : \/ request'[r] = request[r]
                            \/ request'[r] = Idle
                            \/ /\ request'[r].pc \in {"select", "written"}
                               /\ request'[r].proc \in Process
                               /\ request'[r].guard = 0 /\ request'[r].at \in {0, clock},
         faults' \in 0..MaxFaults
  PROVE  IInv'
<1> USE DEF IInv
<1>1. Guard' = Guard
  BY DEF Guard
<1>2. TypeOK'
  BY DEF TypeOK
<1>3. Past'
  BY <1>1 DEF Past
<1>4. Known'
  <2>1. \A p \in Process : applied[p] <= Guard /\ cache'[p].guard <= Guard
                            /\ cache'[p].expiresAt <= clock + TTL
    BY Numbers, Bounds DEF Known, NoEntry
  <2>2. \A r \in Request : request'[r].guard <= Guard /\ request'[r].at <= clock
    BY Numbers DEF Known, Idle
  <2>3. \A r \in Request : request'[r].pc # "idle" => request'[r].proc \in Process
    BY DEF Known, Idle, At, ProcOf
  <2> QED BY <1>1, <2>1, <2>2, <2>3 DEF Known, At, ProcOf
<1>5. \A r \in Request : At(r, "fill")' => request'[r] = request[r]
  BY DEF At, Idle
<1>6. FreshFrom'
  <2>1. \A p \in Process : cache'[p].guard < Guard =>
            cache'[p].expiresAt <= born[cache'[p].guard + 1] + TTL
    <3> TAKE p \in Process
    <3>1. CASE cache'[p] = cache[p]
      BY <3>1 DEF FreshFrom
    <3>2. CASE cache'[p] = NoEntry
      <4>1. Guard > 0 => born[1] \in Nat
        BY Numbers
      <4> QED BY <3>2, <4>1, Bounds DEF NoEntry
    <3> QED BY <3>1, <3>2
  <2> QED BY <1>1, <1>5, <2>1 DEF FreshFrom, NotReplacedBefore, At
<1>7. LateOnly'
  <2>1. \A p \in Process : cache'[p].expiresAt > 0 => cache'[p] = cache[p]
    BY DEF NoEntry
  <2> QED BY <1>5, <2>1 DEF LateOnly, At, ProcOf
<1> QED BY <1>2, <1>3, <1>4, <1>6, <1>7
\* A load begins, an update is done with the row, a request is lost.
LEMMA QuietInv ==
  ASSUME IInv, NEW r \in Request, NEW p \in Process,
         \/ Load(r, p) \/ Update(r, p) \/ (Allow(r, p) /\ ~RowExists) \/ Abort(r)
  PROVE  IInv'
<1> USE DEF IInv
<1> DEFINE Requests == [pc: PC, proc: Process \cup {None}, at: Time, guard: Version, late: BOOLEAN]
<1>1. Idle \in Requests
  BY Bounds DEF Idle, PC
<1>2. CASE Load(r, p)
  <2>1. [Idle EXCEPT !.pc = "select", !.proc = p, !.at = clock] \in Requests
    BY Bounds DEF Idle, PC, TypeOK
  <2>2. request' \in [Request -> Requests]
    BY <1>2, <2>1 DEF Load, TypeOK
  <2>3. \A q \in Request : \/ request'[q] = request[q]
                            \/ /\ request'[q].pc = "select" /\ request'[q].proc = p
                               /\ request'[q].guard = 0 /\ request'[q].at = clock
    BY <1>2 DEF Load, TypeOK, Idle
  <2>4. cache' \in [Process -> CacheEntry] /\ faults' \in 0..MaxFaults
    BY <1>2 DEF Load, TypeOK
  <2> QED BY <1>2, <2>2, <2>3, <2>4, QuietKeeps DEF Load
<1>3. CASE Update(r, p) \/ (Allow(r, p) /\ ~RowExists)
  <2>1. Written(r, p, 0) /\ UNCHANGED <<clock, born, cache, applied, faults>>
    BY <1>3 DEF Update, Allow
  <2>2. [pc |-> "written", proc |-> p, at |-> 0, guard |-> 0, late |-> FALSE] \in Requests
    BY Bounds DEF PC
  <2>3. request' \in [Request -> Requests]
    BY <2>1, <2>2 DEF Written, TypeOK
  <2>4. \A q \in Request : \/ request'[q] = request[q]
                            \/ /\ request'[q].pc = "written" /\ request'[q].proc = p
                               /\ request'[q].guard = 0 /\ request'[q].at = 0
    BY <2>1 DEF Written, TypeOK, Idle
  <2>5. cache' \in [Process -> CacheEntry] /\ faults' \in 0..MaxFaults
    BY <2>1 DEF TypeOK
  <2> QED BY <2>1, <2>3, <2>4, <2>5, QuietKeeps
<1>4. CASE Abort(r)
  <2>1. request' \in [Request -> Requests]
    BY <1>1, <1>4 DEF Abort, TypeOK
  <2>2. \A q \in Request : request'[q] = request[q] \/ request'[q] = Idle
    BY <1>4 DEF Abort, TypeOK
  <2>3. cache' \in [Process -> CacheEntry] /\ faults' \in 0..MaxFaults
    BY <1>4, Bounds DEF Abort, Fault, TypeOK
  <2> QED BY <1>4, <2>1, <2>2, <2>3, QuietKeeps DEF Abort
<1> QED BY <1>2, <1>3, <1>4

\* A process restarts: its requests and its entry go.
LEMMA RestartInv ==
  ASSUME IInv, NEW p \in Process, Restart(p)
  PROVE  IInv'
<1> USE DEF IInv, Restart
<1>1. request' \in [Request -> [pc: PC, proc: Process \cup {None}, at: Time,
                                guard: Version, late: BOOLEAN]]
  BY Bounds DEF TypeOK, Idle, PC
<1>2. \A q \in Request : request'[q] = request[q] \/ request'[q] = Idle
  OBVIOUS
<1>3. cache' \in [Process -> CacheEntry] /\ faults' \in 0..MaxFaults
  BY Bounds DEF Fault, TypeOK, NoEntry, CacheEntry
<1>4. \A q \in Process : cache'[q] = cache[q] \/ cache'[q] = NoEntry
  BY DEF TypeOK
<1> QED BY <1>1, <1>2, <1>3, <1>4, QuietKeeps

\* What a load reads is the newest version, which nothing applied is newer than.
LEMMA LoadSelectInv ==
  ASSUME IInv, NEW r \in Request, LoadSelect(r)
  PROVE  IInv'
<1> USE DEF IInv, LoadSelect
<1>1. Guard' = Guard /\ Guard \in Version
  BY DEF Guard, TypeOK
<1>2. TypeOK'
  BY <1>1 DEF TypeOK, PC
<1>3. \A q \in Request : q # r => request'[q] = request[q]
  BY DEF TypeOK
<1>4. /\ request'[r].pc = "fill" /\ request'[r].guard = Guard
      /\ request'[r].at = request[r].at /\ request'[r].proc = request[r].proc
  BY DEF TypeOK
<1>5. Past'
  BY <1>1 DEF Past
<1>6. request[r].proc \in Process
  BY DEF Known, At, ProcOf
<1>7. Known'
  <2>1. \A q \in Request : request'[q].guard <= Guard /\ request'[q].at <= clock
    <3> TAKE q \in Request
    <3>1. CASE q = r
      BY <1>4, <3>1, Numbers DEF Known
    <3>2. CASE q # r
      BY <1>3, <3>2 DEF Known
    <3> QED BY <3>1, <3>2
  <2>2. \A q \in Request : request'[q].pc # "idle" => request'[q].proc \in Process
    BY <1>3, <1>4, <1>6 DEF Known, At, ProcOf
  <2> QED BY <1>1, <2>1, <2>2 DEF Known, At, ProcOf
<1>8. FreshFrom'
  <2>1. \A q \in Request : request'[q].pc = "fill" =>
            (request'[q].guard < Guard => request'[q].at <= born[request'[q].guard + 1])
    <3> TAKE q \in Request
    <3>1. CASE q = r
      BY <1>4, <3>1, Numbers
    <3>2. CASE q # r
      BY <1>3, <3>2 DEF FreshFrom, NotReplacedBefore, At
    <3> QED BY <3>1, <3>2
  <2> QED BY <1>1, <2>1 DEF FreshFrom, NotReplacedBefore, At
<1>9. LateOnly'
  <2>1. applied[request[r].proc] <= Guard /\ applied[request[r].proc] \in Nat /\ Guard \in Nat
    BY <1>6, Numbers DEF Known
  <2>2. \A q \in Request : (request'[q].pc = "fill" /\ request'[q].guard < applied[request'[q].proc])
            => request'[q].late
    <3> TAKE q \in Request
    <3>1. CASE q = r
      BY <1>4, <2>1, <3>1
    <3>2. CASE q # r
      BY <1>3, <3>2 DEF LateOnly, At, ProcOf
    <3> QED BY <3>1, <3>2
  <2> QED BY <2>2 DEF LateOnly, At, ProcOf
<1> QED BY <1>2, <1>5, <1>7, <1>8, <1>9

\* The entry takes over what was known of the load.
LEMMA LoadFillInv ==
  ASSUME IInv, NEW r \in Request, LoadFill(r)
  PROVE  IInv'
<1> USE DEF IInv, LoadFill
<1> DEFINE p == request[r].proc
<1>1. p \in Process /\ Guard' = Guard
  BY DEF Known, At, ProcOf, Guard
<1>2. /\ request[r].guard \in Version /\ request[r].late \in BOOLEAN
      /\ request[r].at + TTL \in 0..(MaxTime + TTL)
  BY Bounds DEF TypeOK
<1>3. TypeOK'
  BY <1>2, Bounds DEF TypeOK, CacheEntry, Idle, PC, ProcOf
<1>4. \A q \in Request : request'[q] = request[q] \/ request'[q] = Idle
  BY DEF TypeOK
<1>5. \A q \in Process : \/ cache'[q] = cache[q]
                          \/ /\ q = p /\ cache'[q].guard = request[r].guard
                             /\ cache'[q].expiresAt = request[r].at + TTL
                             /\ cache'[q].late = request[r].late
  BY DEF TypeOK, ProcOf
<1>6. Past'
  BY <1>1 DEF Past
<1>7. Known'
  <2>1. \A q \in Process : applied[q] <= Guard /\ cache'[q].guard <= Guard
                            /\ cache'[q].expiresAt <= clock + TTL
    BY <1>5, Numbers, Bounds DEF Known
  <2>2. \A q \in Request : request'[q].guard <= Guard /\ request'[q].at <= clock
    BY <1>4, Numbers DEF Known, Idle
  <2>3. \A q \in Request : request'[q].pc # "idle" => request'[q].proc \in Process
    BY <1>4 DEF Known, Idle, At, ProcOf
  <2> QED BY <1>1, <2>1, <2>2, <2>3 DEF Known, At, ProcOf
<1>8. \A q \in Request : At(q, "fill")' => request'[q] = request[q]
  BY <1>4 DEF At, Idle
<1>9. FreshFrom'
  <2>1. \A q \in Process : cache'[q].guard < Guard =>
            cache'[q].expiresAt <= born[cache'[q].guard + 1] + TTL
    <3> TAKE q \in Process
    <3>1. CASE cache'[q] = cache[q]
      BY <3>1 DEF FreshFrom
    <3>2. CASE cache'[q].guard = request[r].guard /\ cache'[q].expiresAt = request[r].at + TTL
      <4>1. request[r].guard < Guard => request[r].at <= born[request[r].guard + 1]
                                        /\ born[request[r].guard + 1] \in Nat
        BY Numbers DEF FreshFrom, NotReplacedBefore
      <4> QED BY <3>2, <4>1, Numbers, Bounds
    <3> QED BY <1>5, <3>1, <3>2
  <2> QED BY <1>1, <1>8, <2>1 DEF FreshFrom, NotReplacedBefore, At
<1>10. LateOnly'
  BY <1>5, <1>8 DEF LateOnly, At, ProcOf
<1> QED BY <1>3, <1>6, <1>7, <1>9, <1>10

\* The entry goes, and whoever is about to set an older one is late.
LEMMA InvalidateInv ==
  ASSUME IInv, NEW r \in Request, Invalidate(r)
  PROVE  IInv'
<1> USE DEF IInv, Invalidate
<1> DEFINE p == request[r].proc
<1>1. p \in Process /\ Guard' = Guard
  BY DEF Known, At, ProcOf, Guard
<1>2. \A q \in Process : cache'[q] = cache[q] \/ cache'[q] = NoEntry
  BY DEF TypeOK
<1>3. cache'[p] = NoEntry
  BY <1>1 DEF TypeOK, ProcOf
<1>4. \A q \in Process :
         /\ \/ applied'[q] = applied[q]
            \/ q = p /\ applied'[q] = request[r].guard
         /\ applied'[q] \in Version
         /\ applied'[q] <= Guard
  BY DEF TypeOK, ProcOf, Known
<1>5. \A q \in Request :
         \/ request'[q] = Idle
         \/ /\ request'[q].pc = request[q].pc /\ request'[q].proc = request[q].proc
            /\ request'[q].at = request[q].at /\ request'[q].guard = request[q].guard
            /\ request'[q].late = (request[q].late \/ (At(q, "fill") /\ request[q].proc = p))
  BY DEF TypeOK, ProcOf
<1>6. TypeOK'
  <2>1. \A q \in Request : request'[q] \in
           [pc: PC, proc: Process \cup {None}, at: Time, guard: Version, late: BOOLEAN]
    BY Bounds DEF TypeOK, Idle, PC
  <2>2. request' \in [Request -> [pc: PC, proc: Process \cup {None}, at: Time,
                                  guard: Version, late: BOOLEAN]]
    BY <2>1
  <2>3. cache' \in [Process -> CacheEntry]
    BY Bounds DEF TypeOK, NoEntry, CacheEntry
  <2>4. applied' \in [Process -> Version]
    BY <1>4 DEF TypeOK
  <2> QED BY <2>2, <2>3, <2>4 DEF TypeOK
<1>7. Past'
  BY <1>1 DEF Past
<1>8. Known'
  <2>1. \A q \in Process : cache'[q].guard <= Guard /\ cache'[q].expiresAt <= clock + TTL
    BY <1>2, Numbers, Bounds DEF Known, NoEntry
  <2>2. \A q \in Request : request'[q].guard <= Guard /\ request'[q].at <= clock
    BY <1>5, Numbers DEF Known, Idle
  <2>3. \A q \in Request : request'[q].pc # "idle" => request'[q].proc \in Process
    BY <1>5 DEF Known, Idle, At, ProcOf
  <2> QED BY <1>1, <1>4, <2>1, <2>2, <2>3 DEF Known, At, ProcOf
<1>9. FreshFrom'
  <2>1. \A q \in Process : cache'[q].guard < Guard =>
            cache'[q].expiresAt <= born[cache'[q].guard + 1] + TTL
    <3> TAKE q \in Process
    <3>1. CASE cache'[q] = cache[q]
      BY <3>1 DEF FreshFrom
    <3>2. CASE cache'[q] = NoEntry
      <4>1. Guard > 0 => born[1] \in Nat
        BY Numbers
      <4> QED BY <3>2, <4>1, Bounds DEF NoEntry
    <3> QED BY <1>2, <3>1, <3>2
  <2>2. \A q \in Request : request'[q].pc = "fill" => request[q].pc = "fill"
            /\ request'[q].guard = request[q].guard /\ request'[q].at = request[q].at
    BY <1>5 DEF Idle
  <2> QED BY <1>1, <2>1, <2>2 DEF FreshFrom, NotReplacedBefore, At
<1>10. LateOnly'
  <2>1. \A q \in Process : (cache'[q].expiresAt > 0 /\ cache'[q].guard < applied'[q]) => cache'[q].late
    BY <1>2, <1>3, <1>4 DEF LateOnly, NoEntry
  <2>2. \A q \in Request : (request'[q].pc = "fill" /\ request'[q].guard < applied'[request'[q].proc])
            => request'[q].late
    <3> SUFFICES ASSUME NEW q \in Request, request'[q].pc = "fill",
                        request'[q].guard < applied'[request'[q].proc]
                 PROVE  request'[q].late
      OBVIOUS
    <3>1. /\ request[q].pc = "fill" /\ request'[q].proc = request[q].proc
          /\ request'[q].guard = request[q].guard /\ request[q].proc \in Process
          /\ request'[q].late = (request[q].late \/ (At(q, "fill") /\ request[q].proc = p))
      BY <1>5 DEF Known, At, ProcOf, Idle
    <3>2. CASE request[q].proc = p
      BY <3>1, <3>2 DEF At
    <3>3. CASE request[q].proc # p
      <4>1. request[q].guard < applied[request[q].proc]
        BY <1>4, <3>1, <3>3
      <4>2. request[q].late
        BY <3>1, <4>1 DEF LateOnly, At, ProcOf
      <4> QED BY <3>1, <4>2
    <3> QED BY <3>2, <3>3
  <2> QED BY <2>1, <2>2 DEF LateOnly, At, ProcOf
<1> QED BY <1>6, <1>7, <1>8, <1>9, <1>10

\* Time only moves away from what was read and written.
LEMMA TickInv ==
  ASSUME IInv, Tick
  PROVE  IInv'
<1> USE DEF IInv, Tick
<1>1. Guard' = Guard /\ clock' = clock + 1 /\ clock' \in Time
  BY Bounds DEF Guard, TypeOK, Time
<1>2. TypeOK'
  BY <1>1 DEF TypeOK
<1>3. Past'
  BY <1>1, Numbers DEF Past
<1>4. Known'
  BY <1>1, Numbers, Bounds DEF Known, At, ProcOf
<1>5. FreshFrom' /\ LateOnly'
  BY <1>1 DEF FreshFrom, LateOnly, NotReplacedBefore, At, ProcOf
<1> QED BY <1>2, <1>3, <1>4, <1>5

-----------------------------------------------------------------------------
\* Every step keeps the invariant.
THEOREM GuardInvariance == Spec => []IInv
<1>1. IInv /\ [Next]_vars => IInv'
  <2> SUFFICES ASSUME IInv, [Next]_vars PROVE IInv'
    OBVIOUS
  <2>1. ASSUME NEW r \in Request, NEW p \in Process,
               Load(r, p) \/ Rotate(r, p) \/ Allow(r, p) \/ Update(r, p)
        PROVE  IInv'
    <3>1. CASE Load(r, p) \/ Update(r, p) \/ (Allow(r, p) /\ ~RowExists)
      BY <3>1, QuietInv
    <3>2. CASE Rotate(r, p) \/ (Allow(r, p) /\ RowExists)
      BY <3>2, WriteKeeps DEF Rotate, Allow
    <3> QED BY <2>1, <3>1, <3>2
  <2>2. ASSUME NEW r \in Request, Step(r) PROVE IInv'
    <3>1. CASE Abort(r)
      <4>1. ProcOf(r) \in Process
        BY <3>1 DEF Abort, IInv, Known
      <4> QED BY <3>1, <4>1, QuietInv
    <3> QED BY <2>2, <3>1, LoadSelectInv, LoadFillInv, InvalidateInv DEF Step
  <2>3. CASE Create
    BY <2>3, WriteKeeps DEF Create
  <2>4. ASSUME NEW p \in Process, Restart(p) PROVE IInv'
    BY <2>4, RestartInv
  <2>5. CASE Tick
    BY <2>5, TickInv
  <2>6. CASE UNCHANGED vars
    BY <2>6 DEF vars, IInv, TypeOK, Past, Known, FreshFrom, LateOnly, NotReplacedBefore, Guard, At, ProcOf
  <2> QED BY <2>1, <2>2, <2>3, <2>4, <2>5, <2>6 DEF Next
<1> QED BY InitInv, <1>1, PTL DEF Spec

\* The clock, the row, the caches and the requests have their types.
THEOREM GuardTypeCorrect == Spec => []TypeOK
<1>1. IInv => TypeOK
  BY DEF IInv
<1> QED BY <1>1, GuardInvariance, PTL

\* No process answers from a guard that was replaced a TTL ago or longer, whatever
\* the lifetime of an entry and the number of processes (webhookAllowlist.ts 11-12).
THEOREM NeverStaleForTTL == Spec => []StaleForLessThanTTL
<1>1. IInv => StaleForLessThanTTL
  <2> SUFFICES ASSUME IInv, NEW p \in Process, Live(p), cache[p].guard < Guard
               PROVE  clock < born[cache[p].guard + 1] + TTL
    BY DEF StaleForLessThanTTL
  <2>1. cache[p].expiresAt <= born[cache[p].guard + 1] + TTL
    BY DEF IInv, FreshFrom
  <2>2. born[cache[p].guard + 1] \in Nat /\ clock \in Nat /\ cache[p].expiresAt \in Nat
    BY Numbers DEF IInv
  <2> QED BY <2>1, <2>2, Bounds DEF Live
<1> QED BY <1>1, GuardInvariance, PTL

\* A change applied in a process is answered from at once, but for entries of loads
\* that had read the row before (webhookAllowlist.ts 10-11).
THEOREM AppliedAtOnce == Spec => []AppliedHereAtOnce
<1>1. IInv => AppliedHereAtOnce
  <2> SUFFICES ASSUME IInv, NEW p \in Process, Live(p), cache[p].guard < applied[p]
               PROVE  cache[p].late
    BY DEF AppliedHereAtOnce
  <2>1. cache[p].expiresAt > 0
    BY Numbers DEF IInv, Live
  <2> QED BY <2>1 DEF IInv, LateOnly
<1> QED BY <1>1, GuardInvariance, PTL
=============================================================================

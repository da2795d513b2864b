------------------------------- MODULE Intake -------------------------------
(***************************************************************************)
(* How an event becomes a job: the webhook, workflow-extension and API     *)
(* routes claim the event's idempotency key in Postgres, add a job with a  *)
(* deterministic id to the queue, and release the claim if adding fails.   *)
(* Requests run concurrently, in several API processes; the sender repeats *)
(* a delivery it has no 200 for.  A request that reaches this module has   *)
(* passed signature, token, allow-list and payload checks.                 *)
(***************************************************************************)
EXTENDS Naturals, FiniteSets

CONSTANTS
  Handler,        \* requests in flight at one time
  Event,          \* what idempotencyKeyFor tells apart: hub, deal and body
  Source,         \* routes, the prefix of the job id
  None,           \* "no value"
  FaultKinds,     \* which faults happen, of {"claim", "add", "release", "crash"}
  MaxDeliveries,  \* bound: deliveries of one event
  MaxFaults       \* bound: faults

ASSUME IntakeAssumption ==
  /\ FaultKinds \subseteq {"claim", "add", "release", "crash"}
  /\ {MaxDeliveries, MaxFaults} \subseteq Nat

VARIABLES
  handler,     \* [Handler -> what the request is doing]
  keys,        \* events with a row in idempotency_keys
  queue,       \* [job id -> state of that job in the queue]
  made,        \* ghost: jobs the queue accepted as new, per event
  answers,     \* answers the sender has got, per event
  deliveries,  \* deliveries so far, per event
  faults,      \* faults so far
  reopened,    \* ghost: events whose key went away after a job was made
  stranded     \* ghost: events a fault or a race may have cost their job

vars == <<handler, keys, queue, made, answers, deliveries, faults, reopened, stranded>>

\* jobIdFor: the same key under another route's prefix is another job id.
JobId == Source \X Event
JobIdFor(s, e) == <<s, e>>

PC == {"idle", "claim", "add", "release"}
Answer == {"queued", "duplicate", "error"}
Idle == [pc |-> "idle", source |-> None, event |-> None]

TypeOK ==
  /\ handler \in [Handler -> [pc: PC, source: Source \cup {None}, event: Event \cup {None}]]
  /\ keys \subseteq Event
  /\ queue \in [JobId -> {"none", "live", "finished"}]
  /\ made \in [Event -> Nat]
  /\ answers \in [Event -> SUBSET Answer]
  /\ deliveries \in [Event -> 0..MaxDeliveries]
  /\ faults \in 0..MaxFaults
  /\ reopened \subseteq Event /\ stranded \subseteq Event

Init ==
  /\ handler = [h \in Handler |-> Idle]
  /\ keys = {}
  /\ queue = [i \in JobId |-> "none"]
  /\ made = [e \in Event |-> 0]
  /\ answers = [e \in Event |-> {}]
  /\ deliveries = [e \in Event |-> 0]
  /\ faults = 0 /\ reopened = {} /\ stranded = {}

-----------------------------------------------------------------------------
EventOf(h) == handler[h].event
At(h, pc) == handler[h].pc = pc

\* The claim on e is somebody's to turn into a job or to release.
Owned(e) == \E h \in Handler : handler[h].pc \in {"add", "release"} /\ handler[h].event = e

\* The sender has a 200.
Answered(e) == answers[e] \cap {"queued", "duplicate"} # {}

GoOn(h, pc) == handler' = [handler EXCEPT ![h].pc = pc] /\ UNCHANGED answers

Reply(h, answer) ==
  /\ handler' = [handler EXCEPT ![h] = Idle]
  /\ answers' = [answers EXCEPT ![EventOf(h)] = @ \cup {answer}]

Fault(kind) == kind \in FaultKinds /\ faults < MaxFaults /\ faults' = faults + 1

\* The claim of h's event is left in the table with nobody to use it.
Strand(h) == stranded' = IF made[EventOf(h)] = 0 THEN stranded \cup {EventOf(h)} ELSE stranded

-----------------------------------------------------------------------------
\* The request handler

Deliver(h, s, e) ==
  /\ At(h, "idle")
  /\ deliveries[e] < MaxDeliveries
  /\ deliveries' = [deliveries EXCEPT ![e] = @ + 1]
  /\ handler' = [handler EXCEPT ![h] = [pc |-> "claim", source |-> s, event |-> e]]
  /\ UNCHANGED <<keys, queue, made, answers, faults, reopened, stranded>>

\* Mutants: the key and the job id of the claim are swapped; the claim's answer
\* is not looked at.
ClaimSwapped(h) ==
  /\ At(h, "claim")
  /\ GoOn(h, "add") /\ keys' = keys \cup {JobIdFor(handler[h].source, EventOf(h))}
  /\ UNCHANGED <<queue, made, deliveries, faults, reopened, stranded>>
ClaimUnheeded(h) ==
  /\ At(h, "claim")
  /\ GoOn(h, "add") /\ keys' = keys \cup {EventOf(h)}
  /\ UNCHANGED <<queue, made, deliveries, faults, reopened, stranded>>

\* INSERT ... ON CONFLICT DO NOTHING: the first one gets on.
Claim(h) ==
  /\ At(h, "claim")
  /\ IF EventOf(h) \in keys
     THEN Reply(h, "duplicate") /\ UNCHANGED keys
     ELSE GoOn(h, "add") /\ keys' = keys \cup {EventOf(h)}
  /\ UNCHANGED <<queue, made, deliveries, faults, reopened, stranded>>

\* Mutant: the claim is inside the try block.
ClaimFailsReleasing(h) ==
  /\ At(h, "claim")
  /\ Fault("claim")
  /\ GoOn(h, "release")
  /\ keys' \in {keys, keys \cup {EventOf(h)}}
  /\ UNCHANGED <<queue, made, deliveries, reopened, stranded>>

\* The insert fails, or its reply is lost after it was committed.  It is outside
\* the try block: nothing is released.
ClaimFails(h) ==
  /\ At(h, "claim")
  /\ Fault("claim")
  /\ Reply(h, "error")
  /\ \/ UNCHANGED <<keys, stranded>>
     \/ /\ EventOf(h) \notin keys
        /\ keys' = keys \cup {EventOf(h)} /\ Strand(h)
  /\ UNCHANGED <<queue, made, deliveries, reopened>>

\* Queue.add: a job id the queue still holds, in whatever state, is left alone.
Added(h) ==
  LET i == JobIdFor(handler[h].source, EventOf(h)) IN
  IF queue[i] = "none"
  THEN /\ queue' = [queue EXCEPT ![i] = "live"]
       /\ made' = [made EXCEPT ![EventOf(h)] = @ + 1]
  ELSE UNCHANGED <<queue, made>>

Add(h) ==
  /\ At(h, "add")
  /\ Added(h)
  /\ Reply(h, "queued")
  /\ UNCHANGED <<keys, deliveries, faults, reopened, stranded>>

\* Mutant: a failed enqueue is not caught, the claim stays.
AddFailsUncaught(h) ==
  /\ At(h, "add")
  /\ Fault("add")
  /\ Added(h) \/ UNCHANGED <<queue, made>>
  /\ Reply(h, "error")
  /\ UNCHANGED <<keys, deliveries, reopened, stranded>>

\* Redis fails the add, before or after it took effect.
AddFails(h) ==
  /\ At(h, "add")
  /\ Fault("add")
  /\ Added(h) \/ UNCHANGED <<queue, made>>
  /\ GoOn(h, "release")
  /\ UNCHANGED <<keys, deliveries, reopened, stranded>>

\* DELETE by key.  Whoever was told "duplicate" meanwhile was told so of a claim
\* that comes to nothing.
Release(h) ==
  LET e == EventOf(h) IN
  /\ At(h, "release")
  /\ keys' = keys \ {e}
  /\ reopened' = IF made[e] > 0 THEN reopened \cup {e} ELSE reopened
  /\ stranded' = IF made[e] = 0 /\ Answered(e) THEN stranded \cup {e} ELSE stranded
  /\ Reply(h, "error")
  /\ UNCHANGED <<queue, made, deliveries, faults>>

\* .catch(() => undefined): the failure of the release is dropped.
ReleaseFails(h) ==
  /\ At(h, "release")
  /\ Fault("release")
  /\ Strand(h)
  /\ Reply(h, "error")
  /\ UNCHANGED <<keys, queue, made, deliveries, reopened>>

\* The API process dies under the request.
Crash(h) ==
  /\ ~At(h, "idle")
  /\ Fault("crash")
  /\ handler' = [handler EXCEPT ![h] = Idle]
  /\ IF At(h, "claim") THEN UNCHANGED stranded ELSE Strand(h)
  /\ UNCHANGED <<keys, queue, made, answers, deliveries, reopened>>

-----------------------------------------------------------------------------
\* The rest of the system, as far as it touches keys and jobs

\* A worker finishes the job, or dead-letters it.
Finish(i) ==
  /\ queue[i] = "live"
  /\ queue' = [queue EXCEPT ![i] = "finished"]
  /\ UNCHANGED <<handler, keys, made, answers, deliveries, faults, reopened, stranded>>

\* removeOnComplete, removeOnFail, and POST /jobs/:jobId/discard.
Drop(i) ==
  /\ queue[i] = "finished"
  /\ queue' = [queue EXCEPT ![i] = "none"]
  /\ UNCHANGED <<handler, keys, made, answers, deliveries, faults, reopened, stranded>>

\* Daily maintenance: rows older than seven days, older than any request.
Purge(e) ==
  /\ e \in keys /\ ~Owned(e)
  /\ keys' = keys \ {e}
  /\ reopened' = IF made[e] > 0 THEN reopened \cup {e} ELSE reopened
  /\ UNCHANGED <<handler, queue, made, answers, deliveries, faults, stranded>>

-----------------------------------------------------------------------------
Go(h) == Claim(h) \/ Add(h) \/ Release(h)
Fail(h) == ClaimFails(h) \/ AddFails(h) \/ ReleaseFails(h) \/ Crash(h)

Next ==
  \/ \E h \in Handler : \/ \E s \in Source, e \in Event : Deliver(h, s, e)
                        \/ Go(h) \/ Fail(h)
  \/ \E i \in JobId : Finish(i) \/ Drop(i)
  \/ \E e \in Event : Purge(e)

\* The sender repeats what it has no 200 for.
Retry(e) ==
  ~Answered(e) /\ deliveries[e] > 0 /\ \E h \in Handler, s \in Source : Deliver(h, s, e)

\* Node runs every request on to its answer; the sender keeps retrying.
Fairness == /\ \A h \in Handler : WF_vars(Go(h) \/ Fail(h))
            /\ \A e \in Event : WF_vars(Retry(e))

Spec == Init /\ [][Next]_vars /\ Fairness

-----------------------------------------------------------------------------
\* Properties

\* An event makes one job, over all routes, repeats and races, as long as its key
\* is kept: a second one needs a key that was purged, or released after an add
\* that failed but took effect (idempotency.ts 13-49).
OneJobPerKey == \A e \in Event : made[e] > 1 => e \in reopened

\* An event is dropped for a reason.  If the sender has a 200 and nobody holds the
\* claim, there is a job - or the claim was left behind by a crash, a lost insert
\* reply or a failed release, or a repeat was answered "duplicate" while the first
\* delivery was still to fail (webhook.ts 257-288).
LossHasACause ==
  \A e \in Event : (Answered(e) /\ ~Owned(e) /\ made[e] = 0) => e \in stranded

\* A claim belongs to one request at a time, and is in the table while it does: no
\* request releases or uses the claim of another.
OneOwner ==
  \A h1, h2 \in Handler :
    (handler[h1].pc \in {"add", "release"} /\ handler[h2].pc \in {"add", "release"}
       /\ handler[h1].event = handler[h2].event) => h1 = h2 /\ handler[h1].event \in keys

\* A sender that keeps retrying gets its event queued, whatever fails, unless the
\* claim was stranded.
RetriesGetThrough ==
  \A e \in Event : deliveries[e] > 0 ~> (made[e] > 0 \/ e \in stranded)

\* "Enqueue failed (Redis down): release the claim so HubSpot's retry is processed
\* instead of being answered as a duplicate forever" (webhook.ts 284-285): no event
\* has a 200 and no job once its requests are over.  A repeat that arrives while
\* the first delivery is still waiting for Redis is answered 200 at once.
NoEventIsLost ==
  \A e \in Event : (Answered(e) /\ \A h \in Handler : handler[h].event # e) => made[e] > 0
=============================================================================

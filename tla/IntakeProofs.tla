---------------------------- MODULE IntakeProofs ----------------------------
(***************************************************************************)
(* The safety invariants of Intake, for any number of requests, events and *)
(* routes.  None of them is inductive alone: what the table of keys says   *)
(* depends on which requests hold a claim, and what a request may add      *)
(* depends on which jobs were made while it held none.                     *)
(***************************************************************************)
EXTENDS Intake, TLAPS

\* A request that is running has a route and an event.
Requests ==
  \A h \in Handler : handler[h].pc # "idle" =>
    handler[h].source \in Source /\ handler[h].event \in Event

\* A job the queue holds was counted.
Counted == \A s \in Source, e \in Event : queue[JobIdFor(s, e)] # "none" => made[e] > 0

\* Whoever is about to add a job for e is the first, or the key was reopened.
Adding ==
  \A h \in Handler : handler[h].pc = "add" =>
    made[handler[h].event] = 0 \/ handler[h].event \in reopened

\* A key that is not in the table any more was reopened.
Freed == \A e \in Event : e \notin keys => made[e] = 0 \/ e \in reopened

\* A key nobody uses and that made no job is stranded.
Kept == \A e \in Event : (e \in keys /\ made[e] = 0) => Owned(e) \/ e \in stranded

IInv == /\ TypeOK /\ Requests /\ OneOwner
        /\ Counted /\ Adding /\ Freed /\ Kept
        /\ OneJobPerKey /\ LossHasACause

-----------------------------------------------------------------------------
\* The invariant holds at the start: nothing is in flight and nothing was made.
LEMMA InitInv == Init => IInv
  BY IntakeAssumption
  DEF Init, IInv, TypeOK, Requests, OneOwner, Counted, Adding, Freed, Kept, OneJobPerKey,
      LossHasACause, Idle, PC, Answer, Answered, Owned, JobId, JobIdFor

\* A delivery only turns an idle request into one that has yet to claim.
LEMMA DeliverInv ==
  ASSUME IInv, NEW h \in Handler, NEW s \in Source, NEW e \in Event, Deliver(h, s, e)
  PROVE  IInv'
<1> USE DEF IInv, Deliver, At
<1>1. TypeOK'
  BY IntakeAssumption DEF TypeOK, PC
<1>2. \A g \in Handler : handler'[g] = IF g = h THEN [pc |-> "claim", source |-> s, event |-> e]
                                       ELSE handler[g]
  BY DEF TypeOK
<1>3. Requests' /\ OneOwner' /\ Adding'
  BY <1>2 DEF Requests, OneOwner, Adding
<1>4. \A f \in Event : Owned(f)' <=> Owned(f)
  BY <1>2 DEF Owned
<1>5. Kept' /\ LossHasACause'
  BY <1>4 DEF Kept, LossHasACause, Answered
<1>6. Counted' /\ Freed' /\ OneJobPerKey'
  BY DEF Counted, Freed, OneJobPerKey
<1> QED BY <1>1, <1>3, <1>5, <1>6

\* A claim goes to a request only if the key was free: nobody held it, and the
\* jobs of the event, if any, were made before the key was reopened.
LEMMA ClaimInv ==
  ASSUME IInv, NEW h \in Handler, Claim(h)
  PROVE  IInv'
<1> USE DEF IInv, Claim, At
<1> DEFINE e == EventOf(h)
<1>1. e \in Event /\ handler[h] \in [pc: PC, source: Source \cup {None}, event: Event \cup {None}]
  BY DEF Requests, TypeOK, EventOf
<1>2. CASE e \in keys
  <2>1. /\ handler' = [handler EXCEPT ![h] = Idle]
        /\ answers' = [answers EXCEPT ![e] = @ \cup {"duplicate"}]
        /\ keys' = keys
    BY <1>2 DEF Reply
  <2>2. TypeOK'
    BY <1>1, <2>1 DEF TypeOK, Idle, PC, Answer
  <2>3. \A g \in Handler : handler'[g] = IF g = h THEN Idle ELSE handler[g]
    BY <2>1 DEF TypeOK
  <2>4. Requests' /\ OneOwner' /\ Adding'
    BY <2>1, <2>3 DEF Requests, OneOwner, Adding, Idle
  <2>5. \A f \in Event : Owned(f)' <=> Owned(f)
    BY <2>3 DEF Owned, Idle
  <2>6. Kept' /\ Counted' /\ Freed' /\ OneJobPerKey'
    BY <2>1, <2>5 DEF Kept, Counted, Freed, OneJobPerKey
  <2>7. \A f \in Event : Answered(f)' => Answered(f) \/ f \in keys
    BY <1>1, <1>2, <2>1 DEF Answered, TypeOK
  <2>8. LossHasACause'
    BY <2>1, <2>5, <2>7 DEF LossHasACause, Kept, TypeOK
  <2> QED BY <2>2, <2>4, <2>6, <2>8
<1>3. CASE e \notin keys
  <2>1. /\ handler' = [handler EXCEPT ![h].pc = "add"]
        /\ answers' = answers /\ keys' = keys \cup {e}
    BY <1>3 DEF GoOn
  <2>2. TypeOK'
    BY <1>1, <2>1 DEF TypeOK, PC
  <2>3. \A g \in Handler : /\ handler'[g].pc = IF g = h THEN "add" ELSE handler[g].pc
                           /\ handler'[g].event = handler[g].event
                           /\ handler'[g].source = handler[g].source
    BY <2>1 DEF TypeOK
  <2>4. Requests' /\ Adding'
    BY <1>1, <1>3, <2>1, <2>3 DEF Requests, Adding, Freed, EventOf
  <2>5. OneOwner'
    BY <1>3, <2>1, <2>3 DEF OneOwner, EventOf
  <2>6. \A f \in Event : Owned(f)' <=> Owned(f) \/ f = e
    BY <2>3 DEF Owned, EventOf
  <2>7. Kept' /\ LossHasACause'
    BY <2>1, <2>6 DEF Kept, LossHasACause, Answered
  <2>8. Counted' /\ Freed' /\ OneJobPerKey'
    BY <2>1 DEF Counted, Freed, OneJobPerKey
  <2> QED BY <2>2, <2>4, <2>5, <2>7, <2>8
<1> QED BY <1>2, <1>3

\* A claim whose reply is lost stays in the table, stranded.
LEMMA ClaimFailsInv ==
  ASSUME IInv, NEW h \in Handler, ClaimFails(h)
  PROVE  IInv'
<1> USE DEF IInv, ClaimFails, At
<1> DEFINE e == EventOf(h)
<1>1. e \in Event
  BY DEF Requests, EventOf
<1>2. /\ handler' = [handler EXCEPT ![h] = Idle]
      /\ answers' = [answers EXCEPT ![e] = @ \cup {"error"}]
      /\ faults < MaxFaults /\ faults' = faults + 1
  BY DEF Reply, Fault
<1>3. /\ keys \subseteq keys' /\ keys' \subseteq keys \cup {e}
      /\ stranded \subseteq stranded' /\ stranded' \subseteq Event
      /\ (e \in keys' /\ e \notin keys /\ made[e] = 0) => e \in stranded'
  BY <1>1 DEF Strand, TypeOK
<1>4. TypeOK'
  <2>1. faults' \in 0..MaxFaults
    BY <1>2, IntakeAssumption DEF TypeOK
  <2>2. handler' \in [Handler -> [pc: PC, source: Source \cup {None}, event: Event \cup {None}]]
    BY <1>2 DEF TypeOK, Idle, PC
  <2>3. answers' \in [Event -> SUBSET Answer]
    BY <1>1, <1>2 DEF TypeOK, Answer
  <2> QED BY <1>1, <1>3, <2>1, <2>2, <2>3 DEF TypeOK
<1>5. \A g \in Handler : handler'[g] = IF g = h THEN Idle ELSE handler[g]
  BY <1>2 DEF TypeOK
<1>6. Requests' /\ OneOwner' /\ Adding'
  BY <1>3, <1>5 DEF Requests, OneOwner, Adding, Idle
<1>7. \A f \in Event : Owned(f)' <=> Owned(f)
  BY <1>5 DEF Owned, Idle
<1>8. \A f \in Event : Answered(f)' <=> Answered(f)
  BY <1>1, <1>2 DEF Answered, TypeOK
<1>9. Kept' /\ LossHasACause'
  BY <1>3, <1>7, <1>8 DEF Kept, LossHasACause
<1>10. Counted' /\ Freed' /\ OneJobPerKey'
  BY <1>3 DEF Counted, Freed, OneJobPerKey
<1> QED BY <1>4, <1>6, <1>9, <1>10

\* What Queue.add does, for whoever holds the claim: the event has a job
\* afterwards, and it is its first unless the key was reopened.
LEMMA AddedFacts ==
  ASSUME IInv, NEW h \in Handler, At(h, "add"), Added(h)
  PROVE  /\ queue' \in [JobId -> {"none", "live", "finished"}] /\ made' \in [Event -> Nat]
         /\ Counted'
         /\ made'[EventOf(h)] > 0
         /\ \A f \in Event : f # EventOf(h) => made'[f] = made[f]
         /\ made'[EventOf(h)] > 1 => EventOf(h) \in reopened
<1> USE DEF IInv, At
<1> DEFINE e == EventOf(h)
           i == JobIdFor(handler[h].source, e)
<1>1. e \in Event /\ handler[h].source \in Source /\ i \in JobId /\ made[e] \in Nat
  BY DEF Requests, EventOf, JobId, JobIdFor, TypeOK
<1>2. made[e] = 0 \/ e \in reopened
  BY DEF Adding, EventOf
<1>3. CASE queue[i] = "none"
  <2>1. /\ queue' = [queue EXCEPT ![i] = "live"]
        /\ made' = [made EXCEPT ![e] = @ + 1]
    BY <1>3 DEF Added
  <2>2. made[e] + 1 \in Nat /\ made[e] + 1 > 0
    BY <1>1
  <2>3. made' \in [Event -> Nat] /\ made'[e] = made[e] + 1
    BY <1>1, <2>1, <2>2 DEF TypeOK
  <2>4. \A f \in Event : f # e => made'[f] = made[f]
    BY <2>1 DEF TypeOK
  <2>5. \A f \in Event : made[f] > 0 => made'[f] > 0
    BY <1>1, <2>2, <2>3, <2>4
  <2>6. Counted'
    <3> SUFFICES ASSUME NEW s \in Source, NEW f \in Event, queue'[JobIdFor(s, f)] # "none"
                 PROVE  made'[f] > 0
      BY DEF Counted
    <3>1. CASE f = e
      BY <3>1, <2>2, <2>3
    <3>2. CASE f # e
      <4>1. JobIdFor(s, f) # i /\ JobIdFor(s, f) \in JobId
        BY <3>2 DEF JobIdFor, JobId
      <4>2. queue'[JobIdFor(s, f)] = queue[JobIdFor(s, f)]
        BY <2>1, <4>1 DEF TypeOK
      <4> QED BY <2>5, <4>2 DEF Counted
    <3> QED BY <3>1, <3>2
  <2>7. queue' \in [JobId -> {"none", "live", "finished"}]
    BY <1>1, <2>1 DEF TypeOK
  <2> QED BY <1>1, <1>2, <2>2, <2>3, <2>4, <2>6, <2>7
<1>4. CASE queue[i] # "none"
  <2>1. queue' = queue /\ made' = made
    BY <1>4 DEF Added
  <2>2. made[e] > 0
    BY <1>1, <1>4 DEF Counted
  <2> QED BY <1>1, <1>2, <2>1, <2>2 DEF TypeOK, Counted
<1> QED BY <1>3, <1>4

\* The claim has become a job.
LEMMA AddInv ==
  ASSUME IInv, NEW h \in Handler, Add(h)
  PROVE  IInv'
<1> USE DEF IInv, At
<1> DEFINE e == EventOf(h)
<1>1. /\ At(h, "add") /\ Added(h) /\ e \in Event
      /\ handler' = [handler EXCEPT ![h] = Idle]
      /\ answers' = [answers EXCEPT ![e] = @ \cup {"queued"}]
      /\ UNCHANGED <<keys, deliveries, faults, reopened, stranded>>
  BY DEF Add, Reply, Requests, EventOf
<1>2. /\ queue' \in [JobId -> {"none", "live", "finished"}] /\ made' \in [Event -> Nat]
      /\ Counted' /\ made'[e] > 0
      /\ \A f \in Event : f # e => made'[f] = made[f]
      /\ made'[e] > 1 => e \in reopened
  BY <1>1, AddedFacts
<1>3. e \in keys /\ \A g \in Handler : handler[g].event = e /\ g # h =>
                                         handler[g].pc \notin {"add", "release"}
  BY <1>1 DEF OneOwner, EventOf
<1>4. \A g \in Handler : handler'[g] = IF g = h THEN Idle ELSE handler[g]
  BY <1>1 DEF TypeOK
<1>5. TypeOK'
  BY <1>1, <1>2 DEF TypeOK, Idle, PC, Answer
<1>6. Requests' /\ OneOwner'
  BY <1>1, <1>4 DEF Requests, OneOwner, Idle
<1>7. Adding'
  BY <1>1, <1>2, <1>3, <1>4 DEF Adding, Requests, Idle
<1>8. \A f \in Event : f # e => (Owned(f)' <=> Owned(f))
  BY <1>1, <1>4 DEF Owned, Idle, EventOf
<1>9. \A f \in Event : f # e => (Answered(f)' <=> Answered(f))
  BY <1>1 DEF Answered, TypeOK
<1>10. made'[e] # 0
  BY <1>1, <1>2
<1>11. Kept' /\ LossHasACause'
  BY <1>1, <1>2, <1>8, <1>9, <1>10 DEF Kept, LossHasACause
<1>12. Freed' /\ OneJobPerKey'
  BY <1>1, <1>2, <1>3 DEF Freed, OneJobPerKey
<1> QED BY <1>2, <1>5, <1>6, <1>7, <1>11, <1>12

\* The add failed, with or without effect: the request still holds the claim.
LEMMA AddFailsInv ==
  ASSUME IInv, NEW h \in Handler, AddFails(h)
  PROVE  IInv'
<1> USE DEF IInv, At
<1> DEFINE e == EventOf(h)
<1>1. /\ At(h, "add") /\ e \in Event
      /\ Added(h) \/ UNCHANGED <<queue, made>>
      /\ handler' = [handler EXCEPT ![h].pc = "release"]
      /\ UNCHANGED <<answers, keys, deliveries, reopened, stranded>>
      /\ faults' \in 0..MaxFaults
  <2>1. faults < MaxFaults /\ faults' = faults + 1
    BY DEF AddFails, Fault
  <2>2. faults' \in 0..MaxFaults
    BY <2>1, IntakeAssumption DEF TypeOK
  <2> QED BY <2>2 DEF AddFails, GoOn, Requests, EventOf
<1>2. /\ queue' \in [JobId -> {"none", "live", "finished"}] /\ made' \in [Event -> Nat]
      /\ Counted'
      /\ \A f \in Event : f # e => made'[f] = made[f]
      /\ made'[e] = 0 => made[e] = 0
      /\ made'[e] > 1 => e \in reopened
  <2>1. CASE Added(h)
    BY <1>1, <2>1, AddedFacts
  <2>2. CASE UNCHANGED <<queue, made>>
    BY <1>1, <2>2 DEF TypeOK, Counted, OneJobPerKey
  <2> QED BY <1>1, <2>1, <2>2
<1>3. e \in keys /\ \A g \in Handler : handler[g].event = e /\ g # h =>
                                         handler[g].pc \notin {"add", "release"}
  BY <1>1 DEF OneOwner, EventOf
<1>4. \A g \in Handler : /\ handler'[g].pc = IF g = h THEN "release" ELSE handler[g].pc
                         /\ handler'[g].event = handler[g].event
                         /\ handler'[g].source = handler[g].source
  BY <1>1 DEF TypeOK
<1>5. TypeOK'
  BY <1>1, <1>2 DEF TypeOK, PC
<1>6. Requests' /\ OneOwner'
  BY <1>1, <1>4 DEF Requests, OneOwner, EventOf
<1>7. Adding'
  BY <1>1, <1>2, <1>3, <1>4 DEF Adding, Requests
<1>8. \A f \in Event : Owned(f)' <=> Owned(f)
  BY <1>1, <1>4 DEF Owned
<1>9. Kept' /\ LossHasACause'
  BY <1>1, <1>2, <1>8 DEF Kept, LossHasACause, Answered
<1>10. Freed' /\ OneJobPerKey'
  BY <1>1, <1>2, <1>3 DEF Freed, OneJobPerKey
<1> QED BY <1>2, <1>5, <1>6, <1>7, <1>9, <1>10

\* A release deletes the request's own claim, and marks what that may cost.
LEMMA ReleaseInv ==
  ASSUME IInv, NEW h \in Handler, Release(h)
  PROVE  IInv'
<1> USE DEF IInv, At
<1> DEFINE e == EventOf(h)
<1>1. /\ At(h, "release") /\ e \in Event
      /\ keys' = keys \ {e}
      /\ reopened' = IF made[e] > 0 THEN reopened \cup {e} ELSE reopened
      /\ stranded' = IF made[e] = 0 /\ Answered(e) THEN stranded \cup {e} ELSE stranded
      /\ handler' = [handler EXCEPT ![h] = Idle]
      /\ answers' = [answers EXCEPT ![e] = @ \cup {"error"}]
      /\ UNCHANGED <<queue, made, deliveries, faults>>
  BY DEF Release, Reply, Requests, EventOf
<1> HIDE DEF e
<1>2. TypeOK'
  BY <1>1 DEF TypeOK, Idle, PC, Answer
<1>3. \A g \in Handler : handler'[g] = IF g = h THEN Idle ELSE handler[g]
  BY <1>1 DEF TypeOK
<1>4. \A g \in Handler : g # h /\ handler[g].event = e => handler[g].pc \notin {"add", "release"}
  BY <1>1 DEF OneOwner, EventOf, e
<1>5. Requests' /\ OneOwner'
  BY <1>1, <1>3, <1>4 DEF Requests, OneOwner, Idle
<1>6. Adding'
  BY <1>1, <1>3 DEF Adding, Idle
<1>7. \A f \in Event : f # e => (Owned(f)' <=> Owned(f))
  BY <1>1, <1>3 DEF Owned, Idle, EventOf, e
<1>8. \A f \in Event : Answered(f)' <=> Answered(f)
  BY <1>1 DEF Answered, TypeOK
<1>9. Kept' /\ LossHasACause'
  BY <1>1, <1>7, <1>8 DEF Kept, LossHasACause
<1>10. made[e] = 0 \/ made[e] > 0
  BY <1>1 DEF TypeOK
<1>11. Freed' /\ Counted' /\ OneJobPerKey'
  BY <1>1, <1>10 DEF Freed, Counted, OneJobPerKey
<1> QED BY <1>2, <1>5, <1>6, <1>9, <1>11

\* A request that gives up its claim without deleting it, by a failed release or
\* because the process died: the claim is stranded if it made no job.
LEMMA AbandonInv ==
  ASSUME IInv, NEW h \in Handler, handler[h].pc \in {"add", "release"},
         handler' = [handler EXCEPT ![h] = Idle],
         answers' \in {answers, [answers EXCEPT ![EventOf(h)] = @ \cup {"error"}]},
         Strand(h), faults' = faults + 1, faults < MaxFaults,
         UNCHANGED <<keys, queue, made, deliveries, reopened>>
  PROVE  IInv'
<1> USE DEF IInv
<1> DEFINE e == EventOf(h)
<1>1. e \in Event
  BY DEF Requests, EventOf
<1>2. faults' \in 0..MaxFaults
  BY IntakeAssumption DEF TypeOK
<1>3. answers' \in [Event -> SUBSET Answer]
  BY <1>1 DEF TypeOK, Answer
<1>4. TypeOK'
  BY <1>1, <1>2, <1>3 DEF TypeOK, Idle, PC, Strand
<1>5. \A g \in Handler : handler'[g] = IF g = h THEN Idle ELSE handler[g]
  BY DEF TypeOK
<1>6. Requests' /\ OneOwner' /\ Adding'
  BY <1>5 DEF Requests, OneOwner, Adding, Idle
<1>7. \A f \in Event : /\ f # e => (Owned(f)' <=> Owned(f))
                       /\ Answered(f)' <=> Answered(f)
  BY <1>1, <1>5 DEF Owned, Answered, Idle, EventOf, TypeOK
<1>8. stranded \subseteq stranded' /\ (made[e] = 0 => e \in stranded')
  BY DEF Strand
<1>9. Kept' /\ LossHasACause'
  BY <1>1, <1>7, <1>8 DEF Kept, LossHasACause
<1>10. Counted' /\ Freed' /\ OneJobPerKey'
  BY DEF Counted, Freed, OneJobPerKey
<1> QED BY <1>4, <1>6, <1>9, <1>10

LEMMA ReleaseFailsInv ==
  ASSUME IInv, NEW h \in Handler, ReleaseFails(h)
  PROVE  IInv'
<1>1. /\ handler[h].pc = "release" /\ Strand(h)
      /\ handler' = [handler EXCEPT ![h] = Idle]
      /\ answers' = [answers EXCEPT ![EventOf(h)] = @ \cup {"error"}]
      /\ faults' = faults + 1 /\ faults < MaxFaults
      /\ UNCHANGED <<keys, queue, made, deliveries, reopened>>
  BY DEF ReleaseFails, At, Fault, Reply
<1> QED BY <1>1, AbandonInv

\* A request that dies before it claimed anything costs nothing.
LEMMA CrashInv ==
  ASSUME IInv, NEW h \in Handler, Crash(h)
  PROVE  IInv'
<1>1. /\ handler[h].pc # "idle" /\ handler' = [handler EXCEPT ![h] = Idle]
      /\ faults' = faults + 1 /\ faults < MaxFaults
      /\ UNCHANGED <<keys, queue, made, answers, deliveries, reopened>>
  BY DEF Crash, At, Fault
<1>2. CASE handler[h].pc # "claim"
  <2>1. handler[h].pc \in {"add", "release"} /\ Strand(h)
    BY <1>1, <1>2 DEF Crash, At, IInv, TypeOK, PC
  <2> QED BY <1>1, <2>1, AbandonInv
<1>3. CASE handler[h].pc = "claim"
  <2> USE DEF IInv
  <2>1. UNCHANGED stranded
    BY <1>3 DEF Crash, At
  <2>2. faults' \in 0..MaxFaults
    BY <1>1, IntakeAssumption DEF TypeOK
  <2>3. TypeOK'
    BY <1>1, <2>1, <2>2 DEF TypeOK, Idle, PC
  <2>4. \A g \in Handler : handler'[g] = IF g = h THEN Idle ELSE handler[g]
    BY <1>1 DEF TypeOK
  <2>5. Requests' /\ OneOwner' /\ Adding'
    BY <1>1, <2>4 DEF Requests, OneOwner, Adding, Idle
  <2>6. \A f \in Event : Owned(f)' <=> Owned(f)
    BY <1>3, <2>4 DEF Owned, Idle
  <2>7. Kept' /\ LossHasACause'
    BY <1>1, <2>1, <2>6 DEF Kept, LossHasACause, Answered
  <2>8. Counted' /\ Freed' /\ OneJobPerKey'
    BY <1>1 DEF Counted, Freed, OneJobPerKey
  <2> QED BY <2>3, <2>5, <2>7, <2>8
<1> QED BY <1>2, <1>3

\* The queue may finish and forget a job: what was made is still counted.
LEMMA QueueInv ==
  ASSUME IInv, NEW i \in JobId, Finish(i) \/ Drop(i)
  PROVE  IInv'
<1> USE DEF IInv
<1>1. PICK q \in {"none", "finished"} : queue' = [queue EXCEPT ![i] = q]
  BY DEF Finish, Drop
<1>2. /\ queue[i] # "none"
      /\ UNCHANGED <<handler, keys, made, answers, deliveries, faults, reopened, stranded>>
  BY DEF Finish, Drop
<1>3. TypeOK'
  BY <1>1, <1>2 DEF TypeOK
<1>4. Counted'
  <2> SUFFICES ASSUME NEW s \in Source, NEW f \in Event, queue'[JobIdFor(s, f)] # "none"
               PROVE  made[f] > 0
    BY <1>2 DEF Counted
  <2>1. JobIdFor(s, f) \in JobId
    BY DEF JobIdFor, JobId
  <2>2. queue[JobIdFor(s, f)] # "none"
    BY <1>1, <1>2, <2>1 DEF TypeOK
  <2> QED BY <2>2 DEF Counted
<1>5. Requests' /\ OneOwner' /\ Adding' /\ Freed' /\ OneJobPerKey'
  BY <1>2 DEF Requests, OneOwner, Adding, Freed, OneJobPerKey
<1>6. Kept' /\ LossHasACause'
  BY <1>2 DEF Kept, LossHasACause, Owned, Answered
<1> QED BY <1>3, <1>4, <1>5, <1>6

\* Maintenance deletes keys nobody holds.
LEMMA PurgeInv ==
  ASSUME IInv, NEW e \in Event, Purge(e)
  PROVE  IInv'
<1> USE DEF IInv, Purge
<1>1. TypeOK'
  BY DEF TypeOK
<1>2. Requests' /\ Counted'
  BY DEF Requests, Counted
<1>3. OneOwner'
  BY DEF OneOwner, Owned
<1>4. reopened \subseteq reopened' /\ (made[e] = 0 \/ e \in reopened')
  BY DEF TypeOK
<1>5. Adding' /\ OneJobPerKey'
  BY <1>4 DEF Adding, OneJobPerKey
<1>6. Freed'
  BY <1>4 DEF Freed
<1>7. Kept' /\ LossHasACause'
  BY DEF Kept, LossHasACause, Owned, Answered
<1> QED BY <1>1, <1>2, <1>3, <1>5, <1>6, <1>7

-----------------------------------------------------------------------------
LEMMA NextInv == IInv /\ [Next]_vars => IInv'
<1> SUFFICES ASSUME IInv, [Next]_vars PROVE IInv'
  OBVIOUS
<1>1. CASE UNCHANGED vars
  BY <1>1 DEF vars, IInv, TypeOK, Requests, OneOwner, Counted, Adding, Freed, Kept,
              OneJobPerKey, LossHasACause, Owned, Answered
<1>2. ASSUME NEW h \in Handler, NEW s \in Source, NEW e \in Event, Deliver(h, s, e)
      PROVE  IInv'
  BY <1>2, DeliverInv
<1>3. ASSUME NEW h \in Handler, Go(h) PROVE IInv'
  BY <1>3, ClaimInv, AddInv, ReleaseInv DEF Go
<1>4. ASSUME NEW h \in Handler, Fail(h) PROVE IInv'
  BY <1>4, ClaimFailsInv, AddFailsInv, ReleaseFailsInv, CrashInv DEF Fail
<1>5. ASSUME NEW i \in JobId, Finish(i) \/ Drop(i) PROVE IInv'
  BY <1>5, QueueInv
<1>6. ASSUME NEW e \in Event, Purge(e) PROVE IInv'
  BY <1>6, PurgeInv
<1> QED BY <1>1, <1>2, <1>3, <1>4, <1>5, <1>6 DEF Next

\* The strengthened invariant holds in every reachable state.
THEOREM IntakeInvariance == Spec => []IInv
BY InitInv, NextInv, PTL DEF Spec

\* Every variable keeps its type.
THEOREM IntakeTypeCorrect == Spec => []TypeOK
<1>1. IInv => TypeOK
  BY DEF IInv
<1> QED BY <1>1, IntakeInvariance, PTL

\* At most one job for an event whose key was kept, whatever the routes race for
\* (idempotency.ts 13-49).
THEOREM OneJob == Spec => []OneJobPerKey
<1>1. IInv => OneJobPerKey
  BY DEF IInv
<1> QED BY <1>1, IntakeInvariance, PTL

\* A claim is one request's to use or to release (webhook.ts 255-288).
THEOREM ClaimsAreOwned == Spec => []OneOwner
<1>1. IInv => OneOwner
  BY DEF IInv
<1> QED BY <1>1, IntakeInvariance, PTL

\* An event the sender thinks delivered has a job, or one of the named causes
\* kept it from having one (webhook.ts 257-288).
THEOREM LossIsExplained == Spec => []LossHasACause
<1>1. IInv => LossHasACause
  BY DEF IInv
<1> QED BY <1>1, IntakeInvariance, PTL
=============================================================================

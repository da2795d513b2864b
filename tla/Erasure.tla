------------------------------- MODULE Erasure -------------------------------
(***************************************************************************)
(* The erasure of one deal (cli/eraseDeal.ts): its rows are deleted table  *)
(* by table, then the queue is read state by state and page by page, and   *)
(* the deal's jobs are removed as they are met - while workers, retries    *)
(* and intake go on moving jobs and writing rows.  The dry run changes     *)
(* nothing and is left out.                                                *)
(***************************************************************************)
EXTENDS Naturals, Sequences, FiniteSets

CONSTANTS
  IdJob,       \* jobs of the deal whose id names hub and deal
  ManualJob,   \* jobs of the deal with another id, which the payload's hs_object_id names
  MappedJob,   \* jobs of the deal only the field names that the tenant maps deal_id to
  OtherJob,    \* jobs of other deals
  StartQueues, \* queues the erasure may find: the jobs of each state, newest first
  PAGE,
  MaxMoves     \* bound: jobs that come, move or run on meanwhile

DealJob == IdJob \cup ManualJob \cup MappedJob
Job == DealJob \cup OtherJob

VARIABLES
  inState,   \* [queue state -> its jobs, newest first]
  rows,      \* [kind of rows -> jobs of the deal that have some]
  eraser,    \* the erasure's place
  moves,     \* moves so far
  moved,     \* ghost: jobs that came or changed state since the sweep began
  ran,       \* ghost: jobs that came or had a run under way since the erasure began
  locked,    \* ghost: jobs a worker held when they were to be removed
  shifted    \* ghost: states a job left while a full page of theirs was gone through

erasureVars == <<inState, rows, eraser, moves, moved, ran, locked, shifted>>

states == <<"completed", "failed", "delayed", "waiting", "active", "paused">>
QueueState == {states[i] : i \in DOMAIN states}
\* The rows of the deal, by table; and those of load_tenant, the first step of every
\* attempt, which job_steps has under deal 0.
Table == {"job_steps", "audit_log", "idempotency_keys"}
RowKind == Table \cup {"load_tenant"}

\* A job is in one state, once.
ASSUME ErasureAssumption ==
  /\ PAGE \in Nat \ {0} /\ MaxMoves \in Nat
  /\ StartQueues \subseteq [QueueState -> Seq(Job)]
  /\ \A q \in StartQueues : \A s, t \in QueueState :
       \A i \in DOMAIN q[s], k \in DOMAIN q[t] : q[s][i] = q[t][k] => s = t /\ i = k

ErasureTypeOK ==
  /\ inState \in [QueueState -> Seq(Job)]
  /\ rows \in [RowKind -> SUBSET DealJob]
  /\ eraser \in [pc: Table \cup {"page", "look", "audit", "done", "failed"},
                 at: DOMAIN states, start: Nat, page: Seq(Job), full: BOOLEAN]
  /\ moves \in 0..MaxMoves
  /\ moved \subseteq Job /\ ran \subseteq Job /\ locked \subseteq DealJob
  /\ shifted \subseteq QueueState

State == states[eraser.at]
Holds(s, j) == \E i \in DOMAIN inState[s] : inState[s][i] = j
Queued(j) == \E s \in QueueState : Holds(s, j)

\* The jobs of a state after one leaves it: the older ones move up.
Without(s, j) ==
  LET list == inState[s]
      at   == CHOOSE i \in DOMAIN list : list[i] = j
  IN  IF Holds(s, j) THEN [i \in 1..(Len(list) - 1) |-> list[IF i < at THEN i ELSE i + 1]]
      ELSE list

\* A run goes on when its job has lost its lock.
ErasureInit ==
  /\ inState \in StartQueues
  /\ \E stale \in SUBSET {j \in DealJob : Queued(j)} :
       ran = {j \in Job : Holds("active", j)} \cup stale
  /\ rows = [t \in RowKind |-> {j \in IF t = "idempotency_keys" THEN IdJob ELSE DealJob : Queued(j)}]
  /\ eraser = [pc |-> "job_steps", at |-> 1, start |-> 0, page |-> <<>>, full |-> FALSE]
  /\ moves = 0 /\ moved = {} /\ locked = {} /\ shifted = {}

-----------------------------------------------------------------------------
\* The rows of the deal in one table, each DELETE on its own; the DELETE of job_steps
\* asks for the deal's id, which those of load_tenant have not.
DeleteRows ==
  /\ eraser.pc \in Table
  /\ rows' = [rows EXCEPT ![eraser.pc] = {}]
  /\ eraser' = [eraser EXCEPT !.pc = CASE eraser.pc = "job_steps" -> "audit_log"
                                      [] eraser.pc = "audit_log" -> "idempotency_keys"
                                      [] OTHER -> "page"]
  /\ UNCHANGED <<inState, moves, moved, ran, locked, shifted>>

NextState(e) ==
  IF e.at = Len(states) THEN [e EXCEPT !.pc = "audit", !.full = FALSE]
  ELSE [e EXCEPT !.pc = "page", !.at = @ + 1, !.start = 0, !.full = FALSE]

\* getJobs of one state, from start on.
FetchPage ==
  /\ eraser.pc = "page"
  /\ LET list == inState[State]
         upTo == eraser.start + PAGE
         page == SubSeq(list, eraser.start + 1, IF upTo < Len(list) THEN upTo ELSE Len(list))
     IN eraser' = IF page = <<>> THEN NextState(eraser)
                  ELSE [eraser EXCEPT !.pc = "look", !.page = page, !.full = Len(page) = PAGE]
  /\ UNCHANGED <<inState, rows, moves, moved, ran, locked, shifted>>

\* Mutant: the payload is not looked at.
IdMatches(j) == j \in IdJob

\* The id, or hs_object_id in the payload, whatever field the tenant maps deal_id to.
Matches(j) == j \in IdJob \cup ManualJob

\* A job leaves the queue; of a state that goes through a full page, the older ones move
\* up under the sweep.
Remove(j) ==
  /\ inState' = [s \in QueueState |-> Without(s, j)]
  /\ shifted' = IF Holds(State, j) /\ eraser.full THEN shifted \cup {State} ELSE shifted

\* job.remove(): wherever the job is by now, unless a worker holds its lock, which is
\* printed and passed over; an active one whose worker died has lost it.
Look ==
  /\ eraser.pc = "look" /\ eraser.page # <<>>
  /\ LET j == Head(eraser.page) IN
     /\ eraser' = [eraser EXCEPT !.page = Tail(@)]
     /\ \/ ~Matches(j) /\ UNCHANGED <<inState, locked, shifted>>
        \/ /\ Matches(j) /\ Holds("active", j)
           /\ locked' = locked \cup {j} /\ UNCHANGED <<inState, shifted>>
        \/ Matches(j) /\ Remove(j) /\ UNCHANGED locked
  /\ UNCHANGED <<rows, moves, moved, ran>>

\* The next page starts PAGE further on, whatever was removed; a page that is not full
\* was the last.
PageDone ==
  /\ eraser.pc = "look" /\ eraser.page = <<>>
  /\ eraser' = IF eraser.full THEN [eraser EXCEPT !.pc = "page", !.start = @ + PAGE]
               ELSE NextState(eraser)
  /\ UNCHANGED <<inState, rows, moves, moved, ran, locked, shifted>>

\* The admin_audit row, whose failure is only logged.
AuditErasure ==
  /\ eraser.pc = "audit"
  /\ eraser' = [eraser EXCEPT !.pc = "done"]
  /\ UNCHANGED <<inState, rows, moves, moved, ran, locked, shifted>>

\* A statement or a read of the queue fails: exit 1, what was erased stays erased.
EraseFails ==
  /\ eraser.pc \notin {"audit", "done", "failed"}
  /\ eraser' = [eraser EXCEPT !.pc = "failed", !.page = <<>>]
  /\ UNCHANGED <<inState, rows, moves, moved, ran, locked, shifted>>

-----------------------------------------------------------------------------
\* Meanwhile, in the rest of the system

\* What comes after the erasure is of no matter.
Meanwhile ==
  /\ eraser.pc \notin {"done", "failed"}
  /\ moves < MaxMoves /\ moves' = moves + 1

Sweeping == eraser.pc \in {"page", "look", "audit"}

\* Taken, finished, failed, put back, recovered as stalled, promoted or retried: to the
\* newest end of another state.
Transition == {<<"waiting", "active">>, <<"active", "completed">>, <<"active", "failed">>,
               <<"active", "delayed">>, <<"active", "waiting">>, <<"delayed", "waiting">>,
               <<"failed", "waiting">>}

Move(j, from, to) ==
  /\ Meanwhile /\ <<from, to>> \in Transition
  /\ Holds(from, j)
  /\ inState' = [inState EXCEPT ![from] = Without(from, j), ![to] = <<j>> \o @]
  /\ moved' = IF Sweeping THEN moved \cup {j} ELSE moved
  /\ shifted' = IF from = State /\ eraser.full THEN shifted \cup {from} ELSE shifted
  /\ ran' = IF to = "active" THEN ran \cup {j} ELSE ran
  /\ UNCHANGED <<rows, eraser, locked>>

\* A job is discarded by an admin, or dropped by the queue's retention.
Discard(j) ==
  /\ Meanwhile /\ Queued(j)
  /\ Remove(j)
  /\ UNCHANGED <<rows, eraser, moved, ran, locked>>

\* The deal changes again: intake claims a key and adds a job.
Comes(j) ==
  /\ Meanwhile /\ j \in IdJob /\ ~Queued(j)
  /\ inState' = [inState EXCEPT !["waiting"] = <<j>> \o @]
  /\ rows' = [rows EXCEPT !["idempotency_keys"] = @ \cup {j}]
  /\ moved' = IF Sweeping THEN moved \cup {j} ELSE moved
  /\ ran' = ran \cup {j}
  /\ UNCHANGED <<eraser, locked, shifted>>

\* writeJobStep and writeAudit of a run, one that goes on without its job included, and
\* the audit row of the intake of a job that came.
WriteRows(j) ==
  /\ Meanwhile /\ j \in DealJob \cap ran
  /\ rows' = [t \in RowKind |-> IF t = "idempotency_keys" THEN rows[t] ELSE rows[t] \cup {j}]
  /\ UNCHANGED <<inState, eraser, moved, ran, locked, shifted>>

ErasureNext ==
  \/ DeleteRows \/ FetchPage \/ Look \/ PageDone \/ AuditErasure \/ EraseFails
  \/ \E j \in Job, t \in Transition : Move(j, t[1], t[2])
  \/ \E j \in Job : Discard(j)
  \/ \E j \in DealJob : Comes(j) \/ WriteRows(j)

ErasureSpec == ErasureInit /\ [][ErasureNext]_erasureVars

-----------------------------------------------------------------------------
\* "Removes every record this system holds for a deal ... Paginated so nothing is skipped"
\* (eraseDeal.ts 6, 64): when it reports success, a job of the deal that is still queued
\* came or changed state under the sweep, was held by a worker when it was met, or is in
\* a state with more than a page of jobs, where one that was removed or left makes the
\* offset pass over another; and rows of the deal that are left are of a job that had a
\* run or came meanwhile.  Two exceptions the code makes for good: a job that only the
\* mapped field names is never found, and the load_tenant rows of every attempt, under
\* deal 0 and, for a job of intake, a job_id that names the deal, are never deleted.
ErasureLeavesNothing ==
  eraser.pc = "done" =>
    /\ \A j \in DealJob : Queued(j) =>
         \/ j \in MappedJob \cup moved \cup locked
         \/ \E s \in shifted : Holds(s, j)
    /\ \A t \in Table : rows[t] \subseteq ran
=============================================================================

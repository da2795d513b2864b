---------------------------- MODULE ProcessDeal ----------------------------
(***************************************************************************)
(* The processDeal pipeline: the worker slots that take jobs from the      *)
(* BullMQ queue, the bookkeeping a job keeps in its own data (`progress`), *)
(* and what the pipeline does to HubSpot.  All jobs here target one deal;  *)
(* an offer is a (unit, rate) pair.                                        *)
(*                                                                         *)
(* Worker runs and queue jobs are separate: when a lock is lost the queue  *)
(* hands the job to another slot while the old run goes on.  HubSpot, the  *)
(* queue and Phobs are external: a call may fail before or after it took   *)
(* effect.                                                                 *)
(***************************************************************************)
EXTENDS Naturals, Sequences, FiniteSets

CONSTANTS
  Worker,          \* concurrent processor slots (makeWorker's concurrency)
  Job,             \* processDeal jobs for the deal
  None,            \* "no value"
  Offer,           \* (unit, rate) pairs Phobs can return
  Sku, SkuOf,      \* renderTemplate(product_sku_template): offer -> SKU
  Price,           \* prices of an offer
  Selections,      \* results a search can end with: sequences of priced offers
  Payloads,        \* what a payload may be worth, see PayloadClass
  MaxAttempts,     \* job attempts (defaultJobOpts.attempts, 4)
  MaxTries,        \* tries of one call (callWithRetry maxAttempts, 4)
  MaxStalls,       \* BullMQ's maxStalledCount, 1
  MaxRetries,      \* bound: admin retries of failed jobs
  MaxFaults        \* bound: failures the environment injects

\* "shape": not an object; "field": a required input is missing or not a number;
\* "skip": a tenant's skip condition matches; "foreign": no such deal in the
\* tenant's portal, or the CRM's property id contradicts the body.
PayloadClass == {"ok", "shape", "field", "skip", "foreign"}

PricedOffer == [offer: Offer, price: Price]

ASSUME ConstantsAssumption ==
  /\ None \notin Worker
  /\ SkuOf \in [Offer -> Sku]
  /\ Selections \subseteq Seq(PricedOffer)
  /\ Payloads \subseteq PayloadClass
  /\ {MaxAttempts, MaxTries} \subseteq Nat \ {0}
  /\ {MaxStalls, MaxRetries, MaxFaults} \subseteq Nat

\* A search returns a (unit, rate) pair once.
ASSUME SelectionsAreSets ==
  \A s \in Selections : \A m, n \in 1..Len(s) : s[m].offer = s[n].offer => m = n

VARIABLES
  job,        \* [Job -> the queue's record of it, progress included]
  run,        \* [Worker -> what the slot is executing]
  products,   \* HubSpot products
  items,      \* HubSpot line items on the deal
  quotes,     \* HubSpot quotes on the deal
  approved,   \* ids of the quotes that are APPROVED
  deal,       \* the deal's properties the pipeline writes
  nextId,     \* HubSpot's next object id
  orphans,    \* ghost: line items and quotes made for a job discarded before
  retries,    \* admin retries so far
  faults,     \* injected failures so far
  lost        \* ghost: jobs that lost the record of an object they created

hubspot == <<products, items, quotes, approved, deal, nextId, orphans>>
vars == <<job, run, hubspot, retries, faults, lost>>

-----------------------------------------------------------------------------
\* Values

\* progress.products, progress.lineItems, progress.quote.  A lineItemKey is the
\* sorted list of the ids it joins: the set of them.
ProductEntry == [sku: Sku, id: Nat]
ItemEntry    == [product: Nat, offer: Offer, id: Nat]
QuoteEntry   == [id: Nat, link: BOOLEAN, items: SUBSET Nat]
Progress     == [products: SUBSET ProductEntry, items: SUBSET ItemEntry,
                 quote: QuoteEntry \cup {None}]

\* "No value" is none of the values it stands in for.
ASSUME NoneIsNothing == None \notin Job /\ None \notin QuoteEntry

NoProgress   == [products |-> {}, items |-> {}, quote |-> None]

JobState == {"waiting", "active", "completed", "failed", "removed"}

\* Where a run is.  The call pcs stop at an external call that can fail.
Reads  == {"verify", "search", "find"}
Writes == {"normalize", "unavailable", "new_product", "new_item", "new_quote",
           "approve", "publish"}
Saves  == {"save_product", "save_item", "save_quote"}
Polls  == {"poll", "repoll"}
Calls  == Reads \cup Writes
PC     == {"idle", "begin", "product", "item", "quote"} \cup Calls \cup Saves \cup Polls

\* `made` is the id of the object just created, `link` the result of the last
\* poll; `saved` is job.data.progress as this process last read or wrote it,
\* with the in-memory createdProducts and createdLineItems.
Run == [job: Job \cup {None}, pc: PC, saved: Progress, sel: Seq(PricedOffer),
        productIds: Seq(Nat), itemIds: Seq(Nat), made: Nat, link: BOOLEAN,
        tries: Nat, reauthed: BOOLEAN]
Idle == [job |-> None, pc |-> "idle", saved |-> NoProgress, sel |-> <<>>,
         productIds |-> <<>>, itemIds |-> <<>>, made |-> 0, link |-> FALSE,
         tries |-> 0, reauthed |-> FALSE]

\* What the queue holds of a job; the payload never changes.
JobRecord == [payload: Payloads, state: JobState, lock: Worker \cup {None},
              attempts: Nat, stalls: Nat, progress: Progress]
NewJob(p) == [payload |-> p, state |-> "waiting", lock |-> None, attempts |-> 0,
              stalls |-> 0, progress |-> NoProgress]

IdSet(ids) == {ids[n] : n \in 1..Len(ids)}

TypeOK ==
  /\ job \in [Job -> JobRecord]
  /\ run \in [Worker -> Run]
  /\ products \subseteq [id: Nat, sku: Sku]
  /\ items \subseteq [id: Nat, job: Job, product: Nat, offer: Offer, price: Price]
  /\ quotes \subseteq [id: Nat, job: Job, items: SUBSET Nat]
  /\ approved \subseteq Nat
  /\ deal \in [status: {"unset", "available", "no_availability"},
               quote: Nat, link: Nat, input: Job \cup {None}]
  /\ nextId \in Nat \ {0} /\ orphans \subseteq Nat
  /\ retries \in Nat /\ faults \in Nat
  /\ lost \subseteq Job

Init ==
  /\ \E payload \in [Job -> Payloads] : job = [j \in Job |-> NewJob(payload[j])]
  /\ run = [w \in Worker |-> Idle]
  /\ products = {} /\ items = {} /\ quotes = {} /\ approved = {}
  /\ deal = [status |-> "unset", quote |-> 0, link |-> 0, input |-> None]
  /\ nextId = 1 /\ orphans = {}
  /\ retries = 0 /\ faults = 0 /\ lost = {}

-----------------------------------------------------------------------------
\* How a run goes on and how it ends

PayloadOf(w) == job[run[w].job].payload

At(w, pc) == run[w].pc = pc

\* On to another step: a fresh retry count, a fresh withHubSpotClient.
GoTo(r, pc) == [r EXCEPT !.pc = pc, !.tries = 0, !.reauthed = FALSE]

\* On to the next call of the same withHubSpotClient callback.
Within(r, pc) == [r EXCEPT !.pc = pc, !.tries = 0]

\* The processor returned or threw: the queue moves the job if this slot still
\* holds its lock; otherwise the move is refused and the job stays as it is.
Leave(w, state) ==
  LET j == run[w].job IN
  /\ run' = [run EXCEPT ![w] = Idle]
  /\ job' = IF job[j].lock = w
            THEN [job EXCEPT ![j].state = state, ![j].lock = None,
                             ![j].attempts = @ + 1]
            ELSE job

Return(w) == Leave(w, "completed")

\* isRetryable: transient failures are retried until the attempts are used up
\* (the backoff delay is not modelled); the others become UnrecoverableError.
ThrowRetryable(w) ==
  Leave(w, IF job[run[w].job].attempts + 1 < MaxAttempts THEN "waiting" ELSE "failed")

ThrowPermanent(w) == Leave(w, "failed")

\* callWithRetry: the same call again, or give up after MaxTries.
RetryCall(w) ==
  IF run[w].tries + 1 < MaxTries
  THEN run' = [run EXCEPT ![w].tries = @ + 1] /\ UNCHANGED job
  ELSE ThrowRetryable(w)

\* Where withHubSpotClient's callback starts for the call at `pc`.
CallbackStart(pc) ==
  CASE pc = "approve" -> "new_quote"
    [] pc = "new_product" -> "find"
    [] OTHER -> pc

Fault == faults < MaxFaults /\ faults' = faults + 1

\* The ghost.  A run holds an object that no progress record names between the
\* call that created it and the save that follows.
Creates == {"new_item", "new_quote"}
Unsaved(w) == run[w].pc \in {"save_item", "approve", "poll", "save_quote"}
Drops(w) == Unsaved(w) /\ ~Unsaved(w)'
Lose(w, created) ==
  lost' = IF created \/ Drops(w) THEN lost \cup {run[w].job} ELSE lost

-----------------------------------------------------------------------------
\* The queue

Waiting(j) == job[j].state = "waiting"

\* A slot picks up a waiting job; the processor reads job.data.progress.
Take(w, j) ==
  /\ run[w].pc = "idle"
  /\ Waiting(j)
  /\ job' = [job EXCEPT ![j].state = "active", ![j].lock = w]
  /\ run' = [run EXCEPT ![w] = [Idle EXCEPT !.job = j, !.pc = "begin",
                                            !.saved = job[j].progress]]
  /\ UNCHANGED <<hubspot, retries, faults, lost>>

HasRun(j) == job[j].lock # None /\ run[job[j].lock].job = j

\* The stalled check: back to waiting, or failed after MaxStalls.
Requeue(j) ==
  job' = [job EXCEPT ![j].state = IF job[j].stalls < MaxStalls THEN "waiting" ELSE "failed",
                     ![j].lock = None, ![j].stalls = @ + 1]

\* Mutant: a job that stalls too often is never moved to the failed set.
StalledRarely(j) == job[j].state = "active" /\ ~HasRun(j) /\ job[j].stalls < MaxStalls

Stalled(j) == job[j].state = "active" /\ ~HasRun(j)

\* The process died under the run.
Crash(w) ==
  /\ run[w].pc # "idle"
  /\ Fault
  /\ run' = [run EXCEPT ![w] = Idle]
  /\ Lose(w, FALSE)
  /\ UNCHANGED <<job, hubspot, retries>>

RecoverStalled(j) ==
  /\ Stalled(j)
  /\ Requeue(j)
  /\ UNCHANGED <<run, hubspot, retries, faults, lost>>

\* The lock is not renewed in time (Redis unreachable, event loop blocked) and
\* the run goes on without it.
LockLost(j) ==
  /\ job[j].state = "active" /\ HasRun(j)
  /\ Fault
  /\ Requeue(j)
  /\ lost' = lost \cup {j}
  /\ UNCHANGED <<run, hubspot, retries>>

\* POST /jobs/:jobId/retry: attemptsMade is kept, so one more attempt.
AdminRetry(j) ==
  /\ job[j].state = "failed"
  /\ retries < MaxRetries /\ retries' = retries + 1
  /\ job' = [job EXCEPT ![j].state = "waiting"]
  /\ UNCHANGED <<run, hubspot, faults, lost>>

\* POST /jobs/:jobId/discard (and the queue's own retention): any job that is
\* not locked can be removed, its data with it.
Remove(j) ==
  /\ job[j].state \in {"waiting", "failed", "completed"}
  /\ job' = [job EXCEPT ![j].state = "removed", ![j].progress = NoProgress]
  /\ UNCHANGED <<run, hubspot, retries, faults, lost>>

-----------------------------------------------------------------------------
\* The steps of processDealJob

\* Payload parse, load_tenant, deal id, skip conditions, property id.
Begin(w) ==
  /\ At(w, "begin")
  /\ CASE PayloadOf(w) \in {"shape", "field"} -> ThrowPermanent(w)
       [] PayloadOf(w) = "skip" -> Return(w)
       [] OTHER -> /\ run' = [run EXCEPT ![w] = GoTo(@, "verify")]
                   /\ UNCHANGED job
  /\ UNCHANGED <<hubspot, retries, faults, lost>>

\* loadTenantContext: no such tenant, suspended, or the database is down.
LoadTenantFails(w) ==
  /\ At(w, "begin") /\ PayloadOf(w) # "shape"
  /\ Fault
  /\ ThrowPermanent(w) \/ ThrowRetryable(w)
  /\ UNCHANGED <<hubspot, retries, lost>>

\* deal.verify
Verify(w) ==
  /\ At(w, "verify")
  /\ IF PayloadOf(w) = "foreign"
     THEN ThrowPermanent(w)
     ELSE run' = [run EXCEPT ![w] = GoTo(@, "normalize")] /\ UNCHANGED job
  /\ UNCHANGED <<hubspot, retries, faults, lost>>

\* hubdb.query, phobs.availability, rate_filters, phobs.price_quote
Search(w) ==
  /\ At(w, "search")
  /\ \E s \in Selections :
       run' = [run EXCEPT ![w] =
                 [GoTo(@, IF s = <<>> THEN "unavailable" ELSE "product") EXCEPT !.sel = s]]
  /\ UNCHANGED <<job, hubspot, retries, faults, lost>>

\* The product of the next offer is known.
HaveProduct(r, id) ==
  LET ids == Append(r.productIds, id) IN
  [GoTo(r, IF Len(ids) = Len(r.sel) THEN "item" ELSE "product") EXCEPT !.productIds = ids]

\* The line item of the next offer is known.
HaveItem(r, id) ==
  LET ids == Append(r.itemIds, id) IN
  [GoTo(r, IF Len(ids) = Len(r.sel) THEN "quote" ELSE "item") EXCEPT !.itemIds = ids]

NextSku(r) == SkuOf[r.sel[Len(r.productIds) + 1].offer]

\* product.upsert: reuse what the job recorded, else look HubSpot up.
Product(w) ==
  LET known == {e \in run[w].saved.products : e.sku = NextSku(run[w])} IN
  /\ At(w, "product")
  /\ IF known # {}
     THEN \E e \in known : run' = [run EXCEPT ![w] = HaveProduct(@, e.id)]
     ELSE run' = [run EXCEPT ![w] = GoTo(@, "find")]
  /\ UNCHANGED <<job, hubspot, retries, faults, lost>>

\* findBySku takes the first match.  The search index may lag behind creates.
Find(w) ==
  LET found == {p \in products : p.sku = NextSku(run[w])} IN
  /\ At(w, "find")
  /\ \/ /\ \E p \in found :
             run' = [run EXCEPT ![w] = [GoTo(@, "save_product") EXCEPT !.made = p.id]]
        /\ UNCHANGED faults
     \/ /\ run' = [run EXCEPT ![w] = Within(@, "new_product")]
        /\ IF found = {} THEN UNCHANGED faults ELSE Fault
  /\ UNCHANGED <<job, hubspot, retries, lost>>

NextOffer(r) == r.sel[Len(r.itemIds) + 1]
NextProduct(r) == r.productIds[Len(r.itemIds) + 1]

\* lineItem.create: reuse what the job recorded under the line item's key, else
\* create it.  The key has no price in it.
Item(w) ==
  LET known == {e \in run[w].saved.items : /\ e.product = NextProduct(run[w])
                                           /\ e.offer = NextOffer(run[w]).offer} IN
  /\ At(w, "item")
  /\ IF known # {}
     THEN \E e \in known : run' = [run EXCEPT ![w] = HaveItem(@, e.id)]
     ELSE run' = [run EXCEPT ![w] = GoTo(@, "new_item")]
  /\ UNCHANGED <<job, hubspot, retries, faults, lost>>

\* Mutant: an earlier attempt's quote is reused whatever its line items.
HaveSomeQuote(r) == r.saved.quote # None

\* An earlier attempt's quote is good if it was built from these line items.
HaveQuote(r) == r.saved.quote # None /\ r.saved.quote.items = IdSet(r.itemIds)

\* quote.create_approve_fetch: reuse the quote, polling again if it had no link
\* yet, or create one.
Quote(w) ==
  LET known == run[w].saved.quote IN
  /\ At(w, "quote")
  /\ run' = [run EXCEPT ![w] =
       IF HaveQuote(run[w])
       THEN [GoTo(@, IF known.link THEN "publish" ELSE "repoll")
               EXCEPT !.made = known.id, !.link = known.link]
       ELSE GoTo(@, "new_quote")]
  /\ UNCHANGED <<job, hubspot, retries, faults, lost>>

\* pollQuoteLink swallows errors and gives up after 10 s.
Poll(w) ==
  /\ run[w].pc \in Polls
  /\ \E found \in BOOLEAN :
       run' = [run EXCEPT ![w] =
                 [GoTo(@, IF At(w, "poll") THEN "save_quote" ELSE "publish")
                    EXCEPT !.link = found]]
  /\ UNCHANGED <<job, hubspot, retries, faults, lost>>

-----------------------------------------------------------------------------
\* The writes: what a call does to HubSpot when it takes effect

\* Mutant: a quote without a link yet clears the deal's quote_link.
PublishedClearingLink(r) ==
  [deal EXCEPT !.status = "available", !.quote = r.made,
               !.link = IF r.link THEN r.made ELSE 0]

\* deal.update.quote_link: quote_link only if there is one.
Published(r) ==
  [deal EXCEPT !.status = "available", !.quote = r.made,
               !.link = IF r.link THEN r.made ELSE @]

UpdateDeal(d) == deal' = d /\ UNCHANGED <<products, items, quotes, approved, nextId, orphans>>

CreateProduct(r) ==
  /\ products' = products \cup {[id |-> nextId, sku |-> NextSku(r)]}
  /\ nextId' = nextId + 1
  /\ UNCHANGED <<items, quotes, approved, deal, orphans>>

\* The ghost: what a run creates for a job that was discarded under it.
Orphan(r) ==
  orphans' = IF job[r.job].state = "removed" THEN orphans \cup {nextId} ELSE orphans

CreateLineItem(r) ==
  /\ items' = items \cup {[id |-> nextId, job |-> r.job, product |-> NextProduct(r),
                           offer |-> NextOffer(r).offer, price |-> NextOffer(r).price]}
  /\ nextId' = nextId + 1 /\ Orphan(r)
  /\ UNCHANGED <<products, quotes, approved, deal>>

CreateQuote(r) ==
  /\ quotes' = quotes \cup {[id |-> nextId, job |-> r.job, items |-> IdSet(r.itemIds)]}
  /\ nextId' = nextId + 1 /\ Orphan(r)
  /\ UNCHANGED <<products, items, approved, deal>>

ApproveQuote(r) ==
  /\ approved' = approved \cup {r.made}
  /\ UNCHANGED <<products, items, quotes, deal, nextId, orphans>>

Effect(w) ==
  LET r == run[w] IN
  \/ At(w, "normalize")   /\ UpdateDeal([deal EXCEPT !.input = r.job])
  \/ At(w, "unavailable") /\ UpdateDeal([deal EXCEPT !.status = "no_availability"])
  \/ At(w, "new_product") /\ CreateProduct(r)
  \/ At(w, "new_item")    /\ CreateLineItem(r)
  \/ At(w, "new_quote")   /\ CreateQuote(r)
  \/ At(w, "approve")     /\ ApproveQuote(r)
  \/ At(w, "publish")     /\ UpdateDeal(Published(r))

\* Mutants: a created line item is not saved; createApprovedQuote polls before
\* it approves.
AfterItemUnsaved(r) == HaveItem(r, nextId)
AfterQuoteUnapproved(r) == [GoTo(r, "poll") EXCEPT !.made = nextId]

AfterItem(r)  == [GoTo(r, "save_item") EXCEPT !.made = nextId]
AfterQuote(r) == [Within(r, "approve") EXCEPT !.made = nextId]

\* The run once the reply is in.
AfterWrite(r) ==
  CASE r.pc = "normalize"   -> GoTo(r, "search")
    [] r.pc = "new_product" -> [GoTo(r, "save_product") EXCEPT !.made = nextId]
    [] r.pc = "new_item"    -> AfterItem(r)
    [] r.pc = "new_quote"   -> AfterQuote(r)
    [] r.pc = "approve"     -> GoTo(r, "poll")

Write(w) ==
  /\ run[w].pc \in Writes
  /\ Effect(w)
  /\ IF run[w].pc \in {"unavailable", "publish"}
     THEN Return(w)
     ELSE run' = [run EXCEPT ![w] = AfterWrite(@)] /\ UNCHANGED job
  /\ UNCHANGED <<retries, faults, lost>>

\* Mutants: a line item is recorded under the first product; a quote without
\* its link; a quote in place of everything recorded before.
ItemUnderFirst(r) == [product |-> r.productIds[1], offer |-> NextOffer(r).offer, id |-> r.made]
QuoteWithoutLink(r) == [id |-> r.made, items |-> IdSet(r.itemIds)]
WithQuoteAlone(p, q) == [NoProgress EXCEPT !.quote = q]

MadeItem(r)  == [product |-> NextProduct(r), offer |-> NextOffer(r).offer, id |-> r.made]
MadeQuote(r) == [id |-> r.made, link |-> r.link, items |-> IdSet(r.itemIds)]
WithQuote(p, q) == [p EXCEPT !.quote = q]

\* saveProgress and the update after the quote: the whole record, from this
\* process's copy of job.data plus what was just created.
Recorded(r) ==
  CASE r.pc = "save_product" ->
         [r.saved EXCEPT !.products = @ \cup {[sku |-> NextSku(r), id |-> r.made]}]
    [] r.pc = "save_item"  -> [r.saved EXCEPT !.items = @ \cup {MadeItem(r)}]
    [] r.pc = "save_quote" -> WithQuote(r.saved, MadeQuote(r))

AfterSave(r) ==
  CASE r.pc = "save_product" -> HaveProduct(r, r.made)
    [] r.pc = "save_item"    -> HaveItem(r, r.made)
    [] r.pc = "save_quote"   -> GoTo(r, "publish")

\* job.updateData needs no lock, only that the job still exists.
Save(w) ==
  LET j == run[w].job
      p == Recorded(run[w]) IN
  /\ run[w].pc \in Saves
  /\ job[j].state # "removed"
  /\ job' = [job EXCEPT ![j].progress = p]
  /\ run' = [run EXCEPT ![w] = [AfterSave(@) EXCEPT !.saved = p]]
  /\ UNCHANGED <<hubspot, retries, faults, lost>>

\* Mutant: an update that is refused is caught, and the run goes on.
SaveIgnored(w) ==
  /\ run[w].pc \in Saves
  /\ job[run[w].job].state = "removed"
  /\ run' = [run EXCEPT ![w] = [AfterSave(@) EXCEPT !.saved = Recorded(run[w])]]
  /\ Lose(w, FALSE)
  /\ UNCHANGED <<job, hubspot, retries, faults>>

\* updateData on a removed job throws.
SaveRefused(w) ==
  /\ run[w].pc \in Saves
  /\ job[run[w].job].state = "removed"
  /\ ThrowRetryable(w)
  /\ Lose(w, FALSE)
  /\ UNCHANGED <<hubspot, retries, faults>>

-----------------------------------------------------------------------------
\* Failing calls

\* Redis fails the update.
SaveFails(w) ==
  /\ run[w].pc \in Saves
  /\ Fault
  /\ ThrowRetryable(w)
  /\ Lose(w, FALSE)
  /\ UNCHANGED <<hubspot, retries>>

\* getAccessToken fails before the callback of withHubSpotClient starts.
NoToken(w) ==
  /\ run[w].pc \in (Calls \cup {"repoll"}) \ {"new_product", "approve"}
  /\ Fault
  /\ ThrowRetryable(w) \/ ThrowPermanent(w)
  /\ UNCHANGED <<hubspot, retries, lost>>

\* The call had no effect: a transient error, or a 4xx.
CallFails(w) ==
  /\ run[w].pc \in Calls
  /\ Fault
  /\ RetryCall(w) \/ ThrowPermanent(w)
  /\ Lose(w, FALSE)
  /\ UNCHANGED <<hubspot, retries>>

\* A 401 starts the callback again with a fresh token, once.
CallUnauthorized(w) ==
  /\ run[w].pc \in Calls /\ ~run[w].reauthed
  /\ Fault
  /\ run' = [run EXCEPT ![w].pc = CallbackStart(@), ![w].tries = 0, ![w].reauthed = TRUE]
  /\ Lose(w, FALSE)
  /\ UNCHANGED <<job, hubspot, retries>>

\* The write took effect but the reply was lost: to the caller, a transient error.
ReplyLost(w) ==
  /\ run[w].pc \in Writes
  /\ Fault
  /\ Effect(w)
  /\ RetryCall(w)
  /\ Lose(w, run[w].pc \in Creates)
  /\ UNCHANGED retries

-----------------------------------------------------------------------------
Step(w) == \/ Begin(w) \/ Verify(w) \/ Search(w) \/ Product(w) \/ Find(w)
           \/ Item(w) \/ Quote(w) \/ Poll(w) \/ Write(w) \/ Save(w)
           \/ SaveRefused(w)

Failure(w) == \/ LoadTenantFails(w) \/ SaveFails(w) \/ NoToken(w) \/ CallFails(w)
              \/ CallUnauthorized(w) \/ ReplyLost(w) \/ Crash(w)

Next ==
  \/ \E w \in Worker : Step(w) \/ Failure(w) \/ \E j \in Job : Take(w, j)
  \/ \E j \in Job : RecoverStalled(j) \/ LockLost(j) \/ AdminRetry(j) \/ Remove(j)

\* A live worker keeps running its jobs and taking new ones, and the stalled
\* check runs every 30 s: weak fairness.  Faults and admins owe nothing.
Fairness ==
  /\ \A w \in Worker : WF_vars(Step(w))
  /\ \A j \in Job : WF_vars(\E w \in Worker : Take(w, j)) /\ WF_vars(RecoverStalled(j))

Spec == Init /\ [][Next]_vars /\ Fairness

-----------------------------------------------------------------------------
\* Properties

\* What a progress record of job j says is so in HubSpot.
TrueOf(p, j) ==
  /\ \A e \in p.products : [id |-> e.id, sku |-> e.sku] \in products
  /\ \A e \in p.items : \E i \in items :
       /\ i.id = e.id /\ i.job = j /\ i.product = e.product /\ i.offer = e.offer
  /\ p.quote # None =>
       /\ [id |-> p.quote.id, job |-> j, items |-> p.quote.items] \in quotes
       /\ p.quote.id \in approved

\* Resuming is safe: whatever crashes, lost replies, stale runs and restarts do,
\* the bookkeeping a retry resumes from - in the queue and in each process's
\* copy - only names HubSpot objects that exist, were made for that very key,
\* and, for the quote, are approved (processDeal.ts 83-98, 465-494).
RecordsAreTrue ==
  /\ \A j \in Job : TrueOf(job[j].progress, j)
  /\ \A w \in Worker : run[w].job # None => TrueOf(run[w].saved, run[w].job)

\* When the pipeline writes a quote onto the deal, the quote is approved and its
\* line items are exactly those of this attempt's offers, one per offer and in
\* order, even if the quote was made by an earlier attempt: "so the offer and
\* its line items always agree" (processDeal.ts 465-474).
OfferAgreesWithLineItems ==
  \A w \in Worker : run[w].pc = "publish" =>
    LET r == run[w] IN
    /\ r.made \in approved
    /\ [id |-> r.made, job |-> r.job, items |-> IdSet(r.itemIds)] \in quotes
    /\ Len(r.itemIds) = Len(r.sel)
    /\ \A n \in 1..Len(r.sel) : \E i \in items :
         i.id = r.itemIds[n] /\ i.job = r.job /\ i.offer = r.sel[n].offer

\* Duplicates have a cause.  A job that never lost the record of something it
\* created (no lost reply, no failure between create and save, no lost lock)
\* has at most one line item per product and offer over all its attempts, 401
\* replays and admin retries, and makes a second quote for the same line items
\* only after a quote for other ones (processDeal.ts 83-85).
NoDuplicatesUnlessLost ==
  \A j \in Job \ lost :
    /\ \A a, b \in items : (/\ a.job = j /\ b.job = j /\ a.product = b.product
                            /\ a.offer = b.offer) => a = b
    /\ \A a, b \in quotes :
         (a.job = j /\ b.job = j /\ a.items = b.items /\ a.id < b.id) =>
           \E c \in quotes : c.job = j /\ a.id < c.id /\ c.id < b.id /\ c.items # a.items

\* Discarding a job takes its offer away.  A run that lost its lock goes on after
\* the job is discarded, and may still make line items and a quote; but the first
\* save it tries is refused and ends it, so no quote is built over such a line item
\* and the deal is never pointed at such a quote (adminJobs.ts 112, processDeal.ts
\* 442 and 486).
DiscardedMakeNoOffer ==
  /\ \A q \in quotes : q.items \cap orphans = {}
  /\ deal.quote \notin orphans /\ deal.link \notin orphans

\* What the deal shows: `available` only with a quote, only approved quotes, and
\* a link only of an approved quote - whichever job wrote last.
DealShowsApprovedQuote ==
  /\ deal.status = "available" => deal.quote # 0
  /\ deal.quote # 0 => deal.quote \in approved /\ \E q \in quotes : q.id = deal.quote
  /\ deal.link # 0 => deal.link \in approved

\* The pipeline implements OfferBoard: the deal only ever shows an approved quote
\* over existing line items, and what was approved stays as it was approved -
\* whatever fails, and however runs interleave (quotes.ts 27-91, processDeal.ts
\* 306-315 and 453-519).
Board == INSTANCE OfferBoard WITH
  lineItems <- {i.id : i \in items},
  offers <- {q \in quotes : q.id \in approved},
  shown <- deal.quote, link <- deal.link, status <- deal.status

ImplementsBoard == Board!Spec

\* A job that kept its lock never forgets recorded objects: no save of a later
\* step or a later attempt drops an entry an earlier one made.
ProgressNeverForgets ==
  [][\A j \in Job : (j \notin lost' /\ job'[j].state # "removed") =>
       /\ job[j].progress.products \subseteq job'[j].progress.products
       /\ job[j].progress.items \subseteq job'[j].progress.items
       /\ job[j].progress.quote # None => job'[j].progress.quote # None]_vars

\* Every job settles: whatever fails, and however often its worker dies, a
\* waiting or active job is in the end completed, dead-lettered or removed.
EveryJobSettles ==
  \A j \in Job : job[j].state \in {"waiting", "active"}
                   ~> job[j].state \in {"completed", "failed", "removed"}

\* "Quote creation is not retried after success - once we have a quote id we
\* persist it on the job state so the next attempt skips creation and resumes at
\* approve" (ARCHITECTURE.md 522): a job whose quote is approved makes no other
\* quote for the same line items next.  The code records the quote only after
\* approval and up to 10 s of polling (processDeal.ts 475-494).
QuoteNotCreatedAgain ==
  \A q1, q2 \in quotes :
    (q1.job = q2.job /\ q1.items = q2.items /\ q1.id \in approved /\ q1.id < q2.id) =>
      \E q \in quotes : q.job = q1.job /\ q1.id < q.id /\ q.id < q2.id /\ q.items # q1.items

\* "if availability changed between attempts a new quote is created so the offer
\* and its line items always agree" (processDeal.ts 465-467): what is published
\* has this attempt's prices.  A line item is found again by product, unit and
\* rate alone.
PublishedPricesAreCurrent ==
  \A w \in Worker : run[w].pc = "publish" =>
    \A n \in 1..Len(run[w].sel) : \A i \in items :
      i.id = run[w].itemIds[n] => i.price = run[w].sel[n].price
=============================================================================

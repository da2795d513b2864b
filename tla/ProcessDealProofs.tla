------------------------- MODULE ProcessDealProofs -------------------------
(***************************************************************************)
(* Proofs about ProcessDeal for every number of slots, jobs, offers,       *)
(* attempts, stalls and faults.                                            *)
(*                                                                         *)
(* The safety invariants are not inductive: they speak of records already  *)
(* saved and of runs about to publish.  IInv adds what a run knows at each *)
(* step of the pipeline (RunOK), what holds of HubSpot's ids (HubOK), and  *)
(* the type invariant.  RunOK and TrueIn take HubSpot's objects as         *)
(* parameters, so that one lemma says they survive every step: products,   *)
(* items, quotes and approvals only grow.                                  *)
(*                                                                         *)
(* DupInv, over IInv, is about the jobs that lost nothing: who runs them,  *)
(* and that what they made is recorded or in the hands of the run.         *)
(*                                                                         *)
(* OrphanInv, over IInv, is about the discarded ones: no record, list or   *)
(* published quote of any run has an object made for a job after it was    *)
(* discarded; only the run that made it holds it, up to the refused save.  *)
(***************************************************************************)
EXTENDS ProcessDeal, TLAPS

-----------------------------------------------------------------------------
\* The inductive invariant

\* TrueOf, with HubSpot's objects as parameters.
TrueIn(p, j, P, I, Q, A) ==
  /\ \A e \in p.products : [id |-> e.id, sku |-> e.sku] \in P
  /\ \A e \in p.items : \E i \in I :
       i.id = e.id /\ i.job = j /\ i.product = e.product /\ i.offer = e.offer
  /\ p.quote # None =>
       [id |-> p.quote.id, job |-> j, items |-> p.quote.items] \in Q /\ p.quote.id \in A

ProductPCs == {"product", "find", "new_product", "save_product"}
ItemPCs    == {"item", "new_item", "save_item"}
QuotePCs   == {"quote", "new_quote", "approve", "poll", "save_quote", "repoll", "publish"}

\* How far the lists have come at each step.
Lengths(r) ==
  /\ r.pc \notin ProductPCs \cup ItemPCs \cup QuotePCs =>
       r.productIds = <<>> /\ r.itemIds = <<>>
  /\ r.pc \in ProductPCs => Len(r.productIds) < Len(r.sel) /\ r.itemIds = <<>>
  /\ r.pc \in ItemPCs => Len(r.productIds) = Len(r.sel) /\ Len(r.itemIds) < Len(r.sel)
  /\ r.pc \in QuotePCs => r.itemIds # <<>> /\ Len(r.itemIds) = Len(r.sel)

\* The line items found so far are this job's, made for these offers.
ItemsMatch(r, I) ==
  \A n \in 1..Len(r.itemIds) : \E i \in I :
    i.id = r.itemIds[n] /\ i.job = r.job /\ i.offer = r.sel[n].offer

\* What the last call made, before and after it is recorded.
MadeExists(r, P, I, Q, A) ==
  /\ r.pc = "save_product" => [id |-> r.made, sku |-> NextSku(r)] \in P
  /\ r.pc = "save_item" => \E i \in I :
       /\ i.id = r.made /\ i.job = r.job /\ i.product = NextProduct(r)
       /\ i.offer = NextOffer(r).offer
  /\ r.pc \in {"approve", "poll", "save_quote", "repoll", "publish"} =>
       [id |-> r.made, job |-> r.job, items |-> IdSet(r.itemIds)] \in Q
  /\ r.pc \in {"poll", "save_quote", "repoll", "publish"} => r.made \in A

RunOK(r, P, I, Q, A) ==
  IF r.pc = "idle" THEN r = Idle
  ELSE /\ r.job \in Job
       /\ TrueIn(r.saved, r.job, P, I, Q, A)
       /\ Lengths(r) /\ ItemsMatch(r, I) /\ MadeExists(r, P, I, Q, A)

\* The queue's records and the runs.
RunsOK == \A w \in Worker : RunOK(run[w], products, items, quotes, approved)
JobsOK == \A j \in Job :
            TrueIn(job[j].progress, j, products, items, quotes, approved)
QueueOK == job \in [Job -> JobRecord] /\ run \in [Worker -> Run] /\ RunsOK /\ JobsOK

\* HubSpot: ids are fresh, quotes are told apart by theirs, and a quote's line
\* items exist.
HubTypeOK ==
  /\ products \subseteq [id: Nat, sku: Sku]
  /\ items \subseteq [id: Nat, job: Job, product: Nat, offer: Offer, price: Price]
  /\ quotes \subseteq [id: Nat, job: Job, items: SUBSET Nat]
  /\ approved \subseteq Nat
  /\ deal \in [status: {"unset", "available", "no_availability"},
               quote: Nat, link: Nat, input: Job \cup {None}]
  /\ nextId \in Nat \ {0} /\ orphans \subseteq Nat
IdsOK ==
  /\ \A i \in items : i.id < nextId
  /\ \A q \in quotes : /\ q.id # 0 /\ q.id < nextId
                       /\ q.items # {} /\ q.items \subseteq {i.id : i \in items}
  /\ \A q1, q2 \in quotes : q1.id = q2.id => q1 = q2
  /\ \A n \in approved : \E q \in quotes : q.id = n
HubOK == HubTypeOK /\ IdsOK /\ DealShowsApprovedQuote

CountersOK == retries \in Nat /\ faults \in Nat /\ lost \subseteq Job

IInv == QueueOK /\ HubOK /\ CountersOK

\* HubSpot's objects only grow.
Grows == /\ products \subseteq products' /\ items \subseteq items'
         /\ quotes \subseteq quotes' /\ approved \subseteq approved'

-----------------------------------------------------------------------------
\* Lemmas about the parts of the invariant

\* What a progress record says stays true while HubSpot's objects only grow.
LEMMA TrueGrows ==
  ASSUME NEW p, NEW j, NEW P, NEW I, NEW Q, NEW A, NEW P2, NEW I2, NEW Q2, NEW A2,
         P \subseteq P2, I \subseteq I2, Q \subseteq Q2, A \subseteq A2,
         TrueIn(p, j, P, I, Q, A)
  PROVE  TrueIn(p, j, P2, I2, Q2, A2)
BY DEF TrueIn

\* What a run knows stays true while HubSpot's objects only grow.
LEMMA RunGrows ==
  ASSUME NEW r, NEW P, NEW I, NEW Q, NEW A, NEW P2, NEW I2, NEW Q2, NEW A2,
         P \subseteq P2, I \subseteq I2, Q \subseteq Q2, A \subseteq A2,
         RunOK(r, P, I, Q, A)
  PROVE  RunOK(r, P2, I2, Q2, A2)
<1>1. CASE r.pc = "idle"
  BY <1>1 DEF RunOK
<1>2. CASE r.pc # "idle"
  <2>1. TrueIn(r.saved, r.job, P2, I2, Q2, A2)
    BY <1>2, TrueGrows DEF RunOK
  <2>2. ItemsMatch(r, I2)
    BY <1>2 DEF RunOK, ItemsMatch
  <2>3. MadeExists(r, P2, I2, Q2, A2)
    BY <1>2 DEF RunOK, MadeExists
  <2> QED
    BY <1>2, <2>1, <2>2, <2>3 DEF RunOK
<1> QED
  BY <1>1, <1>2

\* A new job's record says nothing.
LEMMA NoProgressTrue ==
  ASSUME NEW j, NEW P, NEW I, NEW Q, NEW A
  PROVE  TrueIn(NoProgress, j, P, I, Q, A)
BY DEF TrueIn, NoProgress

\* A slot that runs a job is not idle, and runs one of the jobs.
LEMMA RunningJob ==
  ASSUME QueueOK, NEW w \in Worker, run[w].pc # "idle"
  PROVE  run[w].job \in Job /\ run[w] \in Run /\ job[run[w].job] \in JobRecord
BY DEF QueueOK, RunsOK, RunOK

LEMMA IdleRun == Idle \in Run
BY DEF Idle, Run, PC, NoProgress, Progress

LEMMA NoProgressType == NoProgress \in Progress
BY DEF NoProgress, Progress

\* The retry count and the pc are the only fields a step changes for sure.
LEMMA GoToType ==
  ASSUME NEW r \in Run, NEW pc \in PC
  PROVE  /\ GoTo(r, pc) \in Run
         /\ Within(r, pc) \in Run
         /\ GoTo(r, pc) = [r EXCEPT !.pc = pc, !.tries = 0, !.reauthed = FALSE]
         /\ Within(r, pc) = [r EXCEPT !.pc = pc, !.tries = 0]
BY DEF GoTo, Within, Run

\* The end of a run: the slot is idle, the queue's record keeps its progress.
LEMMA LeaveOK ==
  ASSUME QueueOK, NEW w \in Worker, run[w].pc # "idle",
         NEW state \in JobState, Leave(w, state)
  PROVE  /\ job' \in [Job -> JobRecord]
         /\ \A j \in Job : job'[j].progress = job[j].progress
         /\ run' = [run EXCEPT ![w] = Idle]
<1> DEFINE j == run[w].job
<1>1. j \in Job
  BY RunningJob
<1>2. job[j] \in JobRecord
  BY <1>1 DEF QueueOK
<1>3. job[j].attempts + 1 \in Nat
  BY <1>2 DEF JobRecord
<1>4. job' = job \/ job' = [job EXCEPT ![j].state = state, ![j].lock = None,
                                       ![j].attempts = @ + 1]
  BY DEF Leave
<1>5. run' = [run EXCEPT ![w] = Idle]
  BY DEF Leave
<1>6. CASE job' = job
  BY <1>5, <1>6 DEF QueueOK
<1>7. CASE job' = [job EXCEPT ![j].state = state, ![j].lock = None, ![j].attempts = @ + 1]
  <2>1. job' \in [Job -> JobRecord]
    BY <1>1, <1>2, <1>3, <1>7 DEF QueueOK, JobRecord
  <2>2. \A k \in Job : job'[k].progress = job[k].progress
    BY <1>1, <1>2, <1>7 DEF QueueOK, JobRecord
  <2> QED
    BY <2>1, <2>2, <1>5
<1> QED
  BY <1>4, <1>6, <1>7

-----------------------------------------------------------------------------
\* How a step changes the queue and the runs

\* A run ends.
LEMMA LeaveStep ==
  ASSUME QueueOK, Grows, NEW w \in Worker, run[w].pc # "idle",
         NEW state \in JobState, Leave(w, state)
  PROVE  QueueOK'
<1>1. /\ job' \in [Job -> JobRecord]
      /\ \A j \in Job : job'[j].progress = job[j].progress
      /\ run' = [run EXCEPT ![w] = Idle]
  BY LeaveOK
<1>2. run' \in [Worker -> Run]
  BY <1>1, IdleRun DEF QueueOK
<1>3. RunsOK'
  <2> SUFFICES ASSUME NEW v \in Worker
               PROVE  RunOK(run'[v], products', items', quotes', approved')
    BY DEF RunsOK
  <2>1. CASE v = w
    <3>1. run'[v] = Idle
      BY <1>1, <2>1 DEF QueueOK
    <3> QED
      BY <3>1 DEF RunOK, Idle
  <2>2. CASE v # w
    <3>1. run'[v] = run[v]
      BY <1>1, <2>2 DEF QueueOK
    <3>2. RunOK(run[v], products, items, quotes, approved)
      BY DEF QueueOK, RunsOK
    <3> QED
      BY <3>1, <3>2, RunGrows DEF Grows
  <2> QED
    BY <2>1, <2>2
<1>4. JobsOK'
  BY <1>1, TrueGrows DEF Grows, JobsOK, QueueOK
<1> QED
  BY <1>1, <1>2, <1>3, <1>4 DEF QueueOK

\* A run goes on, and the queue keeps its record of every job or one that is
\* true of HubSpot.
LEMMA RunStep ==
  ASSUME QueueOK, Grows, NEW w \in Worker, NEW r \in Run,
         run' = [run EXCEPT ![w] = r],
         RunOK(r, products', items', quotes', approved'),
         job' \in [Job -> JobRecord],
         \A j \in Job : \/ job'[j].progress = job[j].progress
                        \/ TrueIn(job'[j].progress, j, products', items', quotes', approved')
  PROVE  QueueOK'
<1>1. run' \in [Worker -> Run]
  BY DEF QueueOK
<1>2. RunsOK'
  <2> SUFFICES ASSUME NEW v \in Worker
               PROVE  RunOK(run'[v], products', items', quotes', approved')
    BY DEF RunsOK
  <2>1. CASE v = w
    BY <2>1 DEF QueueOK
  <2>2. CASE v # w
    <3>1. run'[v] = run[v]
      BY <2>2 DEF QueueOK
    <3>2. RunOK(run[v], products, items, quotes, approved)
      BY DEF QueueOK, RunsOK
    <3> QED
      BY <3>1, <3>2, RunGrows DEF Grows
  <2> QED
    BY <2>1, <2>2
<1>3. JobsOK'
  BY TrueGrows DEF Grows, JobsOK, QueueOK
<1> QED
  BY <1>1, <1>2, <1>3 DEF QueueOK

\* A run goes on and leaves the queue alone.
LEMMA MoveStep ==
  ASSUME QueueOK, Grows, NEW w \in Worker, NEW r \in Run,
         run' = [run EXCEPT ![w] = r], job' = job,
         RunOK(r, products', items', quotes', approved')
  PROVE  QueueOK'
<1>1. job' \in [Job -> JobRecord] /\ \A j \in Job : job'[j].progress = job[j].progress
  BY DEF QueueOK
<1> QED
  BY <1>1, RunStep

\* The queue changes a job under the runs, keeping its progress or dropping it.
LEMMA JobStep ==
  ASSUME QueueOK, Grows, run' = run, job' \in [Job -> JobRecord],
         \A j \in Job : job'[j].progress \in {job[j].progress, NoProgress}
  PROVE  QueueOK'
<1>1. RunsOK'
  BY RunGrows DEF Grows, RunsOK, QueueOK
<1>2. JobsOK'
  BY TrueGrows, NoProgressTrue DEF Grows, JobsOK, QueueOK
<1> QED
  BY <1>1, <1>2 DEF QueueOK

\* A step that makes no call leaves HubSpot as it was.
LEMMA HubQuiet ==
  ASSUME HubOK, UNCHANGED hubspot
  PROVE  HubOK' /\ Grows
BY DEF HubOK, HubTypeOK, IdsOK, DealShowsApprovedQuote, Grows, hubspot

-----------------------------------------------------------------------------
\* How a call changes HubSpot

\* The next offer and its product exist while the lists are short enough.
LEMMA NextTypes ==
  ASSUME NEW r \in Run
  PROVE  /\ Len(r.productIds) < Len(r.sel) => NextSku(r) \in Sku
         /\ (Len(r.productIds) = Len(r.sel) /\ Len(r.itemIds) < Len(r.sel)) =>
              /\ NextOffer(r) \in PricedOffer /\ NextProduct(r) \in Nat
              /\ NextOffer(r) = r.sel[Len(r.itemIds) + 1]
<1>1. /\ r.sel \in Seq(PricedOffer) /\ r.productIds \in Seq(Nat) /\ r.itemIds \in Seq(Nat)
      /\ Len(r.sel) \in Nat /\ Len(r.productIds) \in Nat /\ Len(r.itemIds) \in Nat
  BY DEF Run
<1>2. ASSUME Len(r.productIds) < Len(r.sel) PROVE NextSku(r) \in Sku
  <2>1. r.sel[Len(r.productIds) + 1] \in PricedOffer
    BY <1>1, <1>2
  <2> QED
    BY <2>1, ConstantsAssumption DEF NextSku, PricedOffer
<1>3. ASSUME Len(r.productIds) = Len(r.sel), Len(r.itemIds) < Len(r.sel)
      PROVE  NextOffer(r) \in PricedOffer /\ NextProduct(r) \in Nat
  BY <1>1, <1>3 DEF NextOffer, NextProduct
<1> QED
  BY <1>2, <1>3 DEF NextOffer

\* A call that takes effect keeps HubSpot consistent, and makes what it says.
LEMMA EffectOK ==
  ASSUME QueueOK, HubOK, NEW w \in Worker, Effect(w)
  PROVE  /\ HubOK' /\ Grows
         /\ At(w, "new_product") =>
              [id |-> nextId, sku |-> NextSku(run[w])] \in products'
         /\ At(w, "new_item") => \E i \in items' :
              /\ i.id = nextId /\ i.job = run[w].job /\ i.product = NextProduct(run[w])
              /\ i.offer = NextOffer(run[w]).offer
         /\ At(w, "new_quote") =>
              [id |-> nextId, job |-> run[w].job, items |-> IdSet(run[w].itemIds)] \in quotes'
         /\ At(w, "approve") => run[w].made \in approved'
<1> DEFINE r == run[w]
<1>1. r.pc \in Writes
  BY DEF Effect, At, Writes
<1>2. r.job \in Job /\ r \in Run
  BY <1>1, RunningJob DEF Writes
<1>3. RunOK(r, products, items, quotes, approved) /\ r.pc # "idle"
  BY <1>1 DEF QueueOK, RunsOK, Writes
<1>4. Lengths(r) /\ ItemsMatch(r, items) /\ MadeExists(r, products, items, quotes, approved)
  BY <1>3 DEF RunOK
<1>5. HubTypeOK /\ IdsOK /\ DealShowsApprovedQuote
  BY DEF HubOK
<1>6. nextId \in Nat \ {0} /\ nextId + 1 \in Nat \ {0}
  BY <1>5 DEF HubTypeOK
<1>7. CASE At(w, "normalize")
  <2>1. /\ deal' = [deal EXCEPT !.input = r.job]
        /\ UNCHANGED <<products, items, quotes, approved, nextId, orphans>>
    BY <1>7, <1>2 DEF Effect, At, UpdateDeal
  <2>2. /\ deal'.status = deal.status /\ deal'.quote = deal.quote /\ deal'.link = deal.link
    BY <1>5, <2>1 DEF HubTypeOK
  <2>3. HubTypeOK'
    BY <1>2, <1>5, <2>1 DEF HubTypeOK
  <2>4. IdsOK'
    BY <1>5, <2>1 DEF IdsOK
  <2>5. DealShowsApprovedQuote'
    BY <1>5, <2>1, <2>2 DEF DealShowsApprovedQuote
  <2> QED
    BY <1>7, <2>1, <2>3, <2>4, <2>5 DEF HubOK, Grows, At
<1>8. CASE At(w, "unavailable")
  <2>1. /\ deal' = [deal EXCEPT !.status = "no_availability"]
        /\ UNCHANGED <<products, items, quotes, approved, nextId, orphans>>
    BY <1>8 DEF Effect, At, UpdateDeal
  <2>2. deal'.status = "no_availability" /\ deal'.quote = deal.quote /\ deal'.link = deal.link
    BY <1>5, <2>1 DEF HubTypeOK
  <2>3. HubTypeOK'
    BY <1>5, <2>1 DEF HubTypeOK
  <2>4. IdsOK'
    BY <1>5, <2>1 DEF IdsOK
  <2>5. DealShowsApprovedQuote'
    BY <1>5, <2>1, <2>2 DEF DealShowsApprovedQuote
  <2> QED
    BY <1>8, <2>1, <2>3, <2>4, <2>5 DEF HubOK, Grows, At
<1>9. CASE At(w, "new_product")
  <2>1. /\ products' = products \cup {[id |-> nextId, sku |-> NextSku(r)]}
        /\ nextId' = nextId + 1
        /\ UNCHANGED <<items, quotes, approved, deal, orphans>>
    BY <1>9 DEF Effect, At, CreateProduct
  <2>2. NextSku(r) \in Sku
    BY <1>2, <1>4, <1>9, NextTypes DEF Lengths, ProductPCs, At
  <2>3. HubTypeOK'
    BY <1>5, <1>6, <2>1, <2>2 DEF HubTypeOK
  <2>4. IdsOK'
    BY <1>5, <1>6, <2>1 DEF IdsOK, HubTypeOK
  <2>5. DealShowsApprovedQuote'
    BY <1>5, <2>1 DEF DealShowsApprovedQuote
  <2> QED
    BY <1>9, <2>1, <2>3, <2>4, <2>5 DEF HubOK, Grows, At
<1>10. CASE At(w, "new_item")
  <2> DEFINE i == [id |-> nextId, job |-> r.job, product |-> NextProduct(r),
                   offer |-> NextOffer(r).offer, price |-> NextOffer(r).price]
  <2>1. /\ items' = items \cup {i}
        /\ nextId' = nextId + 1 /\ orphans' \subseteq orphans \cup {nextId}
        /\ UNCHANGED <<products, quotes, approved, deal>>
    BY <1>10 DEF Effect, At, CreateLineItem, Orphan
  <2>2. NextOffer(r) \in PricedOffer /\ NextProduct(r) \in Nat
    BY <1>2, <1>4, <1>10, NextTypes DEF Lengths, ItemPCs, At
  <2>3. i \in [id: Nat, job: Job, product: Nat, offer: Offer, price: Price]
    BY <1>2, <1>6, <2>2 DEF PricedOffer
  <2>4. HubTypeOK'
    BY <1>5, <1>6, <2>1, <2>3 DEF HubTypeOK
  <2>5. IdsOK'
    BY <1>5, <1>6, <2>1 DEF IdsOK, HubTypeOK
  <2>6. DealShowsApprovedQuote'
    BY <1>5, <2>1 DEF DealShowsApprovedQuote
  <2>7. /\ i \in items' /\ i.id = nextId /\ i.job = r.job /\ i.product = NextProduct(r)
        /\ i.offer = NextOffer(r).offer
    BY <2>1
  <2> QED
    BY <1>10, <2>1, <2>4, <2>5, <2>6, <2>7 DEF HubOK, Grows, At
<1>11. CASE At(w, "new_quote")
  <2> DEFINE q == [id |-> nextId, job |-> r.job, items |-> IdSet(r.itemIds)]
  <2>1. /\ quotes' = quotes \cup {q}
        /\ nextId' = nextId + 1 /\ orphans' \subseteq orphans \cup {nextId}
        /\ UNCHANGED <<products, items, approved, deal>>
    BY <1>11 DEF Effect, At, CreateQuote, Orphan
  <2>2. r.itemIds \in Seq(Nat) /\ r.itemIds # <<>>
    BY <1>2, <1>4, <1>11 DEF Run, Lengths, QuotePCs, At
  <2>3. IdSet(r.itemIds) \in SUBSET Nat /\ r.itemIds[1] \in IdSet(r.itemIds)
    BY <2>2 DEF IdSet
  <2>4. IdSet(r.itemIds) \subseteq {i.id : i \in items}
    BY <1>4 DEF IdSet, ItemsMatch
  <2>5. q \in [id: Nat, job: Job, items: SUBSET Nat]
    BY <1>2, <1>6, <2>3
  <2>6. HubTypeOK'
    BY <1>5, <1>6, <2>1, <2>5 DEF HubTypeOK
  <2>7. \A q1 \in quotes' : /\ q1.id # 0 /\ q1.id < nextId'
                            /\ q1.items # {} /\ q1.items \subseteq {i.id : i \in items'}
    BY <1>5, <1>6, <2>1, <2>3, <2>4 DEF IdsOK, HubTypeOK
  <2>8. \A q1, q2 \in quotes' : q1.id = q2.id => q1 = q2
    BY <1>5, <1>6, <2>1 DEF IdsOK, HubTypeOK
  <2>9. IdsOK'
    BY <1>5, <1>6, <2>1, <2>7, <2>8 DEF IdsOK, HubTypeOK
  <2>10. DealShowsApprovedQuote'
    BY <1>5, <2>1 DEF DealShowsApprovedQuote
  <2> QED
    BY <1>11, <2>1, <2>6, <2>9, <2>10 DEF HubOK, Grows, At
<1>12. CASE At(w, "approve")
  <2>1. /\ approved' = approved \cup {r.made}
        /\ UNCHANGED <<products, items, quotes, deal, nextId, orphans>>
    BY <1>12 DEF Effect, At, ApproveQuote
  <2>2. [id |-> r.made, job |-> r.job, items |-> IdSet(r.itemIds)] \in quotes
    BY <1>4, <1>12 DEF MadeExists, At
  <2>3. HubTypeOK'
    BY <1>2, <1>5, <2>1 DEF HubTypeOK, Run
  <2>4. IdsOK'
    BY <1>5, <2>1, <2>2 DEF IdsOK
  <2>5. DealShowsApprovedQuote'
    BY <1>5, <2>1 DEF DealShowsApprovedQuote
  <2> QED
    BY <1>12, <2>1, <2>3, <2>4, <2>5 DEF HubOK, Grows, At
<1>13. CASE At(w, "publish")
  <2>1. /\ deal' = Published(r)
        /\ UNCHANGED <<products, items, quotes, approved, nextId, orphans>>
    BY <1>13 DEF Effect, At, UpdateDeal
  <2>2. /\ [id |-> r.made, job |-> r.job, items |-> IdSet(r.itemIds)] \in quotes
        /\ r.made \in approved /\ r.made \in Nat
    BY <1>2, <1>4, <1>13 DEF MadeExists, At, Run
  <2>3. r.made # 0
    BY <1>5, <2>2 DEF IdsOK
  <2>4. /\ deal'.status = "available" /\ deal'.quote = r.made
        /\ deal'.link \in {r.made, deal.link} /\ deal'.input = deal.input
        /\ deal' \in [status: {"unset", "available", "no_availability"},
                      quote: Nat, link: Nat, input: Job \cup {None}]
    BY <1>5, <2>1, <2>2 DEF HubTypeOK, Published
  <2>5. HubTypeOK'
    BY <1>5, <2>1, <2>4 DEF HubTypeOK
  <2>6. IdsOK'
    BY <1>5, <2>1 DEF IdsOK
  <2>7. DealShowsApprovedQuote'
    BY <1>5, <2>1, <2>2, <2>3, <2>4 DEF DealShowsApprovedQuote
  <2> QED
    BY <1>13, <2>1, <2>5, <2>6, <2>7 DEF HubOK, Grows, At
<1> QED
  BY <1>7, <1>8, <1>9, <1>10, <1>11, <1>12, <1>13 DEF Effect

-----------------------------------------------------------------------------
\* How a run goes on

EarlyPCs == {"begin", "verify", "normalize", "search", "unavailable"}

\* Two runs of the same job that have come as far.
SameLists(r, r2) ==
  /\ r2.job = r.job /\ r2.saved = r.saved /\ r2.sel = r.sel
  /\ r2.productIds = r.productIds /\ r2.itemIds = r.itemIds

\* Moving within a phase of the pipeline keeps what the run knows.
LEMMA JumpOK ==
  ASSUME NEW P, NEW I, NEW Q, NEW A, NEW r, NEW r2,
         RunOK(r, P, I, Q, A), r.pc # "idle", SameLists(r, r2),
         \/ r.pc \in EarlyPCs /\ r2.pc \in EarlyPCs
         \/ r.pc \in ProductPCs /\ r2.pc \in ProductPCs
         \/ r.pc \in ItemPCs /\ r2.pc \in ItemPCs
         \/ r.pc \in QuotePCs /\ r2.pc \in QuotePCs,
         MadeExists(r2, P, I, Q, A)
  PROVE  RunOK(r2, P, I, Q, A)
<1>1. r2.pc # "idle"
  BY DEF EarlyPCs, ProductPCs, ItemPCs, QuotePCs
<1>2. Lengths(r2)
  BY DEF RunOK, Lengths, SameLists, EarlyPCs, ProductPCs, ItemPCs, QuotePCs
<1>3. ItemsMatch(r2, I)
  BY DEF RunOK, ItemsMatch, SameLists
<1> QED
  BY <1>1, <1>2, <1>3 DEF RunOK, SameLists

\* What GoTo and Within leave alone.
LEMMA GoToFields ==
  ASSUME NEW r \in Run, NEW pc \in PC
  PROVE  /\ GoTo(r, pc) \in Run /\ GoTo(r, pc).pc = pc
         /\ SameLists(r, GoTo(r, pc)) /\ GoTo(r, pc).made = r.made
         /\ Within(r, pc) \in Run /\ Within(r, pc).pc = pc
         /\ SameLists(r, Within(r, pc)) /\ Within(r, pc).made = r.made
<1>1. /\ GoTo(r, pc) \in Run /\ GoTo(r, pc).pc = pc
      /\ SameLists(r, GoTo(r, pc)) /\ GoTo(r, pc).made = r.made
  BY DEF GoTo, Run, SameLists
<1>2. /\ Within(r, pc) \in Run /\ Within(r, pc).pc = pc
      /\ SameLists(r, Within(r, pc)) /\ Within(r, pc).made = r.made
  BY DEF Within, Run, SameLists
<1> QED
  BY <1>1, <1>2

LEMMA MadeFields ==
  ASSUME NEW r, NEW r2 \in Run, SameLists(r, r2), NEW m \in Nat
  PROVE  LET s == [r2 EXCEPT !.made = m] IN
           s \in Run /\ s.pc = r2.pc /\ SameLists(r, s) /\ s.made = m
BY DEF Run, SameLists

LEMMA LinkFields ==
  ASSUME NEW r, NEW r2 \in Run, SameLists(r, r2), NEW l \in BOOLEAN
  PROVE  LET s == [r2 EXCEPT !.link = l] IN
           s \in Run /\ s.pc = r2.pc /\ SameLists(r, s) /\ s.made = r2.made
BY DEF Run, SameLists

LEMMA TriesFields ==
  ASSUME NEW r \in Run
  PROVE  LET s == [r EXCEPT !.tries = @ + 1] IN
           s \in Run /\ s.pc = r.pc /\ SameLists(r, s) /\ s.made = r.made
<1>1. r.tries + 1 \in Nat
  BY DEF Run
<1> QED
  BY <1>1 DEF Run, SameLists

\* A run may take over another record of progress that is true.
LEMMA SavedOK ==
  ASSUME NEW P, NEW I, NEW Q, NEW A, NEW r \in Run, RunOK(r, P, I, Q, A),
         r.pc # "idle", NEW p \in Progress, TrueIn(p, r.job, P, I, Q, A)
  PROVE  [r EXCEPT !.saved = p] \in Run /\ RunOK([r EXCEPT !.saved = p], P, I, Q, A)
<1> DEFINE s == [r EXCEPT !.saved = p]
<1>1. /\ s \in Run /\ s.pc = r.pc /\ s.job = r.job /\ s.saved = p /\ s.sel = r.sel
      /\ s.productIds = r.productIds /\ s.itemIds = r.itemIds /\ s.made = r.made
  BY DEF Run
<1> HIDE DEF s
<1>2. Lengths(s) /\ ItemsMatch(s, I)
  BY <1>1 DEF RunOK, Lengths, ItemsMatch
<1>3. MadeExists(s, P, I, Q, A)
  BY <1>1 DEF RunOK, MadeExists, NextSku, NextProduct, NextOffer
<1>4. RunOK(s, P, I, Q, A)
  BY <1>1, <1>2, <1>3 DEF RunOK
<1> QED
  BY <1>1, <1>4 DEF s

\* The product of the next offer is known: on to the next, or to the line items.
LEMMA HaveProductOK ==
  ASSUME NEW P, NEW I, NEW Q, NEW A, NEW r \in Run, RunOK(r, P, I, Q, A),
         r.pc \in ProductPCs, NEW id \in Nat
  PROVE  /\ HaveProduct(r, id) \in Run /\ RunOK(HaveProduct(r, id), P, I, Q, A)
         /\ HaveProduct(r, id).pc # "idle" /\ HaveProduct(r, id).job = r.job
<1> DEFINE ids == Append(r.productIds, id)
           s == HaveProduct(r, id)
<1>1. /\ r.productIds \in Seq(Nat) /\ r.sel \in Seq(PricedOffer) /\ r.pc # "idle"
      /\ r.itemIds = <<>> /\ Len(r.productIds) < Len(r.sel)
  BY DEF Run, RunOK, Lengths, ProductPCs
<1>2. /\ ids \in Seq(Nat) /\ Len(ids) <= Len(r.sel) /\ Len(r.sel) > 0
      /\ Len(ids) \in Nat /\ Len(r.sel) \in Nat
  BY <1>1
<1>3. /\ s \in Run /\ s.pc = (IF Len(ids) = Len(r.sel) THEN "item" ELSE "product")
      /\ s.job = r.job /\ s.saved = r.saved /\ s.sel = r.sel
      /\ s.productIds = ids /\ s.itemIds = <<>>
  BY <1>1, <1>2 DEF HaveProduct, GoTo, Run, PC
<1> HIDE DEF ids, s
<1>4. s.pc \in {"item", "product"} /\ s.pc # "idle"
  BY <1>3
<1>5. Lengths(s)
  BY <1>2, <1>3, <1>4 DEF Lengths, ProductPCs, ItemPCs, QuotePCs
<1>6. ItemsMatch(s, I)
  BY <1>3 DEF ItemsMatch
<1>7. MadeExists(s, P, I, Q, A)
  BY <1>4 DEF MadeExists
<1>8. RunOK(s, P, I, Q, A)
  BY <1>1, <1>3, <1>4, <1>5, <1>6, <1>7 DEF RunOK
<1> QED
  BY <1>3, <1>4, <1>8 DEF s

\* The line item of the next offer is known: on to the next, or to the quote.
LEMMA HaveItemOK ==
  ASSUME NEW P, NEW I, NEW Q, NEW A, NEW r \in Run, RunOK(r, P, I, Q, A),
         r.pc \in ItemPCs, NEW id \in Nat,
         \E i \in I : i.id = id /\ i.job = r.job /\ i.offer = NextOffer(r).offer
  PROVE  /\ HaveItem(r, id) \in Run /\ RunOK(HaveItem(r, id), P, I, Q, A)
         /\ HaveItem(r, id).pc # "idle" /\ HaveItem(r, id).job = r.job
<1> DEFINE ids == Append(r.itemIds, id)
           s == HaveItem(r, id)
<1>1. /\ r.itemIds \in Seq(Nat) /\ r.sel \in Seq(PricedOffer) /\ r.pc # "idle"
      /\ Len(r.productIds) = Len(r.sel) /\ Len(r.itemIds) < Len(r.sel)
  BY DEF Run, RunOK, Lengths, ItemPCs
<1>2. /\ ids \in Seq(Nat) /\ Len(ids) <= Len(r.sel) /\ Len(ids) = Len(r.itemIds) + 1
      /\ Len(ids) \in Nat /\ Len(r.sel) \in Nat /\ ids # <<>>
      /\ \A n \in 1..Len(r.itemIds) : ids[n] = r.itemIds[n]
      /\ ids[Len(r.itemIds) + 1] = id
  BY <1>1
<1>3. /\ s \in Run /\ s.pc = (IF Len(ids) = Len(r.sel) THEN "quote" ELSE "item")
      /\ s.job = r.job /\ s.saved = r.saved /\ s.sel = r.sel
      /\ s.productIds = r.productIds /\ s.itemIds = ids
  BY <1>1, <1>2 DEF HaveItem, GoTo, Run, PC
<1>4. \A n \in 1..Len(r.itemIds) : \E i \in I :
        i.id = ids[n] /\ i.job = r.job /\ i.offer = r.sel[n].offer
  BY <1>1, <1>2 DEF RunOK, ItemsMatch
<1>5. \E i \in I : /\ i.id = ids[Len(r.itemIds) + 1] /\ i.job = r.job
                   /\ i.offer = r.sel[Len(r.itemIds) + 1].offer
  BY <1>2 DEF NextOffer
<1>6. \A n \in 1..Len(ids) : n \in 1..Len(r.itemIds) \/ n = Len(r.itemIds) + 1
  BY <1>1, <1>2
<1> HIDE DEF ids, s
<1>7. s.pc \in {"item", "quote"} /\ s.pc # "idle"
  BY <1>3
<1>8. Lengths(s)
  BY <1>1, <1>2, <1>3, <1>7 DEF Lengths, ProductPCs, ItemPCs, QuotePCs
<1>9. ItemsMatch(s, I)
  BY <1>3, <1>4, <1>5, <1>6 DEF ItemsMatch
<1>10. MadeExists(s, P, I, Q, A)
  BY <1>7 DEF MadeExists
<1>11. RunOK(s, P, I, Q, A)
  BY <1>1, <1>3, <1>7, <1>8, <1>9, <1>10 DEF RunOK
<1> QED
  BY <1>3, <1>7, <1>11 DEF s

-----------------------------------------------------------------------------
\* Steps that make no call that succeeds: HubSpot stays as it was

LEMMA MoveQuietly ==
  ASSUME QueueOK, HubOK, UNCHANGED hubspot, NEW w \in Worker, NEW r \in Run,
         run' = [run EXCEPT ![w] = r], job' = job,
         RunOK(r, products, items, quotes, approved)
  PROVE  QueueOK' /\ HubOK'
<1>1. HubOK' /\ Grows
  BY HubQuiet
<1>2. RunOK(r, products', items', quotes', approved')
  BY DEF hubspot
<1> QED
  BY <1>1, <1>2, MoveStep

LEMMA LeaveQuietly ==
  ASSUME QueueOK, HubOK, UNCHANGED hubspot, NEW w \in Worker, run[w].pc # "idle",
         NEW state \in JobState, Leave(w, state)
  PROVE  QueueOK' /\ HubOK'
BY HubQuiet, LeaveStep

\* Each way a run can end.
LEMMA EndsLeave ==
  ASSUME NEW w \in Worker, Return(w) \/ ThrowPermanent(w) \/ ThrowRetryable(w)
  PROVE  \E state \in JobState : Leave(w, state)
BY DEF Return, ThrowPermanent, ThrowRetryable, JobState

LEMMA EndQuietly ==
  ASSUME QueueOK, HubOK, UNCHANGED hubspot, NEW w \in Worker, run[w].pc # "idle",
         Return(w) \/ ThrowPermanent(w) \/ ThrowRetryable(w)
  PROVE  QueueOK' /\ HubOK'
BY EndsLeave, LeaveQuietly

\* The same call again, or the end of the run.
LEMMA RetryOK ==
  ASSUME QueueOK, NEW w \in Worker, run[w].pc # "idle", RetryCall(w)
  PROVE  \/ \E state \in JobState : Leave(w, state)
         \/ \E r \in Run : /\ run' = [run EXCEPT ![w] = r] /\ job' = job
                           /\ SameLists(run[w], r) /\ r.pc = run[w].pc /\ r.made = run[w].made
<1>1. run[w] \in Run
  BY DEF QueueOK
<1>2. CASE run[w].tries + 1 < MaxTries
  <2> DEFINE r == [run[w] EXCEPT !.tries = @ + 1]
  <2>1. run' = [run EXCEPT ![w] = r] /\ job' = job
    BY <1>2 DEF RetryCall, QueueOK
  <2>2. r \in Run /\ SameLists(run[w], r) /\ r.pc = run[w].pc /\ r.made = run[w].made
    BY <1>1, TriesFields
  <2> QED
    BY <2>1, <2>2
<1>3. CASE ~(run[w].tries + 1 < MaxTries)
  <2>1. ThrowRetryable(w)
    BY <1>3 DEF RetryCall
  <2> QED
    BY <2>1, EndsLeave
<1> QED
  BY <1>2, <1>3

\* A run in the same place knows the same.
LEMMA SamePlace ==
  ASSUME NEW P, NEW I, NEW Q, NEW A, NEW r, NEW r2,
         RunOK(r, P, I, Q, A), r.pc # "idle", SameLists(r, r2), r2.pc = r.pc, r2.made = r.made
  PROVE  RunOK(r2, P, I, Q, A)
<1>1. Lengths(r2) /\ ItemsMatch(r2, I)
  BY DEF RunOK, SameLists, Lengths, ItemsMatch
<1>2. MadeExists(r2, P, I, Q, A)
  BY DEF RunOK, SameLists, MadeExists, NextSku, NextProduct, NextOffer
<1> QED
  BY <1>1, <1>2 DEF RunOK, SameLists

\* The ghost only ever names jobs.
LEMMA LoseOK ==
  ASSUME IInv, NEW w \in Worker, NEW created, run[w].pc # "idle", Lose(w, created)
  PROVE  lost' \subseteq Job
<1>1. run[w].job \in Job /\ lost \subseteq Job
  BY RunningJob DEF IInv, CountersOK
<1> QED
  BY <1>1 DEF Lose

\* What holds of a run that is not idle.
LEMMA RunFacts ==
  ASSUME IInv, NEW w \in Worker, run[w].pc # "idle"
  PROVE  /\ QueueOK /\ HubOK /\ CountersOK
         /\ run[w] \in Run /\ run[w].job \in Job /\ job[run[w].job] \in JobRecord
         /\ RunOK(run[w], products, items, quotes, approved)
         /\ TrueIn(run[w].saved, run[w].job, products, items, quotes, approved)
         /\ Lengths(run[w]) /\ ItemsMatch(run[w], items)
         /\ MadeExists(run[w], products, items, quotes, approved)
<1>1. QueueOK /\ HubOK /\ CountersOK
  BY DEF IInv
<1>2. run[w] \in Run /\ run[w].job \in Job /\ job[run[w].job] \in JobRecord
  BY <1>1, RunningJob
<1>3. RunOK(run[w], products, items, quotes, approved)
  BY <1>1 DEF QueueOK, RunsOK
<1> QED
  BY <1>1, <1>2, <1>3 DEF RunOK

LEMMA BeginOK ==
  ASSUME IInv, NEW w \in Worker, Begin(w)
  PROVE  IInv'
<1>1. At(w, "begin") /\ UNCHANGED <<hubspot, retries, faults, lost>> /\ run[w].pc # "idle"
  BY DEF Begin, At
<1>2. ThrowPermanent(w) \/ Return(w) \/
        (run' = [run EXCEPT ![w] = GoTo(run[w], "verify")] /\ job' = job)
  BY RunFacts, <1>1 DEF Begin, QueueOK
<1>3. QueueOK' /\ HubOK'
  <2>1. CASE ThrowPermanent(w) \/ Return(w)
    BY <1>1, <2>1, RunFacts, EndQuietly
  <2>2. CASE run' = [run EXCEPT ![w] = GoTo(run[w], "verify")] /\ job' = job
    <3> DEFINE r == GoTo(run[w], "verify")
    <3>1. r \in Run /\ r.pc = "verify" /\ SameLists(run[w], r)
      BY <1>1, RunFacts, GoToFields DEF PC, Calls, Reads
    <3>2. RunOK(r, products, items, quotes, approved)
      <4>1. MadeExists(r, products, items, quotes, approved)
        BY <3>1 DEF MadeExists
      <4> QED
        BY <1>1, <3>1, <4>1, RunFacts, JumpOK DEF EarlyPCs, At
    <3> QED
      BY <1>1, <2>2, <3>1, <3>2, RunFacts, MoveQuietly
  <2> QED
    BY <1>2, <2>1, <2>2
<1> QED
  BY <1>1, <1>3, RunFacts DEF IInv, CountersOK

LEMMA VerifyOK ==
  ASSUME IInv, NEW w \in Worker, Verify(w)
  PROVE  IInv'
<1>1. At(w, "verify") /\ UNCHANGED <<hubspot, retries, faults, lost>> /\ run[w].pc # "idle"
  BY DEF Verify, At
<1>2. ThrowPermanent(w) \/ (run' = [run EXCEPT ![w] = GoTo(run[w], "normalize")] /\ job' = job)
  BY RunFacts, <1>1 DEF Verify, QueueOK
<1>3. QueueOK' /\ HubOK'
  <2>1. CASE ThrowPermanent(w)
    BY <1>1, <2>1, RunFacts, EndQuietly
  <2>2. CASE run' = [run EXCEPT ![w] = GoTo(run[w], "normalize")] /\ job' = job
    <3> DEFINE r == GoTo(run[w], "normalize")
    <3>1. r \in Run /\ r.pc = "normalize" /\ SameLists(run[w], r)
      BY <1>1, RunFacts, GoToFields DEF PC, Calls, Writes
    <3>2. MadeExists(r, products, items, quotes, approved)
      BY <3>1 DEF MadeExists
    <3>3. RunOK(r, products, items, quotes, approved)
      BY <1>1, <3>1, <3>2, RunFacts, JumpOK DEF EarlyPCs, At
    <3> QED
      BY <1>1, <2>2, <3>1, <3>3, RunFacts, MoveQuietly
  <2> QED
    BY <1>2, <2>1, <2>2
<1> QED
  BY <1>1, <1>3, RunFacts DEF IInv, CountersOK

LEMMA SearchOK ==
  ASSUME IInv, NEW w \in Worker, Search(w)
  PROVE  IInv'
<1>1. /\ At(w, "search") /\ UNCHANGED <<job, hubspot, retries, faults, lost>>
      /\ run[w].pc # "idle"
  BY DEF Search, At
<1>2. PICK s \in Selections :
        run' = [run EXCEPT ![w] =
                  [GoTo(run[w], IF s = <<>> THEN "unavailable" ELSE "product") EXCEPT !.sel = s]]
  BY RunFacts, <1>1 DEF Search, QueueOK
<1> DEFINE pc == IF s = <<>> THEN "unavailable" ELSE "product"
           g == GoTo(run[w], pc)
           r == [g EXCEPT !.sel = s]
<1>3. s \in Seq(PricedOffer) /\ (s # <<>> => Len(s) > 0)
  BY ConstantsAssumption
<1>4. pc \in PC /\ pc \in {"unavailable", "product"}
  BY DEF PC, Calls, Writes
<1>5. g \in Run /\ g.pc = pc /\ SameLists(run[w], g)
  BY <1>1, <1>4, RunFacts, GoToFields
<1>6. /\ run[w].productIds = <<>> /\ run[w].itemIds = <<>>
  BY <1>1, RunFacts DEF Lengths, ProductPCs, ItemPCs, QuotePCs, At
<1>7. /\ r \in Run /\ r.pc = pc /\ r.sel = s /\ r.productIds = <<>> /\ r.itemIds = <<>>
      /\ r.job = run[w].job /\ r.saved = run[w].saved
  BY <1>3, <1>5, <1>6 DEF SameLists, Run
<1> HIDE DEF r
<1>8. Lengths(r)
  BY <1>3, <1>4, <1>7 DEF Lengths, ProductPCs, ItemPCs, QuotePCs
<1>9. ItemsMatch(r, items)
  BY <1>7 DEF ItemsMatch
<1>10. MadeExists(r, products, items, quotes, approved)
  BY <1>4, <1>7 DEF MadeExists
<1>11. RunOK(r, products, items, quotes, approved)
  BY <1>1, <1>4, <1>7, <1>8, <1>9, <1>10, RunFacts DEF RunOK
<1>12. run' = [run EXCEPT ![w] = r]
  BY <1>2 DEF r
<1>13. QueueOK' /\ HubOK'
  BY <1>1, <1>7, <1>11, <1>12, RunFacts, MoveQuietly
<1> QED
  BY <1>1, <1>13, RunFacts DEF IInv, CountersOK

LEMMA ProductOK ==
  ASSUME IInv, NEW w \in Worker, Product(w)
  PROVE  IInv'
<1> DEFINE known == {e \in run[w].saved.products : e.sku = NextSku(run[w])}
<1>1. /\ At(w, "product") /\ UNCHANGED <<job, hubspot, retries, faults, lost>>
      /\ run[w].pc # "idle"
  BY DEF Product, At
<1>2. \/ \E e \in known : run' = [run EXCEPT ![w] = HaveProduct(run[w], e.id)]
      \/ run' = [run EXCEPT ![w] = GoTo(run[w], "find")]
  BY RunFacts, <1>1 DEF Product, QueueOK
<1>3. \E r \in Run : /\ run' = [run EXCEPT ![w] = r]
                     /\ RunOK(r, products, items, quotes, approved)
  <2>1. ASSUME NEW e \in known, run' = [run EXCEPT ![w] = HaveProduct(run[w], e.id)]
        PROVE  \E r \in Run : /\ run' = [run EXCEPT ![w] = r]
                              /\ RunOK(r, products, items, quotes, approved)
    <3>1. e.id \in Nat
      BY <1>1, RunFacts DEF Run, Progress, ProductEntry
    <3> QED
      BY <1>1, <2>1, <3>1, RunFacts, HaveProductOK DEF ProductPCs, At
  <2>2. ASSUME run' = [run EXCEPT ![w] = GoTo(run[w], "find")]
        PROVE  \E r \in Run : /\ run' = [run EXCEPT ![w] = r]
                              /\ RunOK(r, products, items, quotes, approved)
    <3> DEFINE r == GoTo(run[w], "find")
    <3>1. r \in Run /\ r.pc = "find" /\ SameLists(run[w], r)
      BY <1>1, RunFacts, GoToFields DEF PC, Calls, Reads
    <3>2. MadeExists(r, products, items, quotes, approved)
      BY <3>1 DEF MadeExists
    <3>3. RunOK(r, products, items, quotes, approved)
      BY <1>1, <3>1, <3>2, RunFacts, JumpOK DEF ProductPCs, At
    <3> QED
      BY <2>2, <3>1, <3>3
  <2> QED
    BY <1>2, <2>1, <2>2
<1>4. QueueOK' /\ HubOK'
  BY <1>1, <1>3, RunFacts, MoveQuietly
<1> QED
  BY <1>1, <1>4, RunFacts DEF IInv, CountersOK

LEMMA FindOK ==
  ASSUME IInv, NEW w \in Worker, Find(w)
  PROVE  IInv'
<1> DEFINE found == {p \in products : p.sku = NextSku(run[w])}
<1>1. /\ At(w, "find") /\ UNCHANGED <<job, hubspot, retries, lost>> /\ run[w].pc # "idle"
  BY DEF Find, At
<1>2. \/ \E p \in found :
           run' = [run EXCEPT ![w] = [GoTo(run[w], "save_product") EXCEPT !.made = p.id]]
      \/ run' = [run EXCEPT ![w] = Within(run[w], "new_product")]
  BY RunFacts, <1>1 DEF Find, QueueOK
<1>3. \E r \in Run : /\ run' = [run EXCEPT ![w] = r]
                     /\ RunOK(r, products, items, quotes, approved)
  <2>1. ASSUME NEW p \in found,
               run' = [run EXCEPT ![w] = [GoTo(run[w], "save_product") EXCEPT !.made = p.id]]
        PROVE  \E r \in Run : /\ run' = [run EXCEPT ![w] = r]
                              /\ RunOK(r, products, items, quotes, approved)
    <3> DEFINE g == GoTo(run[w], "save_product")
               r == [g EXCEPT !.made = p.id]
    <3>1. p \in [id: Nat, sku: Sku] /\ p.id \in Nat /\ p = [id |-> p.id, sku |-> NextSku(run[w])]
      BY <1>1, RunFacts DEF HubOK, HubTypeOK
    <3>2. g \in Run /\ g.pc = "save_product" /\ SameLists(run[w], g)
      BY <1>1, RunFacts, GoToFields DEF PC, Saves
    <3>3. r \in Run /\ r.pc = "save_product" /\ SameLists(run[w], r) /\ r.made = p.id
      BY <3>1, <3>2, MadeFields
    <3> HIDE DEF r
    <3>4. [id |-> r.made, sku |-> NextSku(r)] \in products
      BY <3>1, <3>3 DEF NextSku, SameLists
    <3>5. MadeExists(r, products, items, quotes, approved)
      BY <3>3, <3>4 DEF MadeExists
    <3>6. RunOK(r, products, items, quotes, approved)
      BY <1>1, <3>3, <3>5, RunFacts, JumpOK DEF ProductPCs, At
    <3> QED
      BY <2>1, <3>3, <3>6 DEF r
  <2>2. ASSUME run' = [run EXCEPT ![w] = Within(run[w], "new_product")]
        PROVE  \E r \in Run : /\ run' = [run EXCEPT ![w] = r]
                              /\ RunOK(r, products, items, quotes, approved)
    <3> DEFINE r == Within(run[w], "new_product")
    <3>1. r \in Run /\ r.pc = "new_product" /\ SameLists(run[w], r)
      BY <1>1, RunFacts, GoToFields DEF PC, Calls, Writes
    <3>2. MadeExists(r, products, items, quotes, approved)
      BY <3>1 DEF MadeExists
    <3>3. RunOK(r, products, items, quotes, approved)
      BY <1>1, <3>1, <3>2, RunFacts, JumpOK DEF ProductPCs, At
    <3> QED
      BY <2>2, <3>1, <3>3
  <2> QED
    BY <1>2, <2>1, <2>2
<1>4. QueueOK' /\ HubOK'
  BY <1>1, <1>3, RunFacts, MoveQuietly
<1>5. faults' \in Nat
  BY <1>1, RunFacts DEF Find, Fault, CountersOK
<1> QED
  BY <1>1, <1>4, <1>5, RunFacts DEF IInv, CountersOK

LEMMA ItemOK ==
  ASSUME IInv, NEW w \in Worker, Item(w)
  PROVE  IInv'
<1> DEFINE known == {e \in run[w].saved.items : /\ e.product = NextProduct(run[w])
                                               /\ e.offer = NextOffer(run[w]).offer}
<1>1. /\ At(w, "item") /\ UNCHANGED <<job, hubspot, retries, faults, lost>>
      /\ run[w].pc # "idle"
  BY DEF Item, At
<1>2. \/ \E e \in known : run' = [run EXCEPT ![w] = HaveItem(run[w], e.id)]
      \/ run' = [run EXCEPT ![w] = GoTo(run[w], "new_item")]
  BY RunFacts, <1>1 DEF Item, QueueOK
<1>3. \E r \in Run : /\ run' = [run EXCEPT ![w] = r]
                     /\ RunOK(r, products, items, quotes, approved)
  <2>1. ASSUME NEW e \in known, run' = [run EXCEPT ![w] = HaveItem(run[w], e.id)]
        PROVE  \E r \in Run : /\ run' = [run EXCEPT ![w] = r]
                              /\ RunOK(r, products, items, quotes, approved)
    <3>1. e.id \in Nat
      BY <1>1, RunFacts DEF Run, Progress, ItemEntry
    <3>2. \E i \in items : i.id = e.id /\ i.job = run[w].job /\ i.offer = NextOffer(run[w]).offer
      BY <1>1, RunFacts DEF TrueIn
    <3> QED
      BY <1>1, <2>1, <3>1, <3>2, RunFacts, HaveItemOK DEF ItemPCs, At
  <2>2. ASSUME run' = [run EXCEPT ![w] = GoTo(run[w], "new_item")]
        PROVE  \E r \in Run : /\ run' = [run EXCEPT ![w] = r]
                              /\ RunOK(r, products, items, quotes, approved)
    <3> DEFINE r == GoTo(run[w], "new_item")
    <3>1. r \in Run /\ r.pc = "new_item" /\ SameLists(run[w], r)
      BY <1>1, RunFacts, GoToFields DEF PC, Calls, Writes
    <3>2. MadeExists(r, products, items, quotes, approved)
      BY <3>1 DEF MadeExists
    <3>3. RunOK(r, products, items, quotes, approved)
      BY <1>1, <3>1, <3>2, RunFacts, JumpOK DEF ItemPCs, At
    <3> QED
      BY <2>2, <3>1, <3>3
  <2> QED
    BY <1>2, <2>1, <2>2
<1>4. QueueOK' /\ HubOK'
  BY <1>1, <1>3, RunFacts, MoveQuietly
<1> QED
  BY <1>1, <1>4, RunFacts DEF IInv, CountersOK

LEMMA QuoteOK ==
  ASSUME IInv, NEW w \in Worker, Quote(w)
  PROVE  IInv'
<1> DEFINE known == run[w].saved.quote
<1>1. /\ At(w, "quote") /\ UNCHANGED <<job, hubspot, retries, faults, lost>>
      /\ run[w].pc # "idle"
  BY DEF Quote, At
<1>2. \E r \in Run : /\ run' = [run EXCEPT ![w] = r]
                     /\ RunOK(r, products, items, quotes, approved)
  <2>1. CASE HaveQuote(run[w])
    <3> DEFINE pc == IF known.link THEN "publish" ELSE "repoll"
               g == GoTo(run[w], pc)
               r == [g EXCEPT !.made = known.id, !.link = known.link]
    <3>1. run' = [run EXCEPT ![w] = r]
      BY <1>1, <2>1, RunFacts DEF Quote, QueueOK
    <3>2. /\ known # None /\ known.items = IdSet(run[w].itemIds)
          /\ known.id \in Nat /\ known.link \in BOOLEAN
      BY <1>1, <2>1, RunFacts DEF HaveQuote, Run, Progress, QuoteEntry
    <3>3. /\ [id |-> known.id, job |-> run[w].job, items |-> known.items] \in quotes
          /\ known.id \in approved
      BY <1>1, <3>2, RunFacts DEF TrueIn
    <3>4. pc \in PC /\ pc \in {"publish", "repoll"}
      BY DEF PC, Polls, Calls, Writes
    <3>5. g \in Run /\ g.pc = pc /\ SameLists(run[w], g)
      BY <1>1, <3>4, RunFacts, GoToFields
    <3> HIDE DEF known, pc, g
    <3>6. r \in Run /\ r.pc = pc /\ SameLists(run[w], r) /\ r.made = known.id
      BY <3>2, <3>5 DEF Run, SameLists
    <3> HIDE DEF r
    <3>7. MadeExists(r, products, items, quotes, approved)
      BY <3>2, <3>3, <3>4, <3>6 DEF MadeExists, SameLists
    <3>8. RunOK(r, products, items, quotes, approved)
      BY <1>1, <3>4, <3>6, <3>7, RunFacts, JumpOK DEF QuotePCs, At
    <3> QED
      BY <3>1, <3>6, <3>8
  <2>2. CASE ~HaveQuote(run[w])
    <3> DEFINE r == GoTo(run[w], "new_quote")
    <3>1. run' = [run EXCEPT ![w] = r]
      BY <1>1, <2>2, RunFacts DEF Quote, QueueOK
    <3>2. r \in Run /\ r.pc = "new_quote" /\ SameLists(run[w], r)
      BY <1>1, RunFacts, GoToFields DEF PC, Calls, Writes
    <3>3. MadeExists(r, products, items, quotes, approved)
      BY <3>2 DEF MadeExists
    <3>4. RunOK(r, products, items, quotes, approved)
      BY <1>1, <3>2, <3>3, RunFacts, JumpOK DEF QuotePCs, At
    <3> QED
      BY <3>1, <3>2, <3>4
  <2> QED
    BY <2>1, <2>2
<1>3. QueueOK' /\ HubOK'
  BY <1>1, <1>2, RunFacts, MoveQuietly
<1> QED
  BY <1>1, <1>3, RunFacts DEF IInv, CountersOK

LEMMA PollOK ==
  ASSUME IInv, NEW w \in Worker, Poll(w)
  PROVE  IInv'
<1>1. /\ run[w].pc \in Polls /\ UNCHANGED <<job, hubspot, retries, faults, lost>>
      /\ run[w].pc # "idle"
  BY DEF Poll, Polls
<1> DEFINE pc == IF At(w, "poll") THEN "save_quote" ELSE "publish"
           g == GoTo(run[w], pc)
<1>2. PICK found \in BOOLEAN : run' = [run EXCEPT ![w] = [g EXCEPT !.link = found]]
  BY RunFacts, <1>1 DEF Poll, QueueOK
<1> DEFINE r == [g EXCEPT !.link = found]
<1>3. pc \in PC /\ pc \in {"save_quote", "publish"}
  BY DEF PC, Saves, Calls, Writes
<1>4. g \in Run /\ g.pc = pc /\ SameLists(run[w], g) /\ g.made = run[w].made
  BY <1>1, <1>3, RunFacts, GoToFields
<1>5. r \in Run /\ r.pc = pc /\ SameLists(run[w], r) /\ r.made = run[w].made
  BY <1>4, LinkFields
<1> HIDE DEF r
<1>6. MadeExists(r, products, items, quotes, approved)
  BY <1>1, <1>3, <1>5, RunFacts DEF MadeExists, SameLists, Polls
<1>7. RunOK(r, products, items, quotes, approved)
  BY <1>1, <1>3, <1>5, <1>6, RunFacts, JumpOK DEF QuotePCs, Polls
<1>8. run' = [run EXCEPT ![w] = r]
  BY <1>2 DEF r
<1>9. QueueOK' /\ HubOK'
  BY <1>1, <1>5, <1>7, <1>8, RunFacts, MoveQuietly
<1> QED
  BY <1>1, <1>9, RunFacts DEF IInv, CountersOK

-----------------------------------------------------------------------------
\* Steps that fail

LEMMA LoadTenantFailsOK ==
  ASSUME IInv, NEW w \in Worker, LoadTenantFails(w)
  PROVE  IInv'
<1>1. /\ run[w].pc # "idle" /\ UNCHANGED <<hubspot, retries, lost>> /\ Fault
      /\ ThrowPermanent(w) \/ ThrowRetryable(w)
  BY DEF LoadTenantFails, At
<1>2. QueueOK' /\ HubOK'
  BY <1>1, RunFacts, EndQuietly
<1> QED
  BY <1>1, <1>2, RunFacts DEF IInv, CountersOK, Fault

LEMMA NoTokenOK ==
  ASSUME IInv, NEW w \in Worker, NoToken(w)
  PROVE  IInv'
<1>1. /\ run[w].pc # "idle" /\ UNCHANGED <<hubspot, retries, lost>> /\ Fault
      /\ ThrowPermanent(w) \/ ThrowRetryable(w)
  BY DEF NoToken, Calls, Reads, Writes
<1>2. QueueOK' /\ HubOK'
  BY <1>1, RunFacts, EndQuietly
<1> QED
  BY <1>1, <1>2, RunFacts DEF IInv, CountersOK, Fault

LEMMA SaveFailsOK ==
  ASSUME IInv, NEW w \in Worker, SaveFails(w)
  PROVE  IInv'
<1>1. /\ run[w].pc # "idle" /\ UNCHANGED <<hubspot, retries>> /\ Fault
      /\ ThrowRetryable(w) /\ Lose(w, FALSE)
  BY DEF SaveFails, Saves
<1>2. QueueOK' /\ HubOK'
  BY <1>1, RunFacts, EndQuietly
<1>3. lost' \subseteq Job
  BY <1>1, LoseOK
<1> QED
  BY <1>1, <1>2, <1>3, RunFacts DEF IInv, CountersOK, Fault

LEMMA SaveRefusedOK ==
  ASSUME IInv, NEW w \in Worker, SaveRefused(w)
  PROVE  IInv'
<1>1. /\ run[w].pc # "idle" /\ UNCHANGED <<hubspot, retries, faults>>
      /\ ThrowRetryable(w) /\ Lose(w, FALSE)
  BY DEF SaveRefused, Saves
<1>2. QueueOK' /\ HubOK'
  BY <1>1, RunFacts, EndQuietly
<1>3. lost' \subseteq Job
  BY <1>1, LoseOK
<1> QED
  BY <1>1, <1>2, <1>3, RunFacts DEF IInv, CountersOK

LEMMA CallFailsOK ==
  ASSUME IInv, NEW w \in Worker, CallFails(w)
  PROVE  IInv'
<1>1. /\ run[w].pc # "idle" /\ UNCHANGED <<hubspot, retries>> /\ Fault /\ Lose(w, FALSE)
      /\ RetryCall(w) \/ ThrowPermanent(w)
  BY DEF CallFails, Calls, Reads, Writes
<1>2. \/ \E state \in JobState : Leave(w, state)
      \/ \E r \in Run : /\ run' = [run EXCEPT ![w] = r] /\ job' = job
                        /\ SameLists(run[w], r) /\ r.pc = run[w].pc /\ r.made = run[w].made
  BY <1>1, RunFacts, RetryOK, EndsLeave
<1>3. QueueOK' /\ HubOK'
  BY <1>1, <1>2, RunFacts, LeaveQuietly, SamePlace, MoveQuietly
<1>4. lost' \subseteq Job
  BY <1>1, LoseOK
<1> QED
  BY <1>1, <1>3, <1>4, RunFacts DEF IInv, CountersOK, Fault

LEMMA CallUnauthorizedOK ==
  ASSUME IInv, NEW w \in Worker, CallUnauthorized(w)
  PROVE  IInv'
<1> DEFINE pc == CallbackStart(run[w].pc)
           r == [run[w] EXCEPT !.pc = pc, !.tries = 0, !.reauthed = TRUE]
<1>1. /\ run[w].pc \in Calls /\ UNCHANGED <<job, hubspot, retries>> /\ Fault /\ Lose(w, FALSE)
      /\ run[w].pc # "idle"
  BY DEF CallUnauthorized, Calls, Reads, Writes
<1>2. run' = [run EXCEPT ![w] = r]
  BY <1>1, RunFacts DEF CallUnauthorized, QueueOK
<1>3. /\ run[w].pc = "approve" => pc = "new_quote"
      /\ run[w].pc = "new_product" => pc = "find"
      /\ run[w].pc \notin {"approve", "new_product"} => pc = run[w].pc
  BY DEF CallbackStart
<1>4. pc \in PC
  BY <1>1, <1>3 DEF PC, Calls, Reads, Writes
<1>5. r \in Run /\ r.pc = pc /\ SameLists(run[w], r) /\ r.made = run[w].made
  BY <1>1, <1>4, RunFacts DEF Run, SameLists
<1> HIDE DEF r, pc
<1>6. RunOK(r, products, items, quotes, approved)
  <2>1. CASE run[w].pc \notin {"approve", "new_product"}
    BY <1>1, <1>3, <1>5, <2>1, RunFacts, SamePlace
  <2>2. CASE run[w].pc \in {"approve", "new_product"}
    <3>1. MadeExists(r, products, items, quotes, approved)
      BY <1>3, <1>5, <2>2 DEF MadeExists
    <3> QED
      BY <1>1, <1>3, <1>5, <2>2, <3>1, RunFacts, JumpOK DEF ProductPCs, QuotePCs
  <2> QED
    BY <2>1, <2>2
<1>7. QueueOK' /\ HubOK'
  BY <1>1, <1>2, <1>5, <1>6, RunFacts, MoveQuietly
<1>8. lost' \subseteq Job
  BY <1>1, LoseOK
<1> QED
  BY <1>1, <1>7, <1>8, RunFacts DEF IInv, CountersOK, Fault

LEMMA CrashOK ==
  ASSUME IInv, NEW w \in Worker, Crash(w)
  PROVE  IInv'
<1>1. /\ run[w].pc # "idle" /\ UNCHANGED <<job, hubspot, retries>> /\ Fault /\ Lose(w, FALSE)
      /\ run' = [run EXCEPT ![w] = Idle]
  BY DEF Crash
<1>2. RunOK(Idle, products, items, quotes, approved)
  BY DEF RunOK, Idle
<1>3. QueueOK' /\ HubOK'
  BY <1>1, <1>2, IdleRun, RunFacts, MoveQuietly
<1>4. lost' \subseteq Job
  BY <1>1, LoseOK
<1> QED
  BY <1>1, <1>3, <1>4, RunFacts DEF IInv, CountersOK, Fault

-----------------------------------------------------------------------------
\* The queue's steps

LEMMA TakeOK ==
  ASSUME IInv, NEW w \in Worker, NEW j \in Job, Take(w, j)
  PROVE  IInv'
<1> DEFINE r == [Idle EXCEPT !.job = j, !.pc = "begin", !.saved = job[j].progress]
<1>1. QueueOK /\ HubOK /\ CountersOK /\ UNCHANGED <<hubspot, retries, faults, lost>>
  BY DEF IInv, Take
<1>2. job[j] \in JobRecord /\ job[j].progress \in Progress
  BY <1>1 DEF QueueOK, JobRecord
<1>3. TrueIn(job[j].progress, j, products, items, quotes, approved)
  BY <1>1 DEF QueueOK, JobsOK
<1>4. /\ job' = [job EXCEPT ![j].state = "active", ![j].lock = w]
      /\ run' = [run EXCEPT ![w] = r]
  BY DEF Take
<1>5. /\ r \in Run /\ r.pc = "begin" /\ r.job = j /\ r.saved = job[j].progress
      /\ r.productIds = <<>> /\ r.itemIds = <<>>
  BY <1>2, IdleRun DEF Run, Idle, PC
<1> HIDE DEF r
<1>6. Lengths(r) /\ ItemsMatch(r, items) /\ MadeExists(r, products, items, quotes, approved)
  BY <1>5 DEF Lengths, ItemsMatch, MadeExists, ProductPCs, ItemPCs, QuotePCs
<1>7. RunOK(r, products, items, quotes, approved)
  BY <1>3, <1>5, <1>6 DEF RunOK
<1>8. HubOK' /\ Grows /\ RunOK(r, products', items', quotes', approved')
  BY <1>1, <1>7, HubQuiet DEF hubspot
<1>9. job' \in [Job -> JobRecord] /\ \A k \in Job : job'[k].progress = job[k].progress
  BY <1>1, <1>2, <1>4 DEF QueueOK, JobRecord, JobState
<1>10. QueueOK'
  BY <1>1, <1>4, <1>5, <1>8, <1>9, RunStep
<1> QED
  BY <1>1, <1>8, <1>10 DEF IInv, CountersOK

\* Back to waiting or failed: the progress stays.
LEMMA RequeueOK ==
  ASSUME IInv, NEW j \in Job, Requeue(j), UNCHANGED <<run, hubspot>>
  PROVE  QueueOK' /\ HubOK'
<1>1. QueueOK /\ HubOK
  BY DEF IInv
<1>2. job[j] \in JobRecord /\ job[j].stalls + 1 \in Nat
  BY <1>1 DEF QueueOK, JobRecord
<1>3. PICK state \in JobState :
        job' = [job EXCEPT ![j].state = state, ![j].lock = None, ![j].stalls = @ + 1]
  BY DEF Requeue, JobState
<1>4. job' \in [Job -> JobRecord] /\ \A k \in Job : job'[k].progress = job[k].progress
  BY <1>1, <1>2, <1>3 DEF QueueOK, JobRecord
<1>5. HubOK' /\ Grows
  BY <1>1, HubQuiet
<1> QED
  BY <1>1, <1>4, <1>5, JobStep

LEMMA RecoverStalledOK ==
  ASSUME IInv, NEW j \in Job, RecoverStalled(j)
  PROVE  IInv'
BY RequeueOK DEF RecoverStalled, IInv, CountersOK

LEMMA LockLostOK ==
  ASSUME IInv, NEW j \in Job, LockLost(j)
  PROVE  IInv'
BY RequeueOK DEF LockLost, IInv, CountersOK, Fault

LEMMA AdminRetryOK ==
  ASSUME IInv, NEW j \in Job, AdminRetry(j)
  PROVE  IInv'
<1>1. QueueOK /\ HubOK /\ CountersOK /\ UNCHANGED <<run, hubspot, faults, lost>>
  BY DEF IInv, AdminRetry
<1>2. job' = [job EXCEPT ![j].state = "waiting"]
  BY DEF AdminRetry
<1>3. job' \in [Job -> JobRecord] /\ \A k \in Job : job'[k].progress = job[k].progress
  BY <1>1, <1>2 DEF QueueOK, JobRecord, JobState
<1>4. HubOK' /\ Grows
  BY <1>1, HubQuiet
<1>5. QueueOK'
  BY <1>1, <1>3, <1>4, JobStep
<1>6. retries' \in Nat
  BY <1>1 DEF AdminRetry, CountersOK
<1> QED
  BY <1>1, <1>4, <1>5, <1>6 DEF IInv, CountersOK

LEMMA RemoveOK ==
  ASSUME IInv, NEW j \in Job, Remove(j)
  PROVE  IInv'
<1>1. QueueOK /\ HubOK /\ CountersOK /\ UNCHANGED <<run, hubspot, retries, faults, lost>>
  BY DEF IInv, Remove
<1>2. job' = [job EXCEPT ![j].state = "removed", ![j].progress = NoProgress]
  BY DEF Remove
<1>3. /\ job' \in [Job -> JobRecord]
      /\ \A k \in Job : job'[k].progress \in {job[k].progress, NoProgress}
  BY <1>1, <1>2, NoProgressType DEF QueueOK, JobRecord, JobState
<1>4. HubOK' /\ Grows
  BY <1>1, HubQuiet
<1>5. QueueOK'
  BY <1>1, <1>3, <1>4, JobStep
<1> QED
  BY <1>1, <1>4, <1>5 DEF IInv, CountersOK

-----------------------------------------------------------------------------
\* Steps that write to HubSpot, and steps that record what they wrote

\* The reply is in: the run knows what it made.
LEMMA AfterWriteOK ==
  ASSUME IInv, NEW w \in Worker, Effect(w), run[w].pc \notin {"unavailable", "publish"},
         NEW r, r = AfterWrite(run[w])
  PROVE  r \in Run /\ RunOK(r, products', items', quotes', approved')
<1> DEFINE o == run[w]
<1>1. o.pc \in {"normalize", "new_product", "new_item", "new_quote", "approve"} /\ o.pc # "idle"
  BY DEF Effect, At
<1>2. /\ Grows
      /\ o.pc = "new_product" => [id |-> nextId, sku |-> NextSku(o)] \in products'
      /\ o.pc = "new_item" => \E i \in items' :
           /\ i.id = nextId /\ i.job = o.job /\ i.product = NextProduct(o)
           /\ i.offer = NextOffer(o).offer
      /\ o.pc = "new_quote" =>
           [id |-> nextId, job |-> o.job, items |-> IdSet(o.itemIds)] \in quotes'
      /\ o.pc = "approve" => o.made \in approved'
  BY <1>1, RunFacts, EffectOK DEF At
<1>3. o \in Run /\ RunOK(o, products', items', quotes', approved') /\ nextId \in Nat
  BY <1>1, <1>2, RunFacts, RunGrows DEF Grows, HubOK, HubTypeOK
<1>4. MadeExists(o, products', items', quotes', approved')
  BY <1>1, <1>3 DEF RunOK
<1>5. CASE o.pc = "normalize"
  <2>1. r = GoTo(o, "search")
    BY <1>5 DEF AfterWrite
  <2>2. r \in Run /\ r.pc = "search" /\ SameLists(o, r)
    BY <1>3, <2>1, GoToFields DEF PC, Calls, Reads
  <2>3. MadeExists(r, products', items', quotes', approved')
    BY <2>2 DEF MadeExists
  <2> QED
    BY <1>1, <1>3, <1>5, <2>2, <2>3, JumpOK DEF EarlyPCs
<1>6. CASE o.pc = "new_product"
  <2> DEFINE g == GoTo(o, "save_product")
  <2>1. r = [g EXCEPT !.made = nextId]
    BY <1>6 DEF AfterWrite
  <2>2. g \in Run /\ g.pc = "save_product" /\ SameLists(o, g)
    BY <1>3, GoToFields DEF PC, Saves
  <2>3. r \in Run /\ r.pc = "save_product" /\ SameLists(o, r) /\ r.made = nextId
    BY <1>3, <2>1, <2>2, MadeFields
  <2>4. MadeExists(r, products', items', quotes', approved')
    BY <1>2, <1>6, <2>3 DEF MadeExists, NextSku, SameLists
  <2> QED
    BY <1>1, <1>3, <1>6, <2>3, <2>4, JumpOK DEF ProductPCs
<1>7. CASE o.pc = "new_item"
  <2> DEFINE g == GoTo(o, "save_item")
  <2>1. r = [g EXCEPT !.made = nextId]
    BY <1>7 DEF AfterWrite, AfterItem
  <2>2. g \in Run /\ g.pc = "save_item" /\ SameLists(o, g)
    BY <1>3, GoToFields DEF PC, Saves
  <2>3. r \in Run /\ r.pc = "save_item" /\ SameLists(o, r) /\ r.made = nextId
    BY <1>3, <2>1, <2>2, MadeFields
  <2>4. NextProduct(r) = NextProduct(o) /\ NextOffer(r) = NextOffer(o) /\ r.job = o.job
    BY <2>3 DEF NextProduct, NextOffer, SameLists
  <2>5. MadeExists(r, products', items', quotes', approved')
    BY <1>2, <1>7, <2>3, <2>4 DEF MadeExists
  <2> QED
    BY <1>1, <1>3, <1>7, <2>3, <2>5, JumpOK DEF ItemPCs
<1>8. CASE o.pc = "new_quote"
  <2> DEFINE g == Within(o, "approve")
  <2>1. r = [g EXCEPT !.made = nextId]
    BY <1>8 DEF AfterWrite, AfterQuote
  <2>2. g \in Run /\ g.pc = "approve" /\ SameLists(o, g)
    BY <1>3, GoToFields DEF PC, Calls, Writes
  <2>3. r \in Run /\ r.pc = "approve" /\ SameLists(o, r) /\ r.made = nextId
    BY <1>3, <2>1, <2>2, MadeFields
  <2>4. MadeExists(r, products', items', quotes', approved')
    BY <1>2, <1>8, <2>3 DEF MadeExists, SameLists
  <2> QED
    BY <1>1, <1>3, <1>8, <2>3, <2>4, JumpOK DEF QuotePCs
<1>9. CASE o.pc = "approve"
  <2>1. r = GoTo(o, "poll")
    BY <1>9 DEF AfterWrite
  <2>2. r \in Run /\ r.pc = "poll" /\ SameLists(o, r) /\ r.made = o.made
    BY <1>3, <2>1, GoToFields DEF PC, Polls
  <2>3. MadeExists(r, products', items', quotes', approved')
    BY <1>2, <1>4, <1>9, <2>2 DEF MadeExists, SameLists
  <2> QED
    BY <1>1, <1>3, <1>9, <2>2, <2>3, JumpOK DEF QuotePCs
<1> QED
  BY <1>1, <1>5, <1>6, <1>7, <1>8, <1>9

LEMMA WriteOK ==
  ASSUME IInv, NEW w \in Worker, Write(w)
  PROVE  IInv'
<1>1. /\ run[w].pc \in Writes /\ run[w].pc # "idle" /\ Effect(w)
      /\ UNCHANGED <<retries, faults, lost>>
  BY DEF Write, Writes
<1>2. HubOK' /\ Grows
  BY <1>1, RunFacts, EffectOK
<1>3. QueueOK'
  <2>1. CASE run[w].pc \in {"unavailable", "publish"}
    BY <1>1, <1>2, <2>1, RunFacts, EndsLeave, LeaveStep DEF Write
  <2>2. CASE run[w].pc \notin {"unavailable", "publish"}
    <3> DEFINE r == AfterWrite(run[w])
    <3>1. run' = [run EXCEPT ![w] = r] /\ job' = job
      BY <1>1, <2>2, RunFacts DEF Write, QueueOK
    <3>2. r \in Run /\ RunOK(r, products', items', quotes', approved')
      BY <1>1, <2>2, AfterWriteOK
    <3> QED
      BY <1>1, <1>2, <3>1, <3>2, RunFacts, MoveStep
  <2> QED
    BY <2>1, <2>2
<1> QED
  BY <1>1, <1>2, <1>3, RunFacts DEF IInv, CountersOK

LEMMA ReplyLostOK ==
  ASSUME IInv, NEW w \in Worker, ReplyLost(w)
  PROVE  IInv'
<1>1. /\ run[w].pc \in Writes /\ run[w].pc # "idle" /\ Effect(w) /\ RetryCall(w)
      /\ Fault /\ Lose(w, run[w].pc \in Creates) /\ UNCHANGED retries
  BY DEF ReplyLost, Writes
<1>2. HubOK' /\ Grows
  BY <1>1, RunFacts, EffectOK
<1>3. QueueOK'
  <2>1. ASSUME NEW state \in JobState, Leave(w, state)
        PROVE  QueueOK'
    BY <1>1, <1>2, <2>1, RunFacts, LeaveStep
  <2>2. ASSUME NEW r \in Run, run' = [run EXCEPT ![w] = r], job' = job,
               SameLists(run[w], r), r.pc = run[w].pc, r.made = run[w].made
        PROVE  QueueOK'
    <3>1. RunOK(r, products, items, quotes, approved)
      BY <1>1, <2>2, RunFacts, SamePlace
    <3>2. RunOK(r, products', items', quotes', approved')
      BY <1>2, <3>1, RunGrows DEF Grows
    <3> QED
      BY <1>1, <1>2, <2>2, <3>2, RunFacts, MoveStep
  <2> QED
    BY <1>1, <2>1, <2>2, RunFacts, RetryOK
<1>4. lost' \subseteq Job
  BY <1>1, LoseOK
<1> QED
  BY <1>1, <1>2, <1>3, <1>4, RunFacts DEF IInv, CountersOK, Fault

\* What is recorded is what was made.
LEMMA RecordedOK ==
  ASSUME IInv, NEW w \in Worker, run[w].pc \in Saves
  PROVE  /\ Recorded(run[w]) \in Progress
         /\ TrueIn(Recorded(run[w]), run[w].job, products, items, quotes, approved)
<1> DEFINE r == run[w]
           p == Recorded(r)
<1>1. r.pc \in {"save_product", "save_item", "save_quote"} /\ r.pc # "idle"
  BY DEF Saves
<1>2. /\ r \in Run /\ r.saved \in Progress /\ r.made \in Nat /\ r.link \in BOOLEAN
      /\ r.itemIds \in Seq(Nat)
      /\ Lengths(r) /\ MadeExists(r, products, items, quotes, approved)
      /\ TrueIn(r.saved, r.job, products, items, quotes, approved)
  BY <1>1, RunFacts DEF Run
<1>3. CASE r.pc = "save_product"
  <2> DEFINE e == [sku |-> NextSku(r), id |-> r.made]
  <2>1. p = [r.saved EXCEPT !.products = @ \cup {e}]
    BY <1>3 DEF Recorded
  <2>2. e \in ProductEntry
    BY <1>2, <1>3, NextTypes DEF ProductEntry, Lengths, ProductPCs
  <2>3. [id |-> e.id, sku |-> e.sku] \in products
    BY <1>2, <1>3 DEF MadeExists
  <2> HIDE DEF e, p
  <2>4. /\ p \in Progress /\ p.products = r.saved.products \cup {e}
        /\ p.items = r.saved.items /\ p.quote = r.saved.quote
    BY <1>2, <2>1, <2>2 DEF Progress
  <2>5. TrueIn(p, r.job, products, items, quotes, approved)
    BY <1>2, <2>3, <2>4 DEF TrueIn
  <2> QED
    BY <2>4, <2>5 DEF p
<1>4. CASE r.pc = "save_item"
  <2> DEFINE e == MadeItem(r)
  <2>1. p = [r.saved EXCEPT !.items = @ \cup {e}]
    BY <1>4 DEF Recorded
  <2>2. NextOffer(r) \in PricedOffer /\ NextProduct(r) \in Nat
    BY <1>2, <1>4, NextTypes DEF Lengths, ItemPCs
  <2>3. /\ e \in ItemEntry /\ e.id = r.made /\ e.product = NextProduct(r)
        /\ e.offer = NextOffer(r).offer
    BY <1>2, <2>2 DEF ItemEntry, MadeItem, PricedOffer
  <2>4. \E i \in items : i.id = e.id /\ i.job = r.job /\ i.product = e.product /\ i.offer = e.offer
    BY <1>2, <1>4, <2>3 DEF MadeExists
  <2> HIDE DEF e, p
  <2>5. /\ p \in Progress /\ p.items = r.saved.items \cup {e}
        /\ p.products = r.saved.products /\ p.quote = r.saved.quote
    BY <1>2, <2>1, <2>3 DEF Progress
  <2>6. TrueIn(p, r.job, products, items, quotes, approved)
    BY <1>2, <2>4, <2>5 DEF TrueIn
  <2> QED
    BY <2>5, <2>6 DEF p
<1>5. CASE r.pc = "save_quote"
  <2> DEFINE q == MadeQuote(r)
  <2>1. p = [r.saved EXCEPT !.quote = q]
    BY <1>5 DEF Recorded, WithQuote
  <2>2. IdSet(r.itemIds) \in SUBSET Nat
    BY <1>2 DEF IdSet
  <2>3. q \in QuoteEntry /\ q.id = r.made /\ q.items = IdSet(r.itemIds)
    BY <1>2, <2>2 DEF QuoteEntry, MadeQuote
  <2>4. [id |-> q.id, job |-> r.job, items |-> q.items] \in quotes /\ q.id \in approved
    BY <1>2, <1>5, <2>3 DEF MadeExists
  <2> HIDE DEF q, p
  <2>5. /\ p \in Progress /\ p.quote = q
        /\ p.products = r.saved.products /\ p.items = r.saved.items
    BY <1>2, <2>1, <2>3 DEF Progress
  <2>6. TrueIn(p, r.job, products, items, quotes, approved)
    BY <1>2, <2>4, <2>5 DEF TrueIn
  <2> QED
    BY <2>5, <2>6 DEF p
<1> QED
  BY <1>1, <1>3, <1>4, <1>5

\* After the save the run goes on with the object in its lists.
LEMMA AfterSaveOK ==
  ASSUME IInv, NEW w \in Worker, run[w].pc \in Saves
  PROVE  /\ AfterSave(run[w]) \in Run
         /\ RunOK(AfterSave(run[w]), products, items, quotes, approved)
         /\ AfterSave(run[w]).pc # "idle" /\ AfterSave(run[w]).job = run[w].job
<1> DEFINE r == run[w]
<1>1. r.pc \in {"save_product", "save_item", "save_quote"} /\ r.pc # "idle"
  BY DEF Saves
<1>2. /\ r \in Run /\ r.made \in Nat /\ RunOK(r, products, items, quotes, approved)
      /\ MadeExists(r, products, items, quotes, approved)
  BY <1>1, RunFacts DEF Run
<1>3. CASE r.pc = "save_product"
  <2>1. AfterSave(r) = HaveProduct(r, r.made)
    BY <1>3 DEF AfterSave
  <2> QED
    BY <1>2, <1>3, <2>1, HaveProductOK DEF ProductPCs
<1>4. CASE r.pc = "save_item"
  <2>1. AfterSave(r) = HaveItem(r, r.made)
    BY <1>4 DEF AfterSave
  <2>2. \E i \in items : i.id = r.made /\ i.job = r.job /\ i.offer = NextOffer(r).offer
    BY <1>2, <1>4 DEF MadeExists
  <2> QED
    BY <1>2, <1>4, <2>1, <2>2, HaveItemOK DEF ItemPCs
<1>5. CASE r.pc = "save_quote"
  <2> DEFINE s == GoTo(r, "publish")
  <2>1. AfterSave(r) = s
    BY <1>5 DEF AfterSave
  <2>2. s \in Run /\ s.pc = "publish" /\ SameLists(r, s) /\ s.made = r.made
    BY <1>2, GoToFields DEF PC, Calls, Writes
  <2>3. MadeExists(s, products, items, quotes, approved)
    BY <1>2, <1>5, <2>2 DEF MadeExists, SameLists
  <2>4. RunOK(s, products, items, quotes, approved)
    BY <1>1, <1>2, <1>5, <2>2, <2>3, JumpOK DEF QuotePCs
  <2> QED
    BY <2>1, <2>2, <2>4 DEF SameLists
<1> QED
  BY <1>1, <1>3, <1>4, <1>5

LEMMA SaveOK ==
  ASSUME IInv, NEW w \in Worker, Save(w)
  PROVE  IInv'
<1> DEFINE j == run[w].job
           p == Recorded(run[w])
           a == AfterSave(run[w])
           r == [a EXCEPT !.saved = p]
<1>1. /\ run[w].pc \in Saves /\ run[w].pc # "idle"
      /\ UNCHANGED <<hubspot, retries, faults, lost>>
  BY DEF Save, Saves
<1>2. /\ job' = [job EXCEPT ![j].progress = p]
      /\ run' = [run EXCEPT ![w] = r]
  BY <1>1, RunFacts DEF Save, QueueOK
<1>3. p \in Progress /\ TrueIn(p, j, products, items, quotes, approved)
  BY <1>1, RecordedOK
<1>4. a \in Run /\ RunOK(a, products, items, quotes, approved) /\ a.pc # "idle" /\ a.job = j
  BY <1>1, AfterSaveOK
<1> HIDE DEF p, a
<1>5. r \in Run /\ RunOK(r, products, items, quotes, approved)
  BY <1>3, <1>4, SavedOK
<1>6. HubOK' /\ Grows /\ UNCHANGED <<products, items, quotes, approved>>
  BY <1>1, RunFacts, HubQuiet DEF hubspot
<1>7. job' \in [Job -> JobRecord]
  BY <1>1, <1>2, <1>3, RunFacts DEF QueueOK, JobRecord
<1>8. \A k \in Job : \/ job'[k].progress = job[k].progress
                     \/ TrueIn(job'[k].progress, k, products', items', quotes', approved')
  BY <1>1, <1>2, <1>3, <1>6, RunFacts DEF QueueOK, JobRecord
<1> HIDE DEF r
<1>9. RunOK(r, products', items', quotes', approved')
  BY <1>5, <1>6
<1>10. QueueOK'
  BY <1>1, <1>2, <1>5, <1>6, <1>7, <1>8, <1>9, RunFacts, RunStep
<1> QED
  BY <1>1, <1>6, <1>10, RunFacts DEF IInv, CountersOK

-----------------------------------------------------------------------------
\* The invariant and what follows from it

LEMMA InitOK == Init => IInv
<1> SUFFICES ASSUME Init PROVE IInv
  OBVIOUS
<1>1. PICK payload \in [Job -> Payloads] : job = [j \in Job |-> NewJob(payload[j])]
  BY DEF Init
<1>2. job \in [Job -> JobRecord] /\ \A j \in Job : job[j].progress = NoProgress
  BY <1>1, NoProgressType DEF NewJob, JobRecord, JobState
<1>3. JobsOK
  BY <1>2, NoProgressTrue DEF JobsOK
<1>4. run \in [Worker -> Run] /\ RunsOK
  BY IdleRun DEF Init, RunsOK, RunOK, Idle
<1>5. HubOK
  BY DEF Init, HubOK, HubTypeOK, IdsOK, DealShowsApprovedQuote
<1>6. CountersOK
  BY DEF Init, CountersOK
<1> QED
  BY <1>2, <1>3, <1>4, <1>5, <1>6 DEF IInv, QueueOK

LEMMA NextOK == IInv /\ [Next]_vars => IInv'
<1> SUFFICES ASSUME IInv, [Next]_vars PROVE IInv'
  OBVIOUS
<1>1. ASSUME NEW w \in Worker, Step(w) PROVE IInv'
  BY <1>1, BeginOK, VerifyOK, SearchOK, ProductOK, FindOK, ItemOK, QuoteOK, PollOK,
     WriteOK, SaveOK, SaveRefusedOK DEF Step
<1>2. ASSUME NEW w \in Worker, Failure(w) PROVE IInv'
  BY <1>2, LoadTenantFailsOK, SaveFailsOK, NoTokenOK, CallFailsOK, CallUnauthorizedOK,
     ReplyLostOK, CrashOK DEF Failure
<1>3. ASSUME NEW w \in Worker, NEW j \in Job, Take(w, j) PROVE IInv'
  BY <1>3, TakeOK
<1>4. ASSUME NEW j \in Job, RecoverStalled(j) \/ LockLost(j) \/ AdminRetry(j) \/ Remove(j)
      PROVE  IInv'
  BY <1>4, RecoverStalledOK, LockLostOK, AdminRetryOK, RemoveOK
<1>5. CASE UNCHANGED vars
  BY <1>5 DEF vars, hubspot, IInv, QueueOK, RunsOK, JobsOK, HubOK, HubTypeOK, IdsOK,
              DealShowsApprovedQuote, CountersOK
<1> QED
  BY <1>1, <1>2, <1>3, <1>4, <1>5 DEF Next

\* The inductive invariant holds in every reachable state.
THEOREM Invariance == Spec => []IInv
BY InitOK, NextOK, PTL DEF Spec

\* Type correctness: every field of the queue's records, the runs and HubSpot's
\* objects stays in its type.
THEOREM TypeCorrect == Spec => []TypeOK
<1>1. IInv => TypeOK
  BY DEF IInv, QueueOK, HubOK, HubTypeOK, CountersOK, TypeOK
<1> QED
  BY <1>1, Invariance, PTL

\* Whatever fails and however runs interleave, a retry only ever resumes from
\* records of HubSpot objects that exist and, for quotes, are approved.
THEOREM RecordsTrue == Spec => []RecordsAreTrue
<1>1. IInv => RecordsAreTrue
  BY DEF IInv, QueueOK, JobsOK, RunsOK, RunOK, Idle, RecordsAreTrue, TrueIn, TrueOf
<1> QED
  BY <1>1, Invariance, PTL

\* A quote that is about to be published is approved, and has exactly the line
\* items of this attempt's offers.
THEOREM OfferAgrees == Spec => []OfferAgreesWithLineItems
<1>1. IInv => OfferAgreesWithLineItems
  <2> SUFFICES ASSUME IInv, NEW w \in Worker, run[w].pc = "publish"
               PROVE  LET r == run[w] IN
                      /\ r.made \in approved
                      /\ [id |-> r.made, job |-> r.job, items |-> IdSet(r.itemIds)] \in quotes
                      /\ Len(r.itemIds) = Len(r.sel)
                      /\ \A n \in 1..Len(r.sel) : \E i \in items :
                           i.id = r.itemIds[n] /\ i.job = r.job /\ i.offer = r.sel[n].offer
    BY DEF OfferAgreesWithLineItems
  <2>1. /\ Lengths(run[w]) /\ ItemsMatch(run[w], items)
        /\ MadeExists(run[w], products, items, quotes, approved)
    BY RunFacts
  <2> QED
    BY <2>1 DEF Lengths, ItemsMatch, MadeExists, QuotePCs
<1> QED
  BY <1>1, Invariance, PTL

\* The deal never shows a quote that is not approved, whichever job wrote last.
THEOREM DealShowsApproved == Spec => []DealShowsApprovedQuote
<1>1. IInv => DealShowsApprovedQuote
  BY DEF IInv, HubOK
<1> QED
  BY <1>1, Invariance, PTL

-----------------------------------------------------------------------------
\* ProcessDeal implements OfferBoard

\* Only a call that takes effect changes HubSpot.
LEMMA OnlyEffects ==
  ASSUME [Next]_vars
  PROVE  UNCHANGED hubspot \/ \E w \in Worker : Effect(w)
<1>1. ASSUME NEW w \in Worker, Step(w)
      PROVE  UNCHANGED hubspot \/ \E v \in Worker : Effect(v)
  BY <1>1 DEF Step, Begin, Verify, Search, Product, Find, Item, Quote, Poll, Write, Save,
              SaveRefused
<1>2. ASSUME NEW w \in Worker, Failure(w)
      PROVE  UNCHANGED hubspot \/ \E v \in Worker : Effect(v)
  BY <1>2 DEF Failure, LoadTenantFails, SaveFails, NoToken, CallFails, CallUnauthorized,
              ReplyLost, Crash
<1>3. ASSUME NEW w \in Worker, NEW j \in Job, Take(w, j)
      PROVE  UNCHANGED hubspot
  BY <1>3 DEF Take
<1>4. ASSUME NEW j \in Job, RecoverStalled(j) \/ LockLost(j) \/ AdminRetry(j) \/ Remove(j)
      PROVE  UNCHANGED hubspot
  BY <1>4 DEF RecoverStalled, LockLost, AdminRetry, Remove
<1>5. CASE UNCHANGED vars
  BY <1>5 DEF vars
<1> QED
  BY <1>1, <1>2, <1>3, <1>4, <1>5 DEF Next

\* A call that takes effect is a step of the board, or none.
LEMMA EffectOnBoard ==
  ASSUME IInv, NEW w \in Worker, Effect(w)
  PROVE  [Board!Next]_(Board!vars)
<1> DEFINE r == run[w]
           lineItems == {i.id : i \in items}
           offers == {q \in quotes : q.id \in approved}
<1>1. r.pc # "idle" /\ IdsOK /\ HubTypeOK /\ nextId \in Nat
  BY RunFacts DEF Effect, At, HubOK, HubTypeOK
<1>2. CASE At(w, "normalize") \/ At(w, "new_product")
  <2>1. /\ UNCHANGED <<items, quotes, approved>>
        /\ deal'.status = deal.status /\ deal'.quote = deal.quote /\ deal'.link = deal.link
    BY <1>1, <1>2 DEF Effect, At, CreateProduct, UpdateDeal, HubTypeOK
  <2> QED
    BY <2>1 DEF Board!vars
<1>3. CASE At(w, "unavailable")
  <2>1. /\ UNCHANGED <<items, quotes, approved>>
        /\ deal'.status = "no_availability" /\ deal'.quote = deal.quote /\ deal'.link = deal.link
    BY <1>1, <1>3 DEF Effect, At, UpdateDeal, HubTypeOK
  <2>2. Board!MarkUnavailable
    BY <2>1 DEF Board!MarkUnavailable
  <2> QED
    BY <2>2 DEF Board!Next
<1>4. CASE At(w, "new_item")
  <2>1. /\ \E i : i.id = nextId /\ items' = items \cup {i}
        /\ UNCHANGED <<quotes, approved, deal>>
    BY <1>4 DEF Effect, At, CreateLineItem
  <2>2. lineItems' = lineItems \cup {nextId}
    BY <2>1
  <2>3. nextId \notin lineItems
    BY <1>1 DEF IdsOK, HubTypeOK
  <2>4. Board!AddLineItem
    BY <2>1, <2>2, <2>3 DEF Board!AddLineItem
  <2> QED
    BY <2>4 DEF Board!Next
<1>5. CASE At(w, "new_quote")
  <2>1. /\ \E q : q.id = nextId /\ quotes' = quotes \cup {q}
        /\ UNCHANGED <<items, approved, deal>>
    BY <1>5 DEF Effect, At, CreateQuote
  <2>2. nextId \notin approved
    BY <1>1 DEF IdsOK, HubTypeOK
  <2>3. offers' = offers
    BY <2>1, <2>2
  <2> QED
    BY <2>1, <2>3 DEF Board!vars
<1>6. CASE At(w, "approve")
  <2> DEFINE q == [id |-> r.made, job |-> r.job, items |-> IdSet(r.itemIds)]
  <2>1. approved' = approved \cup {r.made} /\ UNCHANGED <<items, quotes, deal>>
    BY <1>6 DEF Effect, At, ApproveQuote
  <2>2. q \in quotes /\ q.id = r.made
    BY <1>1, <1>6, RunFacts DEF MadeExists, At
  <2>3. \A o \in quotes : o.id = q.id => o = q
    BY <1>1, <2>2 DEF IdsOK
  <2>4. q.items # {} /\ q.items \subseteq lineItems
    BY <1>1, <2>2 DEF IdsOK
  <2> HIDE DEF q
  <2>5. offers' = offers \cup {q}
    BY <2>1, <2>2, <2>3
  <2>6. CASE q \in offers
    BY <2>1, <2>5, <2>6 DEF Board!vars
  <2>7. CASE q \notin offers
    <3>1. q \in offers' \ offers /\ \A other \in offers : other.id # q.id
      BY <2>3, <2>5, <2>7
    <3>2. Board!Approve
      BY <2>1, <2>4, <2>5, <3>1 DEF Board!Approve
    <3> QED
      BY <3>2 DEF Board!Next
  <2> QED
    BY <2>6, <2>7
<1>7. CASE At(w, "publish")
  <2> DEFINE q == [id |-> r.made, job |-> r.job, items |-> IdSet(r.itemIds)]
  <2>1. /\ UNCHANGED <<items, quotes, approved>>
        /\ deal' = Published(r)
    BY <1>7 DEF Effect, At, UpdateDeal
  <2>2. /\ deal'.status = "available" /\ deal'.quote = r.made
        /\ deal'.link \in {deal.link, r.made}
    BY <1>1, <2>1 DEF HubTypeOK, Published
  <2>3. q \in offers /\ q.id = r.made
    BY <1>1, <1>7, RunFacts DEF MadeExists, At
  <2> HIDE DEF q
  <2>4. Board!Publish
    BY <2>1, <2>2, <2>3 DEF Board!Publish
  <2> QED
    BY <2>4 DEF Board!Next
<1> QED
  BY <1>2, <1>3, <1>4, <1>5, <1>6, <1>7 DEF Effect

\* Every step of the pipeline is a step of the offer board or leaves it alone: the
\* deal only ever shows an approved quote over line items that exist, and an
\* offer never changes or goes away.
THEOREM Refinement == Spec => ImplementsBoard
<1>1. Init => Board!Init
  BY DEF Init, Board!Init
<1>2. IInv /\ [Next]_vars => [Board!Next]_(Board!vars)
  <2> SUFFICES ASSUME IInv, [Next]_vars PROVE [Board!Next]_(Board!vars)
    OBVIOUS
  <2>1. CASE UNCHANGED hubspot
    BY <2>1 DEF hubspot, Board!vars
  <2> QED
    BY <2>1, OnlyEffects, EffectOnBoard
<1> QED
  BY <1>1, <1>2, Invariance, PTL DEF Spec, ImplementsBoard, Board!Spec

-----------------------------------------------------------------------------
\* No duplicates: what a job that kept its lock and its records knows

\* The pcs at which a run holds a quote that no record names yet.
QuoteHeld == {"approve", "poll", "save_quote"}

\* About to create only what is not recorded; past a creation, the quote in hand
\* is newer than the recorded one.
Careful(r) ==
  /\ r.pc = "new_item" => \A e \in r.saved.items :
       e.product # NextProduct(r) \/ e.offer # NextOffer(r).offer
  /\ r.pc = "new_quote" => ~HaveQuote(r)
  /\ r.pc \in QuoteHeld /\ r.saved.quote # None => r.saved.quote.id < r.made

\* The run of a job that lost nothing holds the job's lock, and its copy of the
\* record is the queue's.
RunnerOK(w) ==
  run[w].pc # "idle" /\ run[w].job \notin lost =>
    /\ job[run[w].job].state = "active" /\ job[run[w].job].lock = w
    /\ run[w].saved = job[run[w].job].progress
    /\ Careful(run[w])

HoldsItem(r, i) ==
  /\ r.pc = "save_item" /\ r.job = i.job /\ r.made = i.id
  /\ NextProduct(r) = i.product /\ NextOffer(r).offer = i.offer
HoldsQuote(r, q) == r.pc \in QuoteHeld /\ r.job = q.job /\ q.id <= r.made

\* A line item is recorded, or in the hands of the run that made it; a quote is
\* the recorded one or an older one, or in the hands of a run.
ItemKnown(i) ==
  \/ [product |-> i.product, offer |-> i.offer, id |-> i.id] \in job[i.job].progress.items
  \/ \E w \in Worker : HoldsItem(run[w], i)
QuoteKnown(q) ==
  \/ job[q.job].progress.quote # None /\ q.id <= job[q.job].progress.quote.id
  \/ \E w \in Worker : HoldsQuote(run[w], q)

Kept(j) == j \notin lost /\ job[j].state # "removed"

RunnersOK   == \A w \in Worker : RunnerOK(w)
ItemsKnown  == \A i \in items : Kept(i.job) => ItemKnown(i)
QuotesKnown == \A q \in quotes : Kept(q.job) => QuoteKnown(q)

DupInv == RunnersOK /\ ItemsKnown /\ QuotesKnown /\ NoDuplicatesUnlessLost

\* ProgressNeverForgets, as one step.
Remembers ==
  \A j \in Job : (j \notin lost' /\ job'[j].state # "removed") =>
    /\ job[j].progress.products \subseteq job'[j].progress.products
    /\ job[j].progress.items \subseteq job'[j].progress.items
    /\ job[j].progress.quote # None => job'[j].progress.quote # None

\* A step that makes line items and quotes only for a job it counts as lost.
OnlyLostGrow ==
  /\ lost \subseteq lost' /\ items \subseteq items' /\ quotes \subseteq quotes'
  /\ \A i \in items' \ items : i.job \in lost'
  /\ \A q \in quotes' \ quotes : q.job \in lost'

\* What a run holds it still holds after the step.
Holding(r, r2) ==
  /\ r.pc # "save_item"
  /\ r.pc \in QuoteHeld => r2.pc \in QuoteHeld /\ r2.made = r.made

-----------------------------------------------------------------------------
\* The kinds of steps

\* Two runs of one job that lost nothing are the same run.
LEMMA OneRunner ==
  ASSUME DupInv, NEW v \in Worker, NEW w \in Worker, run[v].pc # "idle", run[w].pc # "idle",
         run[v].job = run[w].job, run[v].job \notin lost
  PROVE  v = w
BY DEF DupInv, RunnersOK, RunnerOK

\* Nothing new for a job that lost nothing: no new duplicate.
LEMMA NoNewDuplicates ==
  ASSUME DupInv, OnlyLostGrow
  PROVE  NoDuplicatesUnlessLost'
<1> SUFFICES ASSUME NEW j \in Job \ lost'
             PROVE  /\ \A a, b \in items' : (/\ a.job = j /\ b.job = j /\ a.product = b.product
                                             /\ a.offer = b.offer) => a = b
                    /\ \A a, b \in quotes' :
                         (a.job = j /\ b.job = j /\ a.items = b.items /\ a.id < b.id) =>
                           \E c \in quotes' : c.job = j /\ a.id < c.id /\ c.id < b.id
                                              /\ c.items # a.items
  BY DEF NoDuplicatesUnlessLost
<1>1. /\ j \in Job \ lost
      /\ \A i \in items' : i.job = j => i \in items
      /\ \A q \in quotes' : q.job = j => q \in quotes
      /\ quotes \subseteq quotes'
  BY DEF OnlyLostGrow
<1>2. /\ \A a, b \in items : (/\ a.job = j /\ b.job = j /\ a.product = b.product
                              /\ a.offer = b.offer) => a = b
      /\ \A a, b \in quotes :
           (a.job = j /\ b.job = j /\ a.items = b.items /\ a.id < b.id) =>
             \E c \in quotes : c.job = j /\ a.id < c.id /\ c.id < b.id /\ c.items # a.items
  BY <1>1 DEF DupInv, NoDuplicatesUnlessLost
<1> QED
  BY <1>1, <1>2

LEMMA RemembersAll ==
  ASSUME \A j \in Job : job'[j].progress = job[j].progress \/ job'[j].state = "removed"
  PROVE  Remembers
BY DEF Remembers

\* A run goes on: it creates nothing it may not, and holds what it held.
LEMMA GoesKeeps ==
  ASSUME IInv, DupInv, OnlyLostGrow, NEW w \in Worker, NEW r,
         run' = [run EXCEPT ![w] = r], job' = job, run[w].pc # "idle",
         r.job = run[w].job, r.saved = run[w].saved,
         run[w].job \in lost' \/ (Careful(r) /\ Holding(run[w], r))
  PROVE  DupInv' /\ Remembers
<1>1. /\ run \in [Worker -> Run] /\ run'[w] = r
      /\ \A v \in Worker : v # w => run'[v] = run[v]
  BY DEF IInv, QueueOK
<1>2. RunnersOK'
  <2> SUFFICES ASSUME NEW v \in Worker, run'[v].pc # "idle", run'[v].job \notin lost'
               PROVE  /\ job'[run'[v].job].state = "active" /\ job'[run'[v].job].lock = v
                      /\ run'[v].saved = job'[run'[v].job].progress
                      /\ Careful(run'[v])
    BY DEF RunnersOK, RunnerOK, Careful, HaveQuote, NextProduct, NextOffer, IdSet
  <2>1. CASE v = w
    BY <1>1, <2>1 DEF DupInv, RunnersOK, RunnerOK, OnlyLostGrow
  <2>2. CASE v # w
    BY <1>1, <2>2 DEF DupInv, RunnersOK, RunnerOK, OnlyLostGrow
  <2> QED
    BY <2>1, <2>2
<1>3. ItemsKnown'
  <2> SUFFICES ASSUME NEW i \in items', i.job \notin lost', job'[i.job].state # "removed",
                      [product |-> i.product, offer |-> i.offer, id |-> i.id]
                        \notin job'[i.job].progress.items
               PROVE  \E v \in Worker : HoldsItem(run'[v], i)
    BY DEF ItemsKnown, ItemKnown, Kept, HoldsItem, NextProduct, NextOffer
  <2>1. i \in items /\ Kept(i.job) /\ ItemKnown(i)
    BY DEF OnlyLostGrow, Kept, DupInv, ItemsKnown
  <2>2. PICK v \in Worker : HoldsItem(run[v], i)
    BY <2>1 DEF ItemKnown
  <2>3. v # w
    BY <2>2 DEF HoldsItem, Holding
  <2> QED
    BY <1>1, <2>2, <2>3
<1>4. QuotesKnown'
  <2> SUFFICES ASSUME NEW q \in quotes', q.job \notin lost', job'[q.job].state # "removed",
                      ~ (job'[q.job].progress.quote # None /\ q.id <= job'[q.job].progress.quote.id)
               PROVE  \E v \in Worker : HoldsQuote(run'[v], q)
    BY DEF QuotesKnown, QuoteKnown, Kept, HoldsQuote
  <2>1. q \in quotes /\ Kept(q.job) /\ QuoteKnown(q)
    BY DEF OnlyLostGrow, Kept, DupInv, QuotesKnown
  <2>2. PICK v \in Worker : HoldsQuote(run[v], q)
    BY <2>1 DEF QuoteKnown
  <2>3. HoldsQuote(run'[v], q)
    BY <1>1, <2>2 DEF HoldsQuote, Holding
  <2> QED
    BY <2>3
<1> QED
  BY <1>2, <1>3, <1>4, NoNewDuplicates, RemembersAll DEF DupInv

\* A run ends, and held nothing or loses it.
LEMMA EndsKeeps ==
  ASSUME IInv, DupInv, OnlyLostGrow, NEW w \in Worker, run[w].pc # "idle",
         run' = [run EXCEPT ![w] = Idle],
         \A j \in Job : job'[j].progress = job[j].progress,
         \A j \in Job \ {run[w].job} : job'[j] = job[j],
         Unsaved(w) => run[w].job \in lost'
  PROVE  DupInv' /\ Remembers
<1>1. /\ run \in [Worker -> Run] /\ run'[w] = Idle /\ run[w].job \in Job
      /\ \A v \in Worker : v # w => run'[v] = run[v]
      /\ \A v \in Worker : run[v].pc # "idle" => run[v].job \in Job
  BY RunFacts DEF IInv, QueueOK
<1>2. \A j \in Job \ lost' : j = run[w].job => Kept(j)
  BY DEF DupInv, RunnersOK, RunnerOK, OnlyLostGrow, Kept
<1>3. \A j \in Job \ lost' : job'[j].state # "removed" => Kept(j)
  BY <1>2 DEF OnlyLostGrow, Kept
<1>4. RunnersOK'
  <2> SUFFICES ASSUME NEW v \in Worker, run'[v].pc # "idle", run'[v].job \notin lost'
               PROVE  /\ job'[run'[v].job].state = "active" /\ job'[run'[v].job].lock = v
                      /\ run'[v].saved = job'[run'[v].job].progress
                      /\ Careful(run'[v])
    BY DEF RunnersOK, RunnerOK, Careful, HaveQuote, NextProduct, NextOffer, IdSet
  <2>1. v # w /\ run'[v] = run[v]
    BY <1>1 DEF Idle
  <2>2. run[v].job \notin lost /\ run[v].job # run[w].job
    BY <2>1, OneRunner DEF OnlyLostGrow
  <2>3. job'[run[v].job] = job[run[v].job]
    BY <1>1, <2>1, <2>2
  <2> QED
    BY <2>1, <2>2, <2>3 DEF DupInv, RunnersOK, RunnerOK
<1>5. ItemsKnown'
  <2> SUFFICES ASSUME NEW i \in items', i.job \notin lost', job'[i.job].state # "removed",
                      [product |-> i.product, offer |-> i.offer, id |-> i.id]
                        \notin job'[i.job].progress.items
               PROVE  \E v \in Worker : HoldsItem(run'[v], i)
    BY DEF ItemsKnown, ItemKnown, Kept, HoldsItem, NextProduct, NextOffer
  <2>1. i \in items /\ i.job \in Job
    BY DEF OnlyLostGrow, IInv, HubOK, HubTypeOK
  <2>2. ItemKnown(i)
    BY <1>3, <2>1 DEF DupInv, ItemsKnown
  <2>3. PICK v \in Worker : HoldsItem(run[v], i)
    BY <2>1, <2>2 DEF ItemKnown
  <2>4. v # w
    BY <2>3 DEF HoldsItem, Unsaved
  <2> QED
    BY <1>1, <2>3, <2>4
<1>6. QuotesKnown'
  <2> SUFFICES ASSUME NEW q \in quotes', q.job \notin lost', job'[q.job].state # "removed",
                      ~ (job'[q.job].progress.quote # None /\ q.id <= job'[q.job].progress.quote.id)
               PROVE  \E v \in Worker : HoldsQuote(run'[v], q)
    BY DEF QuotesKnown, QuoteKnown, Kept, HoldsQuote
  <2>1. q \in quotes /\ q.job \in Job
    BY DEF OnlyLostGrow, IInv, HubOK, HubTypeOK
  <2>2. QuoteKnown(q)
    BY <1>3, <2>1 DEF DupInv, QuotesKnown
  <2>3. PICK v \in Worker : HoldsQuote(run[v], q)
    BY <2>1, <2>2 DEF QuoteKnown
  <2>4. v # w
    BY <2>3 DEF HoldsQuote, QuoteHeld, Unsaved
  <2> QED
    BY <1>1, <2>3, <2>4
<1> QED
  BY <1>4, <1>5, <1>6, NoNewDuplicates, RemembersAll DEF DupInv

\* The queue moves a job that no run holds, or one it counts as lost.
LEMMA QueueKeeps ==
  ASSUME IInv, DupInv, OnlyLostGrow, NEW j \in Job, run' = run,
         \A k \in Job \ {j} : job'[k] = job[k],
         job'[j].progress = job[j].progress \/ job'[j].state = "removed",
         \/ j \in lost'
         \/ /\ \A w \in Worker : run[w].pc # "idle" => run[w].job # j
            /\ job[j].state = "removed" => job'[j].state = "removed"
  PROVE  DupInv' /\ Remembers
<1>1. \A v \in Worker : run[v].pc # "idle" => run[v].job \in Job
  BY RunFacts
<1>2. \A k \in Job \ lost' : job'[k].state # "removed" =>
        Kept(k) /\ job'[k].progress = job[k].progress
  BY DEF OnlyLostGrow, Kept
<1>3. RunnersOK'
  <2> SUFFICES ASSUME NEW v \in Worker, run[v].pc # "idle", run[v].job \notin lost'
               PROVE  /\ job'[run[v].job].state = "active" /\ job'[run[v].job].lock = v
                      /\ run[v].saved = job'[run[v].job].progress
                      /\ Careful(run[v])
    BY DEF RunnersOK, RunnerOK, Careful, HaveQuote, NextProduct, NextOffer, IdSet
  <2>1. job'[run[v].job] = job[run[v].job]
    BY <1>1
  <2> QED
    BY <2>1 DEF DupInv, RunnersOK, RunnerOK, OnlyLostGrow
<1>4. ItemsKnown'
  <2> SUFFICES ASSUME NEW i \in items', i.job \notin lost', job'[i.job].state # "removed"
               PROVE  \/ [product |-> i.product, offer |-> i.offer, id |-> i.id]
                           \in job'[i.job].progress.items
                      \/ \E v \in Worker : HoldsItem(run'[v], i)
    BY DEF ItemsKnown, ItemKnown, Kept, HoldsItem, NextProduct, NextOffer
  <2>1. i \in items /\ i.job \in Job
    BY DEF OnlyLostGrow, IInv, HubOK, HubTypeOK
  <2> QED
    BY <1>2, <2>1 DEF DupInv, ItemsKnown, ItemKnown
<1>5. QuotesKnown'
  <2> SUFFICES ASSUME NEW q \in quotes', q.job \notin lost', job'[q.job].state # "removed"
               PROVE  \/ job'[q.job].progress.quote # None /\ q.id <= job'[q.job].progress.quote.id
                      \/ \E v \in Worker : HoldsQuote(run'[v], q)
    BY DEF QuotesKnown, QuoteKnown, Kept, HoldsQuote
  <2>1. q \in quotes /\ q.job \in Job
    BY DEF OnlyLostGrow, IInv, HubOK, HubTypeOK
  <2> QED
    BY <1>2, <2>1 DEF DupInv, QuotesKnown, QuoteKnown
<1> QED
  BY <1>3, <1>4, <1>5, NoNewDuplicates, RemembersAll DEF DupInv

\* What is unchanged for the queue, the items and the quotes, and grows elsewhere.
LEMMA QuietGrowth ==
  ASSUME UNCHANGED <<items, quotes, lost>>
  PROVE  OnlyLostGrow
BY DEF OnlyLostGrow

\* A slot takes a waiting job: nobody runs it.
LEMMA TakeKeeps ==
  ASSUME IInv, DupInv, NEW w \in Worker, NEW j \in Job, Take(w, j)
  PROVE  DupInv' /\ Remembers
<1> DEFINE r == [Idle EXCEPT !.job = j, !.pc = "begin", !.saved = job[j].progress]
<1>1. /\ run \in [Worker -> Run] /\ job \in [Job -> JobRecord] /\ run[w].pc = "idle"
      /\ job[j].state = "waiting" /\ UNCHANGED <<items, quotes, lost>>
  BY DEF IInv, QueueOK, Take, Waiting, hubspot
<1>2. /\ run' = [run EXCEPT ![w] = r]
      /\ job' = [job EXCEPT ![j].state = "active", ![j].lock = w]
  BY DEF Take
<1>3. r.job = j /\ r.pc = "begin" /\ r.saved = job[j].progress
  BY DEF Idle
<1> HIDE DEF r
<1>4. /\ run'[w] = r /\ \A v \in Worker : v # w => run'[v] = run[v]
      /\ job'[j].state = "active" /\ job'[j].lock = w /\ job'[j].progress = job[j].progress
      /\ \A k \in Job : k # j => job'[k] = job[k]
  BY <1>1, <1>2 DEF JobRecord
<1>5. /\ \A v \in Worker : run[v].pc # "idle" => run[v].job \in Job
      /\ \A v \in Worker : run[v].pc # "idle" /\ run[v].job = j => j \in lost
  BY <1>1, RunFacts DEF DupInv, RunnersOK, RunnerOK
<1>6. \A k \in Job \ lost' : job'[k].state # "removed" =>
        Kept(k) /\ job'[k].progress = job[k].progress
  BY <1>1, <1>4 DEF Kept
<1>7. RunnersOK'
  <2> SUFFICES ASSUME NEW v \in Worker, run'[v].pc # "idle", run'[v].job \notin lost
               PROVE  /\ job'[run'[v].job].state = "active" /\ job'[run'[v].job].lock = v
                      /\ run'[v].saved = job'[run'[v].job].progress
                      /\ Careful(run'[v])
    BY <1>1 DEF RunnersOK, RunnerOK, Careful, HaveQuote, NextProduct, NextOffer, IdSet
  <2>1. CASE v = w
    BY <1>3, <1>4, <2>1 DEF Careful, QuoteHeld
  <2>2. CASE v # w
    <3>1. run'[v] = run[v] /\ job'[run[v].job] = job[run[v].job]
      BY <1>4, <1>5, <2>2
    <3> QED
      BY <3>1 DEF DupInv, RunnersOK, RunnerOK
  <2> QED
    BY <2>1, <2>2
<1>8. ItemsKnown'
  <2> SUFFICES ASSUME NEW i \in items', i.job \notin lost', job'[i.job].state # "removed"
               PROVE  \/ [product |-> i.product, offer |-> i.offer, id |-> i.id]
                           \in job'[i.job].progress.items
                      \/ \E v \in Worker : HoldsItem(run'[v], i)
    BY DEF ItemsKnown, ItemKnown, Kept, HoldsItem, NextProduct, NextOffer
  <2>1. i \in items /\ i.job \in Job
    BY <1>1 DEF IInv, HubOK, HubTypeOK
  <2>2. ItemKnown(i) /\ job'[i.job].progress = job[i.job].progress
    BY <1>6, <2>1 DEF DupInv, ItemsKnown
  <2>3. ASSUME NEW v \in Worker, HoldsItem(run[v], i) PROVE HoldsItem(run'[v], i)
    BY <1>1, <1>4, <2>3 DEF HoldsItem
  <2> QED
    BY <2>2, <2>3 DEF ItemKnown
<1>9. QuotesKnown'
  <2> SUFFICES ASSUME NEW q \in quotes', q.job \notin lost', job'[q.job].state # "removed"
               PROVE  \/ job'[q.job].progress.quote # None /\ q.id <= job'[q.job].progress.quote.id
                      \/ \E v \in Worker : HoldsQuote(run'[v], q)
    BY DEF QuotesKnown, QuoteKnown, Kept, HoldsQuote
  <2>1. q \in quotes /\ q.job \in Job
    BY <1>1 DEF IInv, HubOK, HubTypeOK
  <2>2. QuoteKnown(q) /\ job'[q.job].progress = job[q.job].progress
    BY <1>6, <2>1 DEF DupInv, QuotesKnown
  <2>3. ASSUME NEW v \in Worker, HoldsQuote(run[v], q) PROVE HoldsQuote(run'[v], q)
    BY <1>1, <1>4, <2>3 DEF HoldsQuote, QuoteHeld
  <2> QED
    BY <2>2, <2>3 DEF QuoteKnown
<1>10. NoDuplicatesUnlessLost'
  BY <1>1, QuietGrowth, NoNewDuplicates
<1> QED
  BY <1>4, <1>7, <1>8, <1>9, <1>10, RemembersAll DEF DupInv

\* The one run of a job that lost nothing is about to create: all there is of the
\* job is in the run's own copy of the record.
LEMMA AllRecorded ==
  ASSUME IInv, DupInv, NEW w \in Worker, run[w].pc \in Creates, run[w].job \notin lost
  PROVE  LET r == run[w] IN
         /\ \A i \in items : i.job = r.job =>
              [product |-> i.product, offer |-> i.offer, id |-> i.id] \in r.saved.items
         /\ \A q \in quotes : q.job = r.job =>
              r.saved.quote # None /\ q.id <= r.saved.quote.id
<1> DEFINE r == run[w]
<1>1. /\ r.pc # "idle" /\ r.pc \notin QuoteHeld /\ r.pc # "save_item"
      /\ Kept(r.job) /\ r.saved = job[r.job].progress
  BY DEF Creates, QuoteHeld, Kept, DupInv, RunnersOK, RunnerOK
<1>2. ASSUME NEW i \in items, i.job = r.job, NEW v \in Worker PROVE ~HoldsItem(run[v], i)
  BY <1>1, <1>2, OneRunner DEF HoldsItem
<1>3. ASSUME NEW q \in quotes, q.job = r.job, NEW v \in Worker PROVE ~HoldsQuote(run[v], q)
  BY <1>1, <1>3, OneRunner DEF HoldsQuote, QuoteHeld
<1> QED
  BY <1>1, <1>2, <1>3 DEF DupInv, ItemsKnown, ItemKnown, QuotesKnown, QuoteKnown

\* A line item is created: the run holds it, and the record had none like it.
LEMMA NewItemKeeps ==
  ASSUME IInv, DupInv, NEW w \in Worker, run[w].pc = "new_item", CreateLineItem(run[w]),
         run' = [run EXCEPT ![w] = AfterItem(run[w])], job' = job, lost' = lost
  PROVE  DupInv' /\ Remembers
<1> DEFINE o == run[w]
           r == AfterItem(o)
           n == [id |-> nextId, job |-> o.job, product |-> NextProduct(o),
                 offer |-> NextOffer(o).offer, price |-> NextOffer(o).price]
<1>1. /\ run \in [Worker -> Run] /\ o \in Run /\ o.job \in Job /\ o.pc # "idle"
      /\ nextId \in Nat /\ items' = items \cup {n} /\ quotes' = quotes
  BY RunFacts DEF IInv, QueueOK, HubOK, HubTypeOK, CreateLineItem
<1>2. r.pc = "save_item" /\ r.made = nextId /\ SameLists(o, r)
  <2>1. /\ GoTo(o, "save_item") \in Run /\ GoTo(o, "save_item").pc = "save_item"
        /\ SameLists(o, GoTo(o, "save_item"))
    BY <1>1, GoToFields DEF PC, Saves
  <2> QED
    BY <1>1, <2>1, MadeFields DEF AfterItem
<1>3. NextProduct(r) = NextProduct(o) /\ NextOffer(r) = NextOffer(o)
      /\ r.job = o.job /\ r.saved = o.saved
  BY <1>2 DEF SameLists, NextProduct, NextOffer
<1>4. /\ n.id = nextId /\ n.job = o.job /\ n.product = NextProduct(o)
      /\ n.offer = NextOffer(o).offer
  OBVIOUS
<1> HIDE DEF n, r
<1>5. run'[w] = r /\ \A v \in Worker : v # w => run'[v] = run[v]
  BY <1>1 DEF r
<1>6. RunnersOK'
  <2> SUFFICES ASSUME NEW v \in Worker, run'[v].pc # "idle", run'[v].job \notin lost
               PROVE  /\ job[run'[v].job].state = "active" /\ job[run'[v].job].lock = v
                      /\ run'[v].saved = job[run'[v].job].progress
                      /\ Careful(run'[v])
    BY DEF RunnersOK, RunnerOK, Careful, HaveQuote, NextProduct, NextOffer, IdSet
  <2>1. CASE v = w
    BY <1>1, <1>2, <1>3, <1>5, <2>1 DEF Careful, QuoteHeld, DupInv, RunnersOK, RunnerOK
  <2>2. CASE v # w
    BY <1>5, <2>2 DEF DupInv, RunnersOK, RunnerOK
  <2> QED
    BY <2>1, <2>2
<1>7. ItemsKnown'
  <2> SUFFICES ASSUME NEW i \in items', i.job \notin lost, job[i.job].state # "removed",
                      [product |-> i.product, offer |-> i.offer, id |-> i.id]
                        \notin job[i.job].progress.items
               PROVE  \E v \in Worker : HoldsItem(run'[v], i)
    BY DEF ItemsKnown, ItemKnown, Kept, HoldsItem, NextProduct, NextOffer
  <2>1. CASE i = n
    <3>1. HoldsItem(run'[w], i)
      BY <1>2, <1>3, <1>4, <1>5, <2>1 DEF HoldsItem
    <3> QED
      BY <3>1
  <2>2. CASE i \in items
    <3>1. PICK v \in Worker : HoldsItem(run[v], i)
      BY <2>2 DEF DupInv, ItemsKnown, ItemKnown, Kept
    <3>2. v # w
      BY <3>1 DEF HoldsItem
    <3> QED
      BY <1>5, <3>1, <3>2
  <2> QED
    BY <1>1, <2>1, <2>2
<1>8. QuotesKnown'
  <2> SUFFICES ASSUME NEW q \in quotes, q.job \notin lost, job[q.job].state # "removed",
                      ~ (job[q.job].progress.quote # None /\ q.id <= job[q.job].progress.quote.id)
               PROVE  \E v \in Worker : HoldsQuote(run'[v], q)
    BY <1>1 DEF QuotesKnown, QuoteKnown, Kept, HoldsQuote
  <2>1. PICK v \in Worker : HoldsQuote(run[v], q)
    BY DEF DupInv, QuotesKnown, QuoteKnown, Kept
  <2>2. v # w
    BY <2>1 DEF HoldsQuote, QuoteHeld
  <2> QED
    BY <1>5, <2>1, <2>2
<1>9. NoDuplicatesUnlessLost'
  <2>1. ASSUME NEW i \in items, i.job = n.job, i.job \notin lost,
               i.product = n.product, i.offer = n.offer
        PROVE  FALSE
    <3>1. [product |-> i.product, offer |-> i.offer, id |-> i.id] \in o.saved.items
      BY <1>4, <2>1, AllRecorded DEF Creates
    <3>2. Careful(o)
      BY <1>1, <1>4, <2>1 DEF DupInv, RunnersOK, RunnerOK
    <3> QED
      BY <1>4, <2>1, <3>1, <3>2 DEF Careful
  <2>2. ASSUME NEW j \in Job \ lost, NEW a \in items', NEW b \in items', a.job = j, b.job = j,
               a.product = b.product, a.offer = b.offer
        PROVE  a = b
    BY <1>1, <2>1, <2>2 DEF DupInv, NoDuplicatesUnlessLost
  <2> QED
    BY <1>1, <2>2 DEF DupInv, NoDuplicatesUnlessLost
<1> QED
  BY <1>6, <1>7, <1>8, <1>9, RemembersAll DEF DupInv

\* A quote is created: the run holds it, and between it and one for the same line
\* items is the recorded quote, which is for others.
LEMMA NewQuoteKeeps ==
  ASSUME IInv, DupInv, NEW w \in Worker, run[w].pc = "new_quote", CreateQuote(run[w]),
         run' = [run EXCEPT ![w] = AfterQuote(run[w])], job' = job, lost' = lost
  PROVE  DupInv' /\ Remembers
<1> DEFINE o == run[w]
           r == AfterQuote(o)
           n == [id |-> nextId, job |-> o.job, items |-> IdSet(o.itemIds)]
<1>1. /\ run \in [Worker -> Run] /\ o \in Run /\ o.job \in Job /\ o.pc # "idle"
      /\ nextId \in Nat /\ quotes' = quotes \cup {n} /\ items' = items
      /\ quotes \subseteq [id: Nat, job: Job, items: SUBSET Nat]
  BY RunFacts DEF IInv, QueueOK, HubOK, HubTypeOK, CreateQuote
<1>2. r.pc = "approve" /\ r.made = nextId /\ SameLists(o, r)
  <2>1. /\ Within(o, "approve") \in Run /\ Within(o, "approve").pc = "approve"
        /\ SameLists(o, Within(o, "approve"))
    BY <1>1, GoToFields DEF PC, Calls, Writes
  <2> QED
    BY <1>1, <2>1, MadeFields DEF AfterQuote
<1>3. r.job = o.job /\ r.saved = o.saved
  BY <1>2 DEF SameLists
<1>4. n.id = nextId /\ n.job = o.job /\ n.items = IdSet(o.itemIds)
  OBVIOUS
<1>5. \A q \in quotes : q.id < nextId
  BY DEF IInv, HubOK, IdsOK
<1>6. /\ o.saved.quote # None =>
           /\ [id |-> o.saved.quote.id, job |-> o.job, items |-> o.saved.quote.items] \in quotes
           /\ o.saved.quote.id < nextId
  BY <1>1, <1>5, RunFacts DEF TrueIn
<1> HIDE DEF n, r
<1>7. run'[w] = r /\ \A v \in Worker : v # w => run'[v] = run[v]
  BY <1>1 DEF r
<1>8. RunnersOK'
  <2> SUFFICES ASSUME NEW v \in Worker, run'[v].pc # "idle", run'[v].job \notin lost
               PROVE  /\ job[run'[v].job].state = "active" /\ job[run'[v].job].lock = v
                      /\ run'[v].saved = job[run'[v].job].progress
                      /\ Careful(run'[v])
    BY DEF RunnersOK, RunnerOK, Careful, HaveQuote, NextProduct, NextOffer, IdSet
  <2>1. CASE v = w
    <3>1. Careful(r)
      BY <1>2, <1>3, <1>6 DEF Careful
    <3> QED
      BY <1>1, <1>3, <1>7, <2>1, <3>1 DEF DupInv, RunnersOK, RunnerOK
  <2>2. CASE v # w
    BY <1>7, <2>2 DEF DupInv, RunnersOK, RunnerOK
  <2> QED
    BY <2>1, <2>2
<1>9. ItemsKnown'
  <2> SUFFICES ASSUME NEW i \in items, i.job \notin lost, job[i.job].state # "removed",
                      [product |-> i.product, offer |-> i.offer, id |-> i.id]
                        \notin job[i.job].progress.items
               PROVE  \E v \in Worker : HoldsItem(run'[v], i)
    BY <1>1 DEF ItemsKnown, ItemKnown, Kept, HoldsItem, NextProduct, NextOffer
  <2>1. PICK v \in Worker : HoldsItem(run[v], i)
    BY DEF DupInv, ItemsKnown, ItemKnown, Kept
  <2>2. v # w
    BY <2>1 DEF HoldsItem
  <2> QED
    BY <1>7, <2>1, <2>2
<1>10. QuotesKnown'
  <2> SUFFICES ASSUME NEW q \in quotes', q.job \notin lost, job[q.job].state # "removed",
                      ~ (job[q.job].progress.quote # None /\ q.id <= job[q.job].progress.quote.id)
               PROVE  \E v \in Worker : HoldsQuote(run'[v], q)
    BY DEF QuotesKnown, QuoteKnown, Kept, HoldsQuote
  <2>1. CASE q = n
    <3>1. HoldsQuote(run'[w], q)
      BY <1>1, <1>2, <1>3, <1>4, <1>7, <2>1 DEF HoldsQuote, QuoteHeld
    <3> QED
      BY <3>1
  <2>2. CASE q \in quotes
    <3>1. PICK v \in Worker : HoldsQuote(run[v], q)
      BY <2>2 DEF DupInv, QuotesKnown, QuoteKnown, Kept
    <3>2. v # w
      BY <3>1 DEF HoldsQuote, QuoteHeld
    <3> QED
      BY <1>7, <3>1, <3>2
  <2> QED
    BY <1>1, <2>1, <2>2
<1>11. NoDuplicatesUnlessLost'
  <2>1. ASSUME NEW a \in quotes, a.job = o.job, a.job \notin lost, a.items = n.items
        PROVE  \E c \in quotes : c.job = a.job /\ a.id < c.id /\ c.id < n.id
                                 /\ c.items # a.items
    <3> DEFINE c == [id |-> o.saved.quote.id, job |-> o.job, items |-> o.saved.quote.items]
    <3>1. o.saved.quote # None /\ a.id <= o.saved.quote.id
      BY <2>1, AllRecorded DEF Creates
    <3>2. c \in quotes /\ c.id < nextId /\ c.id = o.saved.quote.id /\ c.job = o.job
          /\ c.items = o.saved.quote.items
      BY <1>6, <3>1
    <3>3. Careful(o)
      BY <1>1, <2>1 DEF DupInv, RunnersOK, RunnerOK
    <3>4. c.items # a.items
      BY <1>4, <2>1, <3>1, <3>2, <3>3 DEF Careful, HaveQuote
    <3> HIDE DEF c
    <3>5. a.id # c.id
      BY <2>1, <3>2, <3>4 DEF IInv, HubOK, IdsOK
    <3>6. a.id < c.id
      BY <1>1, <3>1, <3>2, <3>5
    <3> QED
      BY <1>4, <2>1, <3>2, <3>4, <3>6
  <2>2. ASSUME NEW j \in Job \ lost, NEW a \in quotes', NEW b \in quotes', a.job = j, b.job = j,
               a.items = b.items, a.id < b.id
        PROVE  \E c \in quotes' : c.job = j /\ a.id < c.id /\ c.id < b.id /\ c.items # a.items
    <3>1. a \in quotes
      BY <1>1, <1>4, <1>5, <2>2
    <3>2. CASE b \in quotes
      BY <1>1, <2>2, <3>1, <3>2 DEF DupInv, NoDuplicatesUnlessLost
    <3>3. CASE b = n
      BY <1>1, <1>4, <2>1, <2>2, <3>1, <3>3
    <3> QED
      BY <1>1, <3>2, <3>3
  <2> QED
    BY <1>1, <2>2 DEF DupInv, NoDuplicatesUnlessLost
<1> QED
  BY <1>8, <1>9, <1>10, <1>11, RemembersAll DEF DupInv

\* The record a save writes has all the run's copy had.
LEMMA RecordedGrows ==
  ASSUME IInv, NEW w \in Worker, run[w].pc \in Saves
  PROVE  LET r == run[w]
             p == Recorded(r) IN
         /\ r.saved.products \subseteq p.products /\ r.saved.items \subseteq p.items
         /\ r.pc = "save_item" => MadeItem(r) \in p.items
         /\ r.pc = "save_quote" => p.quote = MadeQuote(r) /\ p.quote # None
         /\ r.pc # "save_quote" => p.quote = r.saved.quote
<1> DEFINE r == run[w]
           p == Recorded(r)
<1>1. r \in Run /\ r.saved \in Progress /\ r.made \in Nat /\ r.itemIds \in Seq(Nat)
  BY RunFacts DEF Saves, Run
<1>2. CASE r.pc = "save_product"
  <2>1. p = [r.saved EXCEPT !.products = @ \cup {[sku |-> NextSku(r), id |-> r.made]}]
    BY <1>2 DEF Recorded
  <2> QED
    BY <1>1, <1>2, <2>1 DEF Progress
<1>3. CASE r.pc = "save_item"
  <2>1. p = [r.saved EXCEPT !.items = @ \cup {MadeItem(r)}]
    BY <1>3 DEF Recorded
  <2> QED
    BY <1>1, <1>3, <2>1 DEF Progress
<1>4. CASE r.pc = "save_quote"
  <2>1. p = [r.saved EXCEPT !.quote = MadeQuote(r)]
    BY <1>4 DEF Recorded, WithQuote
  <2>2. IdSet(r.itemIds) \in SUBSET Nat /\ r.link \in BOOLEAN
    BY <1>1 DEF IdSet, Run
  <2>3. MadeQuote(r) \in QuoteEntry
    BY <1>1, <2>2 DEF QuoteEntry, MadeQuote
  <2> QED
    BY <1>1, <1>4, <2>1, <2>3, NoneIsNothing DEF Progress
<1> QED
  BY <1>2, <1>3, <1>4 DEF Saves

\* Where a run goes on after a save.
LEMMA AfterSavePC ==
  ASSUME IInv, NEW w \in Worker, run[w].pc \in Saves
  PROVE  AfterSave(run[w]).pc \in {"product", "item", "quote", "publish"}
<1>1. run[w] \in Run /\ run[w].pc \in {"save_product", "save_item", "save_quote"}
  BY RunFacts DEF Saves
<1>2. CASE run[w].pc = "save_product"
  BY <1>1, <1>2 DEF AfterSave, HaveProduct, GoTo, Run
<1>3. CASE run[w].pc = "save_item"
  BY <1>1, <1>3 DEF AfterSave, HaveItem, GoTo, Run
<1>4. CASE run[w].pc = "save_quote"
  BY <1>1, <1>4 DEF AfterSave, GoTo, Run
<1> QED
  BY <1>1, <1>2, <1>3, <1>4

\* What is made is recorded: the record grows, and the run's copy is the queue's.
LEMMA SaveKeeps ==
  ASSUME IInv, DupInv, NEW w \in Worker, Save(w)
  PROVE  DupInv' /\ Remembers
<1> DEFINE o == run[w]
           j == o.job
           p == Recorded(o)
           a == AfterSave(o)
           r == [a EXCEPT !.saved = p]
<1>1. /\ o.pc \in Saves /\ o.pc # "idle" /\ job[j].state # "removed"
      /\ UNCHANGED <<items, quotes, lost>>
  BY DEF Save, Saves, hubspot
<1>2. /\ job' = [job EXCEPT ![j].progress = p]
      /\ run' = [run EXCEPT ![w] = r]
  BY <1>1, RunFacts DEF Save, QueueOK
<1>3. /\ run \in [Worker -> Run] /\ job \in [Job -> JobRecord] /\ o \in Run /\ j \in Job
      /\ o.made \in Nat
  BY <1>1, RunFacts DEF QueueOK, Run
<1>4. a \in Run /\ a.job = j /\ a.pc \in {"product", "item", "quote", "publish"}
  BY <1>1, AfterSaveOK, AfterSavePC
<1>5. /\ o.saved.products \subseteq p.products /\ o.saved.items \subseteq p.items
      /\ o.pc = "save_item" => MadeItem(o) \in p.items
      /\ o.pc = "save_quote" => p.quote = MadeQuote(o) /\ p.quote # None
      /\ o.pc # "save_quote" => p.quote = o.saved.quote
  BY <1>1, RecordedGrows
<1> HIDE DEF p, a
<1>6. r.job = j /\ r.saved = p /\ r.pc \in {"product", "item", "quote", "publish"}
  BY <1>4 DEF Run
<1> HIDE DEF r
<1>7. /\ run'[w] = r /\ \A v \in Worker : v # w => run'[v] = run[v]
      /\ job'[j].state = job[j].state /\ job'[j].lock = job[j].lock /\ job'[j].progress = p
      /\ \A k \in Job : k # j => job'[k] = job[k]
  BY <1>2, <1>3 DEF JobRecord
<1>8. j \notin lost => /\ job[j].state = "active" /\ job[j].lock = w
                       /\ o.saved = job[j].progress /\ Careful(o)
  BY <1>1 DEF DupInv, RunnersOK, RunnerOK
<1>9. \A v \in Worker : run[v].pc # "idle" => run[v].job \in Job
  BY RunFacts
<1>10. RunnersOK'
  <2> SUFFICES ASSUME NEW v \in Worker, run'[v].pc # "idle", run'[v].job \notin lost
               PROVE  /\ job'[run'[v].job].state = "active" /\ job'[run'[v].job].lock = v
                      /\ run'[v].saved = job'[run'[v].job].progress
                      /\ Careful(run'[v])
    BY <1>1 DEF RunnersOK, RunnerOK, Careful, HaveQuote, NextProduct, NextOffer, IdSet
  <2>1. CASE v = w
    BY <1>6, <1>7, <1>8, <2>1 DEF Careful, QuoteHeld
  <2>2. CASE v # w
    <3>1. run'[v] = run[v] /\ run[v].job # j
      BY <1>1, <1>7, <2>2, OneRunner
    <3>2. job'[run[v].job] = job[run[v].job]
      BY <1>7, <1>9, <3>1
    <3> QED
      BY <3>1, <3>2 DEF DupInv, RunnersOK, RunnerOK
  <2> QED
    BY <2>1, <2>2
<1>11. ItemsKnown'
  <2> SUFFICES ASSUME NEW i \in items, i.job \notin lost, job'[i.job].state # "removed",
                      [product |-> i.product, offer |-> i.offer, id |-> i.id]
                        \notin job'[i.job].progress.items
               PROVE  \E v \in Worker : HoldsItem(run'[v], i)
    BY <1>1 DEF ItemsKnown, ItemKnown, Kept, HoldsItem, NextProduct, NextOffer
  <2>1. i.job \in Job
    BY DEF IInv, HubOK, HubTypeOK
  <2>2. job[i.job].state # "removed"
    BY <1>7, <2>1
  <2>3. ItemKnown(i)
    BY <2>2 DEF DupInv, ItemsKnown, Kept
  <2>4. [product |-> i.product, offer |-> i.offer, id |-> i.id] \notin job[i.job].progress.items
    BY <1>5, <1>7, <1>8, <2>1
  <2>5. PICK v \in Worker : HoldsItem(run[v], i)
    BY <2>3, <2>4 DEF ItemKnown
  <2>6. v # w
    <3> SUFFICES ASSUME v = w PROVE FALSE
      OBVIOUS
    <3>1. i.job = j /\ MadeItem(o) = [product |-> i.product, offer |-> i.offer, id |-> i.id]
          /\ o.pc = "save_item"
      BY <2>5 DEF HoldsItem, MadeItem
    <3> QED
      BY <1>5, <1>7, <3>1
  <2> QED
    BY <1>7, <2>5, <2>6
<1>12. QuotesKnown'
  <2> SUFFICES ASSUME NEW q \in quotes, q.job \notin lost, job'[q.job].state # "removed",
                      ~ (job'[q.job].progress.quote # None /\ q.id <= job'[q.job].progress.quote.id)
               PROVE  \E v \in Worker : HoldsQuote(run'[v], q)
    BY <1>1 DEF QuotesKnown, QuoteKnown, Kept, HoldsQuote
  <2>1. q.job \in Job /\ q.id \in Nat
    BY DEF IInv, HubOK, HubTypeOK
  <2>2. job[q.job].state # "removed"
    BY <1>7, <2>1
  <2>3. QuoteKnown(q)
    BY <2>2 DEF DupInv, QuotesKnown, Kept
  <2>4. CASE q.job = j
    <3>1. o.pc = "save_quote" => p.quote.id = o.made
      BY <1>5 DEF MadeQuote
    <3>2. o.pc = "save_quote" /\ o.saved.quote # None =>
            o.saved.quote.id < o.made /\ o.saved.quote.id \in Nat
      BY <1>1, <1>8, <2>4, RunFacts DEF Careful, QuoteHeld, Run, Progress, QuoteEntry
    <3>3. ~ (job[j].progress.quote # None /\ q.id <= job[j].progress.quote.id)
      BY <1>3, <1>5, <1>7, <1>8, <2>1, <2>4, <3>1, <3>2
    <3>4. PICK v \in Worker : HoldsQuote(run[v], q)
      BY <2>3, <2>4, <3>3 DEF QuoteKnown
    <3>5. v # w
      <4> SUFFICES ASSUME v = w PROVE FALSE
        OBVIOUS
      <4>1. o.pc = "save_quote" /\ q.id <= o.made
        BY <1>1, <3>4 DEF HoldsQuote, QuoteHeld, Saves
      <4> QED
        BY <1>5, <1>7, <2>4, <3>1, <4>1
    <3> QED
      BY <1>7, <3>4, <3>5
  <2>5. CASE q.job # j
    <3>1. PICK v \in Worker : HoldsQuote(run[v], q)
      BY <1>7, <2>1, <2>3, <2>5 DEF QuoteKnown
    <3>2. v # w
      BY <2>5, <3>1 DEF HoldsQuote
    <3> QED
      BY <1>7, <3>1, <3>2
  <2> QED
    BY <2>4, <2>5
<1>13. NoDuplicatesUnlessLost'
  BY <1>1, QuietGrowth, NoNewDuplicates
<1>14. Remembers
  BY <1>1, <1>5, <1>7, <1>8 DEF Remembers
<1> QED
  BY <1>10, <1>11, <1>12, <1>13, <1>14 DEF DupInv

-----------------------------------------------------------------------------
\* Every step is of one of these kinds

\* What the ghost counts as lost.
LEMMA LoseFacts ==
  ASSUME NEW w \in Worker, NEW created, Lose(w, created)
  PROVE  /\ lost \subseteq lost'
         /\ created => run[w].job \in lost'
         /\ Unsaved(w) /\ run'[w].pc \notin QuoteHeld \cup {"save_item"} => run[w].job \in lost'
<1>1. lost' = IF created \/ Drops(w) THEN lost \cup {run[w].job} ELSE lost
  BY DEF Lose
<1>2. Unsaved(w)' => run'[w].pc \in QuoteHeld \cup {"save_item"}
  BY DEF Unsaved, QuoteHeld
<1> QED
  BY <1>1, <1>2 DEF Drops

\* A run ends, by whatever it returned or threw.
LEMMA LeaveKeeps ==
  ASSUME IInv, DupInv, OnlyLostGrow, NEW w \in Worker, run[w].pc # "idle",
         NEW state \in JobState, Leave(w, state),
         Unsaved(w) => run[w].job \in lost'
  PROVE  DupInv' /\ Remembers
<1>1. QueueOK /\ run[w].job \in Job
  BY RunFacts
<1>2. /\ run' = [run EXCEPT ![w] = Idle]
      /\ \A j \in Job : job'[j].progress = job[j].progress
  BY <1>1, LeaveOK
<1>3. \A j \in Job \ {run[w].job} : job'[j] = job[j]
  BY <1>1 DEF Leave, QueueOK
<1> QED
  BY <1>2, <1>3, EndsKeeps

\* A run ends at a step where it holds nothing and nothing is made.
LEMMA QuietEndKeeps ==
  ASSUME IInv, DupInv, NEW w \in Worker, run[w].pc # "idle",
         run[w].pc \notin QuoteHeld \cup {"save_item"}, UNCHANGED <<items, quotes, lost>>,
         Return(w) \/ ThrowPermanent(w) \/ ThrowRetryable(w)
  PROVE  DupInv' /\ Remembers
<1>1. ~Unsaved(w)
  BY DEF Unsaved, QuoteHeld
<1> QED
  BY <1>1, EndsLeave, QuietGrowth, LeaveKeeps

\* A run goes on at a step where it holds nothing and nothing is made.
LEMMA QuietMoveKeeps ==
  ASSUME IInv, DupInv, NEW w \in Worker, NEW r, run[w].pc # "idle",
         run[w].pc \notin QuoteHeld \cup {"save_item"}, UNCHANGED <<items, quotes, lost>>,
         run' = [run EXCEPT ![w] = r], job' = job,
         r.job = run[w].job, r.saved = run[w].saved, Careful(r)
  PROVE  DupInv' /\ Remembers
BY QuietGrowth, GoesKeeps DEF Holding

\* At most places there is nothing to be careful about.
LEMMA CarefulElsewhere ==
  ASSUME NEW r, r.pc \notin QuoteHeld \cup Creates
  PROVE  Careful(r)
BY DEF Careful, Creates

LEMMA BeginKeeps ==
  ASSUME IInv, DupInv, NEW w \in Worker, Begin(w)
  PROVE  DupInv' /\ Remembers
<1>1. /\ run[w].pc = "begin" /\ run[w].pc # "idle" /\ run[w].pc \notin QuoteHeld \cup {"save_item"}
      /\ UNCHANGED <<items, quotes, lost>>
  BY DEF Begin, At, hubspot, QuoteHeld
<1>2. ThrowPermanent(w) \/ Return(w) \/
        (run' = [run EXCEPT ![w] = GoTo(run[w], "verify")] /\ job' = job)
  BY RunFacts, <1>1 DEF Begin, QueueOK
<1>3. /\ GoTo(run[w], "verify").pc = "verify" /\ GoTo(run[w], "verify").job = run[w].job
      /\ GoTo(run[w], "verify").saved = run[w].saved
  BY <1>1, RunFacts, GoToFields DEF PC, Calls, Reads, SameLists
<1>4. Careful(GoTo(run[w], "verify"))
  BY <1>3, CarefulElsewhere DEF QuoteHeld, Creates
<1> QED
  BY <1>1, <1>2, <1>3, <1>4, QuietEndKeeps, QuietMoveKeeps

LEMMA VerifyKeeps ==
  ASSUME IInv, DupInv, NEW w \in Worker, Verify(w)
  PROVE  DupInv' /\ Remembers
<1>1. /\ run[w].pc = "verify" /\ run[w].pc # "idle" /\ run[w].pc \notin QuoteHeld \cup {"save_item"}
      /\ UNCHANGED <<items, quotes, lost>>
  BY DEF Verify, At, hubspot, QuoteHeld
<1>2. ThrowPermanent(w) \/ (run' = [run EXCEPT ![w] = GoTo(run[w], "normalize")] /\ job' = job)
  BY RunFacts, <1>1 DEF Verify, QueueOK
<1>3. /\ GoTo(run[w], "normalize").pc = "normalize" /\ GoTo(run[w], "normalize").job = run[w].job
      /\ GoTo(run[w], "normalize").saved = run[w].saved
  BY <1>1, RunFacts, GoToFields DEF PC, Calls, Writes, SameLists
<1>4. Careful(GoTo(run[w], "normalize"))
  BY <1>3, CarefulElsewhere DEF QuoteHeld, Creates
<1> QED
  BY <1>1, <1>2, <1>3, <1>4, QuietEndKeeps, QuietMoveKeeps

LEMMA SearchKeeps ==
  ASSUME IInv, DupInv, NEW w \in Worker, Search(w)
  PROVE  DupInv' /\ Remembers
<1>1. /\ run[w].pc = "search" /\ run[w].pc # "idle" /\ run[w].pc \notin QuoteHeld \cup {"save_item"}
      /\ UNCHANGED <<items, quotes, lost>> /\ job' = job
  BY DEF Search, At, hubspot, QuoteHeld
<1>2. PICK s \in Selections :
        run' = [run EXCEPT ![w] =
                  [GoTo(run[w], IF s = <<>> THEN "unavailable" ELSE "product") EXCEPT !.sel = s]]
  BY RunFacts, <1>1 DEF Search, QueueOK
<1> DEFINE pc == IF s = <<>> THEN "unavailable" ELSE "product"
           g == GoTo(run[w], pc)
           r == [g EXCEPT !.sel = s]
<1>3. pc \in PC /\ pc \in {"unavailable", "product"}
  BY DEF PC, Calls, Writes
<1>4. g \in Run /\ g.pc = pc /\ SameLists(run[w], g)
  BY <1>1, <1>3, RunFacts, GoToFields
<1>5. r.pc = pc /\ r.job = run[w].job /\ r.saved = run[w].saved
  BY <1>4 DEF SameLists, Run
<1> HIDE DEF r
<1>6. Careful(r)
  BY <1>3, <1>5, CarefulElsewhere DEF QuoteHeld, Creates
<1>7. run' = [run EXCEPT ![w] = r]
  BY <1>2 DEF r
<1> QED
  BY <1>1, <1>5, <1>6, <1>7, QuietMoveKeeps

\* Where the run goes on when a product or a line item is known.
LEMMA HaveFields ==
  ASSUME NEW r \in Run, NEW id \in Nat
  PROVE  /\ HaveProduct(r, id).pc \in {"item", "product"}
         /\ HaveProduct(r, id).job = r.job /\ HaveProduct(r, id).saved = r.saved
         /\ HaveItem(r, id).pc \in {"quote", "item"}
         /\ HaveItem(r, id).job = r.job /\ HaveItem(r, id).saved = r.saved
<1>1. /\ HaveProduct(r, id).pc \in {"item", "product"}
      /\ HaveProduct(r, id).job = r.job /\ HaveProduct(r, id).saved = r.saved
  BY DEF HaveProduct, GoTo, Run
<1>2. /\ HaveItem(r, id).pc \in {"quote", "item"}
      /\ HaveItem(r, id).job = r.job /\ HaveItem(r, id).saved = r.saved
  BY DEF HaveItem, GoTo, Run
<1> QED
  BY <1>1, <1>2

LEMMA ProductKeeps ==
  ASSUME IInv, DupInv, NEW w \in Worker, Product(w)
  PROVE  DupInv' /\ Remembers
<1> DEFINE known == {e \in run[w].saved.products : e.sku = NextSku(run[w])}
<1>1. /\ run[w].pc = "product" /\ run[w].pc # "idle" /\ run[w].pc \notin QuoteHeld \cup {"save_item"}
      /\ UNCHANGED <<items, quotes, lost>> /\ job' = job
  BY DEF Product, At, hubspot, QuoteHeld
<1>2. \/ \E e \in known : run' = [run EXCEPT ![w] = HaveProduct(run[w], e.id)]
      \/ run' = [run EXCEPT ![w] = GoTo(run[w], "find")]
  BY RunFacts, <1>1 DEF Product, QueueOK
<1>3. PICK r : /\ run' = [run EXCEPT ![w] = r] /\ r.pc \in {"item", "product", "find"}
               /\ r.job = run[w].job /\ r.saved = run[w].saved
  <2>1. ASSUME NEW e \in known PROVE e.id \in Nat
    BY <1>1, RunFacts DEF Run, Progress, ProductEntry
  <2>2. /\ GoTo(run[w], "find").pc = "find" /\ GoTo(run[w], "find").job = run[w].job
        /\ GoTo(run[w], "find").saved = run[w].saved
    BY <1>1, RunFacts, GoToFields DEF PC, Calls, Reads, SameLists
  <2> QED
    BY <1>1, <1>2, <2>1, <2>2, RunFacts, HaveFields
<1>4. Careful(r)
  BY <1>3, CarefulElsewhere DEF QuoteHeld, Creates
<1> QED
  BY <1>1, <1>3, <1>4, QuietMoveKeeps

LEMMA FindKeeps ==
  ASSUME IInv, DupInv, NEW w \in Worker, Find(w)
  PROVE  DupInv' /\ Remembers
<1>1. /\ run[w].pc = "find" /\ run[w].pc # "idle" /\ run[w].pc \notin QuoteHeld \cup {"save_item"}
      /\ UNCHANGED <<items, quotes, lost>> /\ job' = job
  BY DEF Find, At, hubspot, QuoteHeld
<1>2. \/ \E p \in products :
           run' = [run EXCEPT ![w] = [GoTo(run[w], "save_product") EXCEPT !.made = p.id]]
      \/ run' = [run EXCEPT ![w] = Within(run[w], "new_product")]
  BY RunFacts, <1>1 DEF Find, QueueOK
<1>3. PICK r : /\ run' = [run EXCEPT ![w] = r] /\ r.pc \in {"save_product", "new_product"}
               /\ r.job = run[w].job /\ r.saved = run[w].saved
  <2> DEFINE g == GoTo(run[w], "save_product")
  <2>1. g \in Run /\ g.pc = "save_product" /\ g.job = run[w].job /\ g.saved = run[w].saved
    BY <1>1, RunFacts, GoToFields DEF PC, Saves, SameLists
  <2>2. /\ Within(run[w], "new_product").pc = "new_product"
        /\ Within(run[w], "new_product").job = run[w].job
        /\ Within(run[w], "new_product").saved = run[w].saved
    BY <1>1, RunFacts, GoToFields DEF PC, Calls, Writes, SameLists
  <2> HIDE DEF g
  <2>3. ASSUME NEW p \in products
        PROVE  LET r == [g EXCEPT !.made = p.id] IN
               r.pc = "save_product" /\ r.job = run[w].job /\ r.saved = run[w].saved
    BY <2>1 DEF Run
  <2> QED
    BY <1>2, <2>2, <2>3 DEF g
<1>4. Careful(r)
  BY <1>3, CarefulElsewhere DEF QuoteHeld, Creates
<1> QED
  BY <1>1, <1>3, <1>4, QuietMoveKeeps

LEMMA ItemKeeps ==
  ASSUME IInv, DupInv, NEW w \in Worker, Item(w)
  PROVE  DupInv' /\ Remembers
<1> DEFINE o == run[w]
           known == {e \in o.saved.items : /\ e.product = NextProduct(o)
                                           /\ e.offer = NextOffer(o).offer}
<1>1. /\ o.pc = "item" /\ o.pc # "idle" /\ o.pc \notin QuoteHeld \cup {"save_item"}
      /\ UNCHANGED <<items, quotes, lost>> /\ job' = job /\ o \in Run
  BY RunFacts DEF Item, At, hubspot, QuoteHeld
<1>2. \/ \E e \in known : run' = [run EXCEPT ![w] = HaveItem(o, e.id)]
      \/ known = {} /\ run' = [run EXCEPT ![w] = GoTo(o, "new_item")]
  BY RunFacts, <1>1 DEF Item, QueueOK
<1>3. ASSUME NEW e \in known, run' = [run EXCEPT ![w] = HaveItem(o, e.id)]
      PROVE  DupInv' /\ Remembers
  <2>1. e.id \in Nat
    BY <1>1 DEF Run, Progress, ItemEntry
  <2>2. Careful(HaveItem(o, e.id))
    BY <1>1, <2>1, HaveFields, CarefulElsewhere DEF QuoteHeld, Creates
  <2> QED
    BY <1>1, <1>3, <2>1, <2>2, HaveFields, QuietMoveKeeps
<1>4. ASSUME known = {}, run' = [run EXCEPT ![w] = GoTo(o, "new_item")]
      PROVE  DupInv' /\ Remembers
  <2> DEFINE r == GoTo(o, "new_item")
  <2>1. r.pc = "new_item" /\ SameLists(o, r)
    BY <1>1, GoToFields DEF PC, Calls, Writes
  <2> HIDE DEF r
  <2>2. NextProduct(r) = NextProduct(o) /\ NextOffer(r) = NextOffer(o)
        /\ r.job = o.job /\ r.saved = o.saved
    BY <2>1 DEF SameLists, NextProduct, NextOffer
  <2>3. Careful(r)
    BY <1>4, <2>1, <2>2 DEF Careful, QuoteHeld
  <2>4. run' = [run EXCEPT ![w] = r]
    BY <1>4 DEF r
  <2> QED
    BY <1>1, <2>2, <2>3, <2>4, QuietMoveKeeps
<1> QED
  BY <1>2, <1>3, <1>4

LEMMA QuoteKeeps ==
  ASSUME IInv, DupInv, NEW w \in Worker, Quote(w)
  PROVE  DupInv' /\ Remembers
<1> DEFINE o == run[w]
           known == o.saved.quote
<1>1. /\ o.pc = "quote" /\ o.pc # "idle" /\ o.pc \notin QuoteHeld \cup {"save_item"}
      /\ UNCHANGED <<items, quotes, lost>> /\ job' = job /\ o \in Run
  BY RunFacts DEF Quote, At, hubspot, QuoteHeld
<1>2. CASE HaveQuote(o)
  <2> DEFINE pc == IF known.link THEN "publish" ELSE "repoll"
             g == GoTo(o, pc)
             r == [g EXCEPT !.made = known.id, !.link = known.link]
  <2>1. run' = [run EXCEPT ![w] = r]
    BY <1>1, <1>2, RunFacts DEF Quote, QueueOK
  <2>2. pc \in PC /\ pc \in {"publish", "repoll"}
    BY DEF PC, Polls, Calls, Writes
  <2>3. g \in Run /\ g.pc = pc /\ g.job = o.job /\ g.saved = o.saved
    BY <1>1, <2>2, GoToFields DEF SameLists
  <2> HIDE DEF known, pc, g
  <2>4. r.pc = pc /\ r.job = o.job /\ r.saved = o.saved
    BY <2>3 DEF Run
  <2> HIDE DEF r
  <2>5. Careful(r)
    BY <2>2, <2>4, CarefulElsewhere DEF QuoteHeld, Creates
  <2> QED
    BY <1>1, <2>1, <2>4, <2>5, QuietMoveKeeps
<1>3. CASE ~HaveQuote(o)
  <2> DEFINE r == GoTo(o, "new_quote")
  <2>1. run' = [run EXCEPT ![w] = r]
    BY <1>1, <1>3, RunFacts DEF Quote, QueueOK
  <2>2. r.pc = "new_quote" /\ SameLists(o, r)
    BY <1>1, GoToFields DEF PC, Calls, Writes
  <2> HIDE DEF r
  <2>3. Careful(r)
    BY <1>3, <2>2 DEF Careful, HaveQuote, SameLists, QuoteHeld
  <2> QED
    BY <1>1, <2>1, <2>2, <2>3, QuietMoveKeeps DEF SameLists
<1> QED
  BY <1>2, <1>3

LEMMA PollKeeps ==
  ASSUME IInv, DupInv, NEW w \in Worker, Poll(w)
  PROVE  DupInv' /\ Remembers
<1> DEFINE o == run[w]
           pc == IF At(w, "poll") THEN "save_quote" ELSE "publish"
           g == GoTo(o, pc)
<1>1. /\ o.pc \in {"poll", "repoll"} /\ o.pc # "idle"
      /\ UNCHANGED <<items, quotes, lost>> /\ job' = job /\ o \in Run
  BY RunFacts DEF Poll, Polls, hubspot
<1>2. PICK found \in BOOLEAN : run' = [run EXCEPT ![w] = [g EXCEPT !.link = found]]
  BY RunFacts, <1>1 DEF Poll, QueueOK
<1> DEFINE r == [g EXCEPT !.link = found]
<1>3. /\ pc \in PC
      /\ o.pc = "poll" => pc = "save_quote"
      /\ o.pc = "repoll" => pc = "publish"
  BY DEF PC, Saves, Calls, Writes, At
<1>4. g \in Run /\ g.pc = pc /\ SameLists(o, g) /\ g.made = o.made
  BY <1>1, <1>3, GoToFields
<1>5. r.pc = pc /\ r.made = o.made /\ r.job = o.job /\ r.saved = o.saved
  BY <1>4, LinkFields DEF SameLists
<1>6. run' = [run EXCEPT ![w] = r]
  BY <1>2
<1> HIDE DEF r, g, pc
<1>7. Holding(o, r)
  BY <1>1, <1>3, <1>5 DEF Holding, QuoteHeld
<1>8. o.job \in lost' \/ Careful(r)
  <2>1. o.job \in lost \/ Careful(o)
    BY <1>1 DEF DupInv, RunnersOK, RunnerOK
  <2> QED
    BY <1>1, <1>3, <1>5, <2>1 DEF Careful, QuoteHeld
<1> QED
  BY <1>1, <1>5, <1>6, <1>7, <1>8, QuietGrowth, GoesKeeps

LEMMA WriteKeeps ==
  ASSUME IInv, DupInv, NEW w \in Worker, Write(w)
  PROVE  DupInv' /\ Remembers
<1> DEFINE o == run[w]
           r == AfterWrite(o)
<1>1. /\ o.pc \in Writes /\ o.pc # "idle" /\ Effect(w) /\ lost' = lost
      /\ o \in Run /\ run \in [Worker -> Run] /\ nextId \in Nat
  BY RunFacts DEF Write, Writes, QueueOK, HubOK, HubTypeOK
<1>2. CASE o.pc \in {"unavailable", "publish"}
  <2>1. UNCHANGED <<items, quotes, lost>>
    BY <1>1, <1>2 DEF Effect, At, UpdateDeal
  <2>2. Return(w) /\ o.pc \notin QuoteHeld \cup {"save_item"}
    BY <1>2 DEF Write, QuoteHeld
  <2> QED
    BY <1>1, <2>1, <2>2, QuietEndKeeps
<1>3. CASE o.pc \notin {"unavailable", "publish"}
  <2>1. run' = [run EXCEPT ![w] = r] /\ job' = job
    BY <1>1, <1>3 DEF Write
  <2>2. CASE o.pc = "normalize"
    <3>1. UNCHANGED <<items, quotes, lost>> /\ r = GoTo(o, "search")
      BY <1>1, <2>2 DEF Effect, At, UpdateDeal, AfterWrite
    <3> HIDE DEF r
    <3>2. r.pc = "search" /\ SameLists(o, r)
      BY <1>1, <3>1, GoToFields DEF PC, Calls, Reads
    <3>3. Careful(r) /\ o.pc \notin QuoteHeld \cup {"save_item"}
      BY <2>2, <3>2, CarefulElsewhere DEF QuoteHeld, Creates
    <3> QED
      BY <1>1, <2>1, <3>1, <3>2, <3>3, QuietMoveKeeps DEF SameLists
  <2>3. CASE o.pc = "new_product"
    <3>1. /\ UNCHANGED <<items, quotes, lost>>
          /\ r = [GoTo(o, "save_product") EXCEPT !.made = nextId]
      BY <1>1, <2>3 DEF Effect, At, CreateProduct, AfterWrite
    <3>2. r.pc = "save_product" /\ SameLists(o, r)
      <4>1. /\ GoTo(o, "save_product") \in Run /\ GoTo(o, "save_product").pc = "save_product"
            /\ SameLists(o, GoTo(o, "save_product"))
        BY <1>1, GoToFields DEF PC, Saves
      <4> QED
        BY <1>1, <3>1, <4>1, MadeFields
    <3>3. Careful(r) /\ o.pc \notin QuoteHeld \cup {"save_item"}
      BY <2>3, <3>2, CarefulElsewhere DEF QuoteHeld, Creates
    <3> QED
      BY <1>1, <2>1, <3>1, <3>2, <3>3, QuietMoveKeeps DEF SameLists
  <2>4. CASE o.pc = "new_item"
    <3>1. CreateLineItem(o) /\ r = AfterItem(o)
      BY <1>1, <2>4 DEF Effect, At, AfterWrite
    <3> QED
      BY <1>1, <2>1, <2>4, <3>1, NewItemKeeps
  <2>5. CASE o.pc = "new_quote"
    <3>1. CreateQuote(o) /\ r = AfterQuote(o)
      BY <1>1, <2>5 DEF Effect, At, AfterWrite
    <3> QED
      BY <1>1, <2>1, <2>5, <3>1, NewQuoteKeeps
  <2>6. CASE o.pc = "approve"
    <3>1. UNCHANGED <<items, quotes, lost>> /\ r = GoTo(o, "poll")
      BY <1>1, <2>6 DEF Effect, At, ApproveQuote, AfterWrite
    <3> HIDE DEF r
    <3>2. r.pc = "poll" /\ r.made = o.made /\ r.job = o.job /\ r.saved = o.saved
      BY <1>1, <3>1, GoToFields DEF PC, Polls, SameLists
    <3>3. Holding(o, r)
      BY <2>6, <3>2 DEF Holding, QuoteHeld
    <3>4. o.job \in lost' \/ Careful(r)
      <4>1. o.job \in lost \/ Careful(o)
        BY <1>1 DEF DupInv, RunnersOK, RunnerOK
      <4> QED
        BY <1>1, <2>6, <3>2, <4>1 DEF Careful, QuoteHeld
    <3> QED
      BY <1>1, <2>1, <3>1, <3>2, <3>3, <3>4, QuietGrowth, GoesKeeps
  <2> QED
    BY <1>1, <1>3, <2>2, <2>3, <2>4, <2>5, <2>6 DEF Writes
<1> QED
  BY <1>2, <1>3

-----------------------------------------------------------------------------
\* Failing steps: what is made or held and not recorded counts as lost

LEMMA LoadTenantFailsKeeps ==
  ASSUME IInv, DupInv, NEW w \in Worker, LoadTenantFails(w)
  PROVE  DupInv' /\ Remembers
<1>1. /\ run[w].pc # "idle" /\ run[w].pc \notin QuoteHeld \cup {"save_item"}
      /\ UNCHANGED <<items, quotes, lost>>
      /\ ThrowPermanent(w) \/ ThrowRetryable(w)
  BY DEF LoadTenantFails, At, QuoteHeld, hubspot
<1> QED
  BY <1>1, QuietEndKeeps

LEMMA NoTokenKeeps ==
  ASSUME IInv, DupInv, NEW w \in Worker, NoToken(w)
  PROVE  DupInv' /\ Remembers
<1>1. /\ run[w].pc # "idle" /\ run[w].pc \notin QuoteHeld \cup {"save_item"}
      /\ UNCHANGED <<items, quotes, lost>>
      /\ ThrowPermanent(w) \/ ThrowRetryable(w)
  BY DEF NoToken, Calls, Reads, Writes, QuoteHeld, hubspot
<1> QED
  BY <1>1, QuietEndKeeps

\* An end at any step, with the ghost.
LEMMA LosingEndKeeps ==
  ASSUME IInv, DupInv, NEW w \in Worker, run[w].pc # "idle", UNCHANGED <<items, quotes>>,
         NEW state \in JobState, Leave(w, state), Lose(w, FALSE)
  PROVE  DupInv' /\ Remembers
<1>1. run' = [run EXCEPT ![w] = Idle] /\ run \in [Worker -> Run]
  BY RunFacts, LeaveOK DEF QueueOK
<1>2. run'[w].pc = "idle"
  BY <1>1 DEF Idle
<1>3. OnlyLostGrow /\ (Unsaved(w) => run[w].job \in lost')
  BY <1>2, LoseFacts DEF OnlyLostGrow, QuoteHeld
<1> QED
  BY <1>3, LeaveKeeps

LEMMA SaveFailsKeeps ==
  ASSUME IInv, DupInv, NEW w \in Worker, SaveFails(w) \/ SaveRefused(w)
  PROVE  DupInv' /\ Remembers
<1>1. /\ run[w].pc # "idle" /\ UNCHANGED <<items, quotes>> /\ ThrowRetryable(w)
      /\ Lose(w, FALSE)
  BY DEF SaveFails, SaveRefused, Saves, hubspot
<1> QED
  BY <1>1, EndsLeave, LosingEndKeeps

LEMMA CrashKeeps ==
  ASSUME IInv, DupInv, NEW w \in Worker, Crash(w)
  PROVE  DupInv' /\ Remembers
<1>1. /\ run[w].pc # "idle" /\ UNCHANGED <<job, items, quotes>> /\ Lose(w, FALSE)
      /\ run' = [run EXCEPT ![w] = Idle] /\ run \in [Worker -> Run]
  BY DEF Crash, hubspot, IInv, QueueOK
<1>2. run'[w].pc = "idle"
  BY <1>1 DEF Idle
<1>3. OnlyLostGrow /\ (Unsaved(w) => run[w].job \in lost')
  BY <1>1, <1>2, LoseFacts DEF OnlyLostGrow, QuoteHeld
<1> QED
  BY <1>1, <1>3, EndsKeeps

\* The same call again: the run is where it was.
LEMMA AgainKeeps ==
  ASSUME IInv, DupInv, OnlyLostGrow, NEW w \in Worker, run[w].pc \in Calls,
         NEW r \in Run, run' = [run EXCEPT ![w] = r], job' = job,
         SameLists(run[w], r), r.pc = run[w].pc, r.made = run[w].made
  PROVE  DupInv' /\ Remembers
<1>1. /\ run[w].pc # "idle" /\ run[w].pc # "save_item"
      /\ r.job = run[w].job /\ r.saved = run[w].saved
      /\ NextProduct(r) = NextProduct(run[w]) /\ NextOffer(r) = NextOffer(run[w])
      /\ HaveQuote(r) <=> HaveQuote(run[w])
  BY DEF Calls, Reads, Writes, SameLists, NextProduct, NextOffer, HaveQuote
<1>2. Holding(run[w], r)
  BY <1>1 DEF Holding
<1>3. run[w].job \in lost \/ Careful(run[w])
  BY <1>1 DEF DupInv, RunnersOK, RunnerOK
<1>4. run[w].job \in lost' \/ Careful(r)
  BY <1>1, <1>3 DEF Careful, OnlyLostGrow
<1> QED
  BY <1>1, <1>2, <1>4, GoesKeeps

LEMMA CallFailsKeeps ==
  ASSUME IInv, DupInv, NEW w \in Worker, CallFails(w)
  PROVE  DupInv' /\ Remembers
<1>1. /\ run[w].pc \in Calls /\ run[w].pc # "idle" /\ UNCHANGED <<items, quotes>>
      /\ Lose(w, FALSE)
      /\ RetryCall(w) \/ ThrowPermanent(w)
  BY DEF CallFails, Calls, Reads, Writes, hubspot
<1>2. OnlyLostGrow
  BY <1>1, LoseFacts DEF OnlyLostGrow
<1>3. \/ \E state \in JobState : Leave(w, state)
      \/ \E r \in Run : /\ run' = [run EXCEPT ![w] = r] /\ job' = job
                        /\ SameLists(run[w], r) /\ r.pc = run[w].pc /\ r.made = run[w].made
  BY <1>1, RunFacts, RetryOK, EndsLeave
<1> QED
  BY <1>1, <1>2, <1>3, LosingEndKeeps, AgainKeeps

LEMMA CallUnauthorizedKeeps ==
  ASSUME IInv, DupInv, NEW w \in Worker, CallUnauthorized(w)
  PROVE  DupInv' /\ Remembers
<1> DEFINE o == run[w]
           pc == CallbackStart(o.pc)
           r == [o EXCEPT !.pc = pc, !.tries = 0, !.reauthed = TRUE]
<1>1. /\ o.pc \in Calls /\ o.pc # "idle" /\ UNCHANGED <<job, items, quotes>>
      /\ Lose(w, FALSE) /\ o \in Run /\ run \in [Worker -> Run]
  BY RunFacts DEF CallUnauthorized, Calls, Reads, Writes, hubspot, QueueOK
<1>2. run' = [run EXCEPT ![w] = r]
  BY <1>1 DEF CallUnauthorized
<1>3. /\ o.pc = "approve" => pc = "new_quote"
      /\ o.pc = "new_product" => pc = "find"
      /\ o.pc \notin {"approve", "new_product"} => pc = o.pc
  BY DEF CallbackStart
<1>4. pc \in PC
  BY <1>1, <1>3 DEF PC, Calls, Reads, Writes
<1>5. r \in Run /\ r.pc = pc /\ SameLists(o, r) /\ r.made = o.made
  BY <1>1, <1>4 DEF Run, SameLists
<1> HIDE DEF r, pc
<1>6. OnlyLostGrow
  BY <1>1, LoseFacts DEF OnlyLostGrow
<1>7. CASE o.pc \notin {"approve", "new_product"}
  BY <1>1, <1>2, <1>3, <1>5, <1>6, <1>7, AgainKeeps
<1>8. CASE o.pc = "new_product"
  <2>1. Careful(r) /\ Holding(o, r)
    BY <1>3, <1>5, <1>8, CarefulElsewhere DEF Holding, QuoteHeld, Creates
  <2> QED
    BY <1>1, <1>2, <1>5, <1>6, <2>1, GoesKeeps DEF SameLists
<1>9. CASE o.pc = "approve"
  <2>1. run'[w].pc = "new_quote" /\ Unsaved(w)
    BY <1>1, <1>2, <1>3, <1>5, <1>9 DEF Unsaved
  <2>2. o.job \in lost'
    BY <1>1, <2>1, LoseFacts DEF QuoteHeld
  <2> QED
    BY <1>1, <1>2, <1>5, <1>6, <2>2, GoesKeeps DEF SameLists
<1> QED
  BY <1>7, <1>8, <1>9

LEMMA ReplyLostKeeps ==
  ASSUME IInv, DupInv, NEW w \in Worker, ReplyLost(w)
  PROVE  DupInv' /\ Remembers
<1> DEFINE o == run[w]
<1>1. /\ o.pc \in Writes /\ o.pc # "idle" /\ o.pc \in Calls /\ Effect(w) /\ RetryCall(w)
      /\ Lose(w, o.pc \in Creates)
  BY DEF ReplyLost, Writes, Calls
<1>2. /\ lost \subseteq lost'
      /\ o.pc \in Creates => o.job \in lost'
      /\ Unsaved(w) /\ run'[w].pc \notin QuoteHeld \cup {"save_item"} => o.job \in lost'
  BY <1>1, LoseFacts
<1>3. /\ o.pc \notin Creates => UNCHANGED <<items, quotes>>
      /\ items \subseteq items' /\ quotes \subseteq quotes'
      /\ \A i \in items' \ items : i.job = o.job
      /\ \A q \in quotes' \ quotes : q.job = o.job
  BY <1>1 DEF Effect, At, Creates, UpdateDeal, CreateProduct, CreateLineItem, CreateQuote,
              ApproveQuote
<1>4. OnlyLostGrow
  BY <1>2, <1>3 DEF OnlyLostGrow
<1>5. \/ \E state \in JobState : Leave(w, state)
      \/ \E r \in Run : /\ run' = [run EXCEPT ![w] = r] /\ job' = job
                        /\ SameLists(o, r) /\ r.pc = o.pc /\ r.made = o.made
  BY <1>1, RunFacts, RetryOK
<1>6. ASSUME NEW state \in JobState, Leave(w, state)
      PROVE  DupInv' /\ Remembers
  <2>1. run'[w].pc = "idle"
    BY <1>1, <1>6, RunFacts, LeaveOK DEF QueueOK, Idle
  <2>2. Unsaved(w) => o.job \in lost'
    BY <1>2, <2>1 DEF QuoteHeld
  <2> QED
    BY <1>1, <1>4, <1>6, <2>2, LeaveKeeps
<1> QED
  BY <1>1, <1>4, <1>5, <1>6, AgainKeeps

-----------------------------------------------------------------------------
\* The queue's own steps

LEMMA RecoverStalledKeeps ==
  ASSUME IInv, DupInv, NEW j \in Job, RecoverStalled(j)
  PROVE  DupInv' /\ Remembers
<1>1. /\ Stalled(j) /\ Requeue(j) /\ UNCHANGED <<run, items, quotes, lost>>
      /\ job \in [Job -> JobRecord]
  BY DEF RecoverStalled, hubspot, IInv, QueueOK
<1>2. /\ \A k \in Job \ {j} : job'[k] = job[k]
      /\ job'[j].progress = job[j].progress
  BY <1>1 DEF Requeue, JobRecord
<1>3. j \in lost \/ \A w \in Worker : run[w].pc # "idle" => run[w].job # j
  <2> SUFFICES ASSUME j \notin lost, NEW w \in Worker, run[w].pc # "idle", run[w].job = j
               PROVE  FALSE
    OBVIOUS
  <2>1. job[j].lock = w /\ w # None
    BY ConstantsAssumption DEF DupInv, RunnersOK, RunnerOK
  <2> QED
    BY <1>1, <2>1 DEF Stalled, HasRun
<1>4. job[j].state # "removed"
  BY <1>1 DEF Stalled
<1> QED
  BY <1>1, <1>2, <1>3, <1>4, QuietGrowth, QueueKeeps

LEMMA LockLostKeeps ==
  ASSUME IInv, DupInv, NEW j \in Job, LockLost(j)
  PROVE  DupInv' /\ Remembers
<1>1. /\ Requeue(j) /\ UNCHANGED <<run, items, quotes>> /\ lost' = lost \cup {j}
      /\ job \in [Job -> JobRecord]
  BY DEF LockLost, hubspot, IInv, QueueOK
<1>2. /\ \A k \in Job \ {j} : job'[k] = job[k]
      /\ job'[j].progress = job[j].progress
  BY <1>1 DEF Requeue, JobRecord
<1>3. OnlyLostGrow /\ j \in lost'
  BY <1>1 DEF OnlyLostGrow
<1> QED
  BY <1>1, <1>2, <1>3, QueueKeeps

LEMMA AdminKeeps ==
  ASSUME IInv, DupInv, NEW j \in Job, AdminRetry(j) \/ Remove(j)
  PROVE  DupInv' /\ Remembers
<1>1. /\ job[j].state \in {"waiting", "failed", "completed"}
      /\ UNCHANGED <<run, items, quotes, lost>> /\ job \in [Job -> JobRecord]
  BY DEF AdminRetry, Remove, hubspot, IInv, QueueOK
<1>2. /\ \A k \in Job \ {j} : job'[k] = job[k]
      /\ job'[j].progress = job[j].progress \/ job'[j].state = "removed"
  BY <1>1 DEF AdminRetry, Remove, JobRecord
<1>3. j \in lost \/ \A w \in Worker : run[w].pc # "idle" => run[w].job # j
  BY <1>1 DEF DupInv, RunnersOK, RunnerOK
<1> QED
  BY <1>1, <1>2, <1>3, QuietGrowth, QueueKeeps

-----------------------------------------------------------------------------
\* What follows

LEMMA DupInit == Init => DupInv
<1> SUFFICES ASSUME Init PROVE DupInv
  OBVIOUS
<1>1. \A w \in Worker : run[w].pc = "idle"
  BY DEF Init, Idle
<1>2. items = {} /\ quotes = {}
  BY DEF Init
<1> QED
  BY <1>1, <1>2 DEF DupInv, RunnersOK, RunnerOK, ItemsKnown, QuotesKnown, NoDuplicatesUnlessLost

LEMMA DupNext == IInv /\ DupInv /\ [Next]_vars => DupInv' /\ (Remembers \/ UNCHANGED vars)
<1> SUFFICES ASSUME IInv, DupInv, [Next]_vars PROVE DupInv' /\ (Remembers \/ UNCHANGED vars)
  OBVIOUS
<1>1. ASSUME NEW w \in Worker, Step(w) PROVE DupInv' /\ Remembers
  BY <1>1, BeginKeeps, VerifyKeeps, SearchKeeps, ProductKeeps, FindKeeps, ItemKeeps,
     QuoteKeeps, PollKeeps, WriteKeeps, SaveKeeps, SaveFailsKeeps DEF Step
<1>2. ASSUME NEW w \in Worker, Failure(w) PROVE DupInv' /\ Remembers
  BY <1>2, LoadTenantFailsKeeps, SaveFailsKeeps, NoTokenKeeps, CallFailsKeeps,
     CallUnauthorizedKeeps, ReplyLostKeeps, CrashKeeps DEF Failure
<1>3. ASSUME NEW w \in Worker, NEW j \in Job, Take(w, j) PROVE DupInv' /\ Remembers
  BY <1>3, TakeKeeps
<1>4. ASSUME NEW j \in Job, RecoverStalled(j) \/ LockLost(j) \/ AdminRetry(j) \/ Remove(j)
      PROVE  DupInv' /\ Remembers
  BY <1>4, RecoverStalledKeeps, LockLostKeeps, AdminKeeps
<1>5. CASE UNCHANGED vars
  <2>1. RunnersOK' /\ ItemsKnown' /\ QuotesKnown'
    BY <1>5 DEF vars, hubspot, DupInv, RunnersOK, RunnerOK, Careful, HaveQuote, NextProduct,
                NextOffer, IdSet, ItemsKnown, ItemKnown, HoldsItem, QuotesKnown, QuoteKnown,
                HoldsQuote, Kept
  <2>2. NoDuplicatesUnlessLost'
    BY <1>5 DEF vars, hubspot, DupInv, NoDuplicatesUnlessLost
  <2> QED
    BY <1>5, <2>1, <2>2 DEF DupInv
<1> QED
  BY <1>1, <1>2, <1>3, <1>4, <1>5 DEF Next

\* A job that lost nothing is run under its lock, makes what it has not recorded,
\* and has recorded, or holds, all it made.
THEOREM NothingUnrecorded == Spec => []DupInv
<1>1. Init => DupInv
  BY DupInit
<1>2. IInv /\ DupInv /\ [Next]_vars => DupInv'
  BY DupNext
<1> QED
  BY <1>1, <1>2, Invariance, PTL DEF Spec

\* However its attempts end and whoever resumes it, a job that never lost a record
\* has one line item per product and offer, and no quote twice in a row.
THEOREM NoDuplicates == Spec => []NoDuplicatesUnlessLost
<1>1. DupInv => NoDuplicatesUnlessLost
  BY DEF DupInv
<1> QED
  BY <1>1, NothingUnrecorded, PTL

\* No step of a job that kept its lock, save or other, drops what is recorded.
THEOREM NeverForgets == Spec => ProgressNeverForgets
<1>1. IInv /\ DupInv /\ [Next]_vars =>
        [\A j \in Job : (j \notin lost' /\ job'[j].state # "removed") =>
           /\ job[j].progress.products \subseteq job'[j].progress.products
           /\ job[j].progress.items \subseteq job'[j].progress.items
           /\ job[j].progress.quote # None => job'[j].progress.quote # None]_vars
  BY DupNext DEF Remembers
<1> QED
  BY <1>1, Invariance, NothingUnrecorded, PTL DEF Spec, ProgressNeverForgets

-----------------------------------------------------------------------------
\* Discarded jobs: what may know of an object made for one

Gone == {j \in Job : job[j].state = "removed"}

\* Only a job that is run has a lock, so none that is discarded.
LocksOK == \A j \in Job : job[j].state # "active" => job[j].lock = None

RecordClear(p, O) ==
  (\A e \in p.items : e.id \notin O) /\ (p.quote # None => p.quote.id \notin O)

\* The pcs at which a run holds an object it has not recorded, and a quote it has.
Held  == {"save_item", "approve", "poll", "save_quote"}
Shown == {"repoll", "publish"}

\* A run has recorded and collected no orphan, is about to publish none, and holds
\* one only if its job is discarded, so that the save will be refused.
RunClear(r, O, G) ==
  r.pc # "idle" =>
    /\ RecordClear(r.saved, O)
    /\ \A n \in 1..Len(r.itemIds) : r.itemIds[n] \notin O
    /\ r.pc \in Held /\ r.made \in O => r.job \in G
    /\ r.pc \in Shown => r.made \notin O

RunsClear == \A w \in Worker : RunClear(run[w], orphans, Gone)
JobsClear == \A j \in Job : RecordClear(job[j].progress, orphans)
OldIds == \A o \in orphans : o < nextId

OrphanInv == LocksOK /\ RunsClear /\ JobsClear /\ OldIds /\ DiscardedMakeNoOffer

\* How a step may change the queue: discarded jobs stay discarded, and what it
\* records has no orphan in it.
JobsStep ==
  /\ Gone \subseteq Gone' /\ LocksOK'
  /\ \A j \in Job : job'[j].progress = job[j].progress \/ RecordClear(job'[j].progress, orphans')

\* How it may change HubSpot's ids.
OrphansStep ==
  /\ orphans' \subseteq orphans \cup {nextId}
  /\ orphans' = orphans \/ nextId' = nextId + 1
  /\ nextId' \in {nextId, nextId + 1}

\* What a true record names is older than the next id.
LEMMA OldRecords ==
  ASSUME HubOK, NEW p, NEW j, TrueIn(p, j, products, items, quotes, approved),
         RecordClear(p, orphans), NEW O, O \subseteq orphans \cup {nextId}
  PROVE  RecordClear(p, O)
<1>1. \A e \in p.items : e.id \in Nat /\ e.id < nextId
  BY DEF TrueIn, HubOK, IdsOK, HubTypeOK
<1>2. p.quote # None => p.quote.id \in Nat /\ p.quote.id < nextId
  <2> SUFFICES ASSUME p.quote # None PROVE p.quote.id \in Nat /\ p.quote.id < nextId
    OBVIOUS
  <2> DEFINE q == [id |-> p.quote.id, job |-> j, items |-> p.quote.items]
  <2>1. q \in quotes
    BY DEF TrueIn
  <2>2. q.id \in Nat /\ q.id < nextId
    BY <2>1 DEF HubOK, IdsOK, HubTypeOK
  <2> QED
    BY <2>2
<1>3. nextId \in Nat
  BY DEF HubOK, HubTypeOK
<1> QED
  BY <1>1, <1>2, <1>3 DEF RecordClear

\* A run that does not move stays clear.
LEMMA StaysClear ==
  ASSUME IInv, NEW w \in Worker, RunClear(run[w], orphans, Gone),
         NEW O, O \subseteq orphans \cup {nextId}, NEW G, Gone \subseteq G
  PROVE  RunClear(run[w], O, G)
<1> DEFINE r == run[w]
<1> SUFFICES ASSUME r.pc # "idle"
             PROVE  /\ RecordClear(r.saved, O)
                    /\ \A n \in 1..Len(r.itemIds) : r.itemIds[n] \notin O
                    /\ r.pc \in Held /\ r.made \in O => r.job \in G
                    /\ r.pc \in Shown => r.made \notin O
  BY DEF RunClear
<1>1. /\ HubOK /\ r \in Run /\ TrueIn(r.saved, r.job, products, items, quotes, approved)
      /\ ItemsMatch(r, items) /\ MadeExists(r, products, items, quotes, approved)
  BY RunFacts
<1>2. nextId \in Nat /\ IdsOK /\ HubTypeOK
  BY <1>1 DEF HubOK, HubTypeOK
<1>3. \A n \in 1..Len(r.itemIds) : r.itemIds[n] \in Nat /\ r.itemIds[n] < nextId
  BY <1>1, <1>2 DEF ItemsMatch, IdsOK, HubTypeOK
<1>4. r.pc \in Held \cup Shown => r.made # nextId
  <2>1. CASE r.pc = "save_item"
    BY <1>1, <1>2, <2>1 DEF MadeExists, IdsOK, HubTypeOK
  <2>2. CASE r.pc \in {"approve", "poll", "save_quote", "repoll", "publish"}
    <3> DEFINE q == [id |-> r.made, job |-> r.job, items |-> IdSet(r.itemIds)]
    <3>1. q \in quotes /\ q.id = r.made
      BY <1>1, <2>2 DEF MadeExists
    <3> HIDE DEF q
    <3>2. q.id < nextId /\ q.id \in Nat
      BY <1>2, <3>1 DEF IdsOK, HubTypeOK
    <3> QED
      BY <1>2, <3>1, <3>2
  <2> QED
    BY <2>1, <2>2 DEF Held, Shown
<1>5. RecordClear(r.saved, O)
  BY <1>1, OldRecords DEF RunClear
<1> QED
  BY <1>2, <1>3, <1>4, <1>5 DEF RunClear

\* A step keeps the invariant if it changes each part as said.
LEMMA ClearKeeps ==
  ASSUME IInv, OrphanInv, JobsStep, OrphansStep, DiscardedMakeNoOffer',
         \A w \in Worker : run'[w] = run[w] \/ RunClear(run'[w], orphans', Gone')
  PROVE  OrphanInv'
<1>1. HubOK /\ nextId \in Nat /\ orphans \subseteq Nat
  BY DEF IInv, HubOK, HubTypeOK
<1>2. RunsClear'
  <2> SUFFICES ASSUME NEW w \in Worker PROVE RunClear(run'[w], orphans', Gone')
    BY DEF RunsClear
  <2>1. RunClear(run[w], orphans', Gone')
    BY StaysClear DEF OrphanInv, RunsClear, JobsStep, OrphansStep
  <2> QED
    BY <2>1
<1>3. JobsClear'
  <2> SUFFICES ASSUME NEW j \in Job PROVE RecordClear(job'[j].progress, orphans')
    BY DEF JobsClear
  <2>1. RecordClear(job[j].progress, orphans')
    BY <1>1, OldRecords DEF IInv, QueueOK, JobsOK, OrphanInv, JobsClear, OrphansStep
  <2> QED
    BY <2>1 DEF JobsStep
<1>4. OldIds'
  BY <1>1 DEF OldIds, OrphanInv, OrphansStep
<1> QED
  BY <1>2, <1>3, <1>4 DEF OrphanInv, JobsStep

-----------------------------------------------------------------------------
\* The queue's part of each step

\* Records and the set of discarded jobs stay as they are.
LEMMA SameJobs ==
  ASSUME LocksOK, job' = job
  PROVE  JobsStep
BY DEF LocksOK, JobsStep, Gone

\* One job changes, without being brought back.
LEMMA OneJob ==
  ASSUME IInv, LocksOK, NEW j \in Job, job' \in [Job -> JobRecord],
         \A k \in Job \ {j} : job'[k] = job[k],
         job[j].state = "removed" => job'[j].state = "removed",
         job'[j].state # "active" => job'[j].lock = None,
         job'[j].progress = job[j].progress \/ RecordClear(job'[j].progress, orphans')
  PROVE  JobsStep
BY DEF LocksOK, JobsStep, Gone

LEMMA NothingRecorded == \A O : RecordClear(NoProgress, O)
BY DEF RecordClear, NoProgress

\* A run ends: its job is let go of only by the slot that holds its lock.
LEMMA LeaveJobs ==
  ASSUME IInv, LocksOK, NEW w \in Worker, run[w].pc # "idle", NEW state \in JobState,
         state # "active", Leave(w, state)
  PROVE  JobsStep /\ run' = [run EXCEPT ![w] = Idle]
<1> DEFINE j == run[w].job
<1>1. /\ QueueOK /\ j \in Job /\ job[j] \in JobRecord /\ job \in [Job -> JobRecord]
      /\ job' \in [Job -> JobRecord] /\ run' = [run EXCEPT ![w] = Idle]
  BY RunFacts, LeaveOK DEF QueueOK
<1>2. CASE job[j].lock # w
  <2>1. job' = job
    BY <1>2 DEF Leave
  <2> QED
    BY <1>1, <2>1, SameJobs
<1>3. CASE job[j].lock = w
  <2>1. job' = [job EXCEPT ![j].state = state, ![j].lock = None, ![j].attempts = @ + 1]
    BY <1>3 DEF Leave
  <2>2. /\ \A k \in Job \ {j} : job'[k] = job[k]
        /\ job'[j].state = state /\ job'[j].lock = None /\ job'[j].progress = job[j].progress
    BY <1>1, <2>1 DEF JobRecord
  <2>3. job[j].state = "active"
    BY <1>1, <1>3, ConstantsAssumption DEF LocksOK
  <2> QED
    BY <1>1, <2>2, <2>3, OneJob
<1> QED
  BY <1>1, <1>2, <1>3

LEMMA EndJobs ==
  ASSUME IInv, LocksOK, NEW w \in Worker, run[w].pc # "idle",
         Return(w) \/ ThrowPermanent(w) \/ ThrowRetryable(w)
  PROVE  JobsStep /\ run' = [run EXCEPT ![w] = Idle]
<1>1. \E state \in {"completed", "waiting", "failed"} : Leave(w, state)
  BY DEF Return, ThrowPermanent, ThrowRetryable
<1> QED
  BY <1>1, LeaveJobs DEF JobState

\* The queue's own steps.
LEMMA QueueJobs ==
  ASSUME IInv, LocksOK, NEW j \in Job,
         \/ RecoverStalled(j) \/ LockLost(j) \/ AdminRetry(j) \/ Remove(j)
         \/ \E w \in Worker : Take(w, j)
  PROVE  JobsStep
<1>1. job \in [Job -> JobRecord] /\ job[j] \in JobRecord
  BY DEF IInv, QueueOK
<1>2. CASE RecoverStalled(j) \/ LockLost(j)
  <2>1. Requeue(j) /\ job[j].state = "active" /\ UNCHANGED <<run, hubspot>>
    BY <1>2 DEF RecoverStalled, LockLost, Stalled, hubspot
  <2>2. PICK state \in {"waiting", "failed"} :
          job' = [job EXCEPT ![j].state = state, ![j].lock = None, ![j].stalls = @ + 1]
    BY <2>1 DEF Requeue
  <2>3. job' \in [Job -> JobRecord]
    BY <2>1, RequeueOK DEF QueueOK
  <2>4. /\ \A k \in Job \ {j} : job'[k] = job[k]
        /\ job'[j].lock = None /\ job'[j].progress = job[j].progress
    BY <1>1, <2>2 DEF JobRecord
  <2> QED
    BY <2>1, <2>3, <2>4, OneJob
<1>3. CASE AdminRetry(j)
  <2>1. job' = [job EXCEPT ![j].state = "waiting"] /\ job[j].state = "failed"
    BY <1>3 DEF AdminRetry
  <2>2. IInv'
    BY <1>3, AdminRetryOK
  <2>3. /\ \A k \in Job \ {j} : job'[k] = job[k]
        /\ job'[j].lock = job[j].lock /\ job'[j].progress = job[j].progress
    BY <1>1, <2>1 DEF JobRecord
  <2> QED
    BY <2>1, <2>2, <2>3, OneJob DEF LocksOK, IInv, QueueOK
<1>4. CASE Remove(j)
  <2>1. /\ job' = [job EXCEPT ![j].state = "removed", ![j].progress = NoProgress]
        /\ job[j].state # "active"
    BY <1>4 DEF Remove
  <2>2. IInv'
    BY <1>4, RemoveOK
  <2>3. /\ \A k \in Job \ {j} : job'[k] = job[k]
        /\ job'[j].state = "removed" /\ job'[j].lock = job[j].lock
        /\ job'[j].progress = NoProgress
    BY <1>1, <2>1 DEF JobRecord
  <2> QED
    BY <2>1, <2>2, <2>3, OneJob, NothingRecorded DEF LocksOK, IInv, QueueOK
<1>5. ASSUME NEW w \in Worker, Take(w, j) PROVE JobsStep
  <2>1. job' = [job EXCEPT ![j].state = "active", ![j].lock = w] /\ job[j].state = "waiting"
    BY <1>5 DEF Take, Waiting
  <2>2. IInv'
    BY <1>5, TakeOK
  <2>3. /\ \A k \in Job \ {j} : job'[k] = job[k]
        /\ job'[j].state = "active" /\ job'[j].progress = job[j].progress
    BY <1>1, <2>1 DEF JobRecord
  <2> QED
    BY <2>1, <2>2, <2>3, OneJob DEF IInv, QueueOK
<1> QED
  BY <1>2, <1>3, <1>4, <1>5

-----------------------------------------------------------------------------
\* The runs' part of each step

\* A run has come no further with its line items, and holds what it held.
LEMMA MovesClear ==
  ASSUME OrphanInv, NEW w \in Worker, run[w].pc # "idle", NEW r, SameLists(run[w], r),
         \/ r.pc \notin Held \cup Shown
         \/ r.made = run[w].made /\ r.pc \in Held /\ run[w].pc \in Held
         \/ r.made = run[w].made /\ r.pc \in Shown /\ run[w].pc \in Shown
  PROVE  RunClear(r, orphans, Gone)
<1>1. /\ RecordClear(run[w].saved, orphans)
      /\ \A n \in 1..Len(run[w].itemIds) : run[w].itemIds[n] \notin orphans
      /\ run[w].pc \in Held /\ run[w].made \in orphans => run[w].job \in Gone
      /\ run[w].pc \in Shown => run[w].made \notin orphans
  BY DEF OrphanInv, RunsClear, RunClear
<1>2. /\ r.saved = run[w].saved /\ r.itemIds = run[w].itemIds /\ r.job = run[w].job
  BY DEF SameLists
<1>3. RecordClear(r.saved, orphans) /\ \A n \in 1..Len(r.itemIds) : r.itemIds[n] \notin orphans
  BY <1>1, <1>2
<1>4. /\ r.pc \in Held /\ r.made \in orphans => r.job \in Gone
      /\ r.pc \in Shown => r.made \notin orphans
  BY <1>1, <1>2 DEF Held, Shown
<1> QED
  BY <1>3, <1>4 DEF RunClear

\* Without a call that takes effect, only the queue and the run matter.
LEMMA QuietKeeps ==
  ASSUME IInv, OrphanInv, JobsStep, UNCHANGED hubspot,
         \A w \in Worker : run'[w] = run[w] \/ RunClear(run'[w], orphans, Gone)
  PROVE  OrphanInv'
<1>1. OrphansStep /\ DiscardedMakeNoOffer' /\ orphans' = orphans
  BY DEF OrphansStep, OrphanInv, DiscardedMakeNoOffer, hubspot, IInv, HubOK, HubTypeOK
<1>2. \A r : RunClear(r, orphans, Gone) => RunClear(r, orphans', Gone')
  BY <1>1 DEF RunClear, JobsStep
<1> QED
  BY <1>1, <1>2, ClearKeeps

\* A run goes on, or ends.
LEMMA OneRunKeeps ==
  ASSUME IInv, OrphanInv, JobsStep, UNCHANGED hubspot, NEW w \in Worker, NEW r,
         run' = [run EXCEPT ![w] = r], RunClear(r, orphans, Gone)
  PROVE  OrphanInv'
<1>1. \A v \in Worker : run'[v] = run[v] \/ RunClear(run'[v], orphans, Gone)
  BY DEF IInv, QueueOK
<1> QED
  BY <1>1, QuietKeeps

LEMMA IdleClear == \A O, G : RunClear(Idle, O, G)
BY DEF RunClear, Idle

LEMMA EndClear ==
  ASSUME IInv, OrphanInv, NEW w \in Worker, run[w].pc # "idle", UNCHANGED hubspot,
         Return(w) \/ ThrowPermanent(w) \/ ThrowRetryable(w)
  PROVE  OrphanInv'
BY EndJobs, IdleClear, OneRunKeeps DEF OrphanInv

\* The same call again, or the end of the run.
LEMMA RetryClear ==
  ASSUME IInv, OrphanInv, NEW w \in Worker, run[w].pc # "idle", RetryCall(w)
  PROVE  JobsStep /\ \E r : /\ run' = [run EXCEPT ![w] = r] /\ RunClear(r, orphans, Gone)
                            /\ r = Idle \/ (r.pc = run[w].pc /\ SameLists(run[w], r))
<1>1. CASE run[w].tries + 1 < MaxTries
  <2> DEFINE r == [run[w] EXCEPT !.tries = @ + 1]
  <2>1. run' = [run EXCEPT ![w] = r] /\ job' = job
    BY <1>1, RunFacts DEF RetryCall, QueueOK
  <2>2. SameLists(run[w], r) /\ r.pc = run[w].pc /\ r.made = run[w].made
    BY RunFacts, TriesFields
  <2> HIDE DEF r
  <2>3. RunClear(r, orphans, Gone)
    BY <2>2, MovesClear
  <2> QED
    BY <2>1, <2>2, <2>3, SameJobs DEF OrphanInv
<1>2. CASE ~(run[w].tries + 1 < MaxTries)
  BY <1>2, EndJobs, IdleClear DEF RetryCall, OrphanInv
<1> QED
  BY <1>1, <1>2

-----------------------------------------------------------------------------
\* The steps that make no call that takes effect

\* A line item that is recorded joins the list.
LEMMA HaveItemClear ==
  ASSUME OrphanInv, NEW w \in Worker, run[w] \in Run, run[w].pc # "idle",
         NEW id \in Nat, id \notin orphans
  PROVE  RunClear(HaveItem(run[w], id), orphans, Gone)
<1> DEFINE o == run[w]
           ids == Append(o.itemIds, id)
           r == HaveItem(o, id)
<1>1. /\ r.pc \in {"item", "quote"} /\ r.saved = o.saved /\ r.itemIds = ids
  BY DEF HaveItem, GoTo, Run
<1>2. /\ RecordClear(o.saved, orphans)
      /\ \A n \in 1..Len(o.itemIds) : o.itemIds[n] \notin orphans
  BY DEF OrphanInv, RunsClear, RunClear
<1>3. o.itemIds \in Seq(Nat)
  BY DEF Run
<1>4. \A n \in 1..Len(ids) : ids[n] = id \/ (n \in 1..Len(o.itemIds) /\ ids[n] = o.itemIds[n])
  BY <1>3
<1> HIDE DEF r, ids
<1>5. \A n \in 1..Len(r.itemIds) : r.itemIds[n] \notin orphans
  BY <1>1, <1>2, <1>4
<1>6. RunClear(r, orphans, Gone)
  BY <1>1, <1>2, <1>5 DEF RunClear, Held, Shown
<1> QED
  BY <1>6 DEF r

LEMMA HaveProductClear ==
  ASSUME OrphanInv, NEW w \in Worker, run[w] \in Run, run[w].pc # "idle", NEW id \in Nat
  PROVE  RunClear(HaveProduct(run[w], id), orphans, Gone)
<1> DEFINE o == run[w]
           r == HaveProduct(o, id)
<1>1. r.pc \in {"product", "item"} /\ r.saved = o.saved /\ r.itemIds = o.itemIds
  BY DEF HaveProduct, GoTo, Run
<1>2. /\ RecordClear(o.saved, orphans)
      /\ \A n \in 1..Len(o.itemIds) : o.itemIds[n] \notin orphans
  BY DEF OrphanInv, RunsClear, RunClear
<1> HIDE DEF r
<1>3. RunClear(r, orphans, Gone)
  BY <1>1, <1>2 DEF RunClear, Held, Shown
<1> QED
  BY <1>3 DEF r

\* On to a pc where nothing is held.
LEMMA GoToClear ==
  ASSUME OrphanInv, NEW w \in Worker, run[w] \in Run, run[w].pc # "idle",
         NEW pc \in PC \ (Held \cup Shown)
  PROVE  /\ RunClear(GoTo(run[w], pc), orphans, Gone)
         /\ RunClear(Within(run[w], pc), orphans, Gone)
         /\ \A m \in Nat : RunClear([GoTo(run[w], pc) EXCEPT !.made = m], orphans, Gone)
<1>1. /\ GoTo(run[w], pc) \in Run /\ GoTo(run[w], pc).pc = pc
      /\ SameLists(run[w], GoTo(run[w], pc))
      /\ Within(run[w], pc).pc = pc /\ SameLists(run[w], Within(run[w], pc))
  BY GoToFields
<1>2. ASSUME NEW m \in Nat
      PROVE  LET s == [GoTo(run[w], pc) EXCEPT !.made = m] IN
             s.pc = pc /\ SameLists(run[w], s)
  BY <1>1, MadeFields
<1> QED
  BY <1>1, <1>2, MovesClear

LEMMA EarlyClear ==
  ASSUME IInv, OrphanInv, NEW w \in Worker,
         \/ Begin(w) \/ LoadTenantFails(w) \/ Verify(w) \/ NoToken(w)
         \/ SaveFails(w) \/ SaveRefused(w)
  PROVE  OrphanInv'
<1>1. run[w].pc # "idle" /\ UNCHANGED hubspot
  BY DEF Begin, LoadTenantFails, Verify, NoToken, SaveFails, SaveRefused, At, Calls, Reads,
         Writes, Saves
<1>2. \/ Return(w) \/ ThrowPermanent(w) \/ ThrowRetryable(w)
      \/ /\ job' = job
         /\ \E pc \in {"verify", "normalize"} : run' = [run EXCEPT ![w] = GoTo(@, pc)]
  BY DEF Begin, LoadTenantFails, Verify, NoToken, SaveFails, SaveRefused
<1>3. ASSUME NEW pc \in {"verify", "normalize"}, run' = [run EXCEPT ![w] = GoTo(@, pc)],
             job' = job
      PROVE  OrphanInv'
  <2>1. pc \in PC \ (Held \cup Shown)
    BY DEF PC, Calls, Reads, Writes, Held, Shown
  <2>2. run' = [run EXCEPT ![w] = GoTo(run[w], pc)]
    BY <1>1, <1>3, RunFacts DEF QueueOK
  <2>3. RunClear(GoTo(run[w], pc), orphans, Gone) /\ JobsStep
    BY <1>1, <1>3, <2>1, RunFacts, GoToClear, SameJobs DEF OrphanInv
  <2> QED
    BY <1>1, <2>2, <2>3, OneRunKeeps
<1> QED
  BY <1>1, <1>2, <1>3, EndClear

LEMMA SearchClear ==
  ASSUME IInv, OrphanInv, NEW w \in Worker, Search(w)
  PROVE  OrphanInv'
<1>1. /\ At(w, "search") /\ job' = job /\ UNCHANGED hubspot /\ run[w].pc # "idle"
      /\ run[w] \in Run /\ run \in [Worker -> Run]
  BY RunFacts DEF Search, At, QueueOK
<1>2. PICK s \in Selections :
        run' = [run EXCEPT ![w] = [GoTo(run[w], IF s = <<>> THEN "unavailable" ELSE "product")
                                    EXCEPT !.sel = s]]
  BY <1>1 DEF Search
<1> DEFINE pc == IF s = <<>> THEN "unavailable" ELSE "product"
           r == [GoTo(run[w], pc) EXCEPT !.sel = s]
<1>3. /\ r.pc \in {"unavailable", "product"} /\ r.saved = run[w].saved
      /\ r.itemIds = run[w].itemIds
  BY <1>1 DEF GoTo, Run
<1>4. /\ RecordClear(run[w].saved, orphans)
      /\ \A n \in 1..Len(run[w].itemIds) : run[w].itemIds[n] \notin orphans
  BY <1>1 DEF OrphanInv, RunsClear, RunClear
<1>5. run' = [run EXCEPT ![w] = r]
  BY <1>2
<1> HIDE DEF r
<1>6. RunClear(r, orphans, Gone)
  BY <1>3, <1>4 DEF RunClear, Held, Shown
<1> QED
  BY <1>1, <1>5, <1>6, SameJobs, OneRunKeeps DEF OrphanInv

LEMMA ProductClear ==
  ASSUME IInv, OrphanInv, NEW w \in Worker, Product(w)
  PROVE  OrphanInv'
<1>1. /\ job' = job /\ UNCHANGED hubspot /\ run[w].pc # "idle"
      /\ run[w] \in Run /\ run \in [Worker -> Run]
  BY RunFacts DEF Product, At, QueueOK
<1>2. \/ \E e \in run[w].saved.products : run' = [run EXCEPT ![w] = HaveProduct(run[w], e.id)]
      \/ run' = [run EXCEPT ![w] = GoTo(run[w], "find")]
  BY <1>1 DEF Product
<1>3. \A e \in run[w].saved.products : e.id \in Nat
  BY <1>1 DEF Run, Progress, ProductEntry
<1>4. "find" \in PC \ (Held \cup Shown)
  BY DEF PC, Calls, Reads, Held, Shown
<1>5. \E r : run' = [run EXCEPT ![w] = r] /\ RunClear(r, orphans, Gone)
  BY <1>1, <1>2, <1>3, <1>4, HaveProductClear, GoToClear
<1> QED
  BY <1>1, <1>5, SameJobs, OneRunKeeps DEF OrphanInv

LEMMA FindClear ==
  ASSUME IInv, OrphanInv, NEW w \in Worker, Find(w)
  PROVE  OrphanInv'
<1>1. /\ job' = job /\ UNCHANGED hubspot /\ run[w].pc # "idle"
      /\ run[w] \in Run /\ run \in [Worker -> Run] /\ HubTypeOK
  BY RunFacts DEF Find, At, QueueOK, HubOK
<1>2. \/ \E p \in products :
           run' = [run EXCEPT ![w] = [GoTo(run[w], "save_product") EXCEPT !.made = p.id]]
      \/ run' = [run EXCEPT ![w] = Within(run[w], "new_product")]
  BY <1>1 DEF Find
<1>3. \A p \in products : p.id \in Nat
  BY <1>1 DEF HubTypeOK
<1>4. {"save_product", "new_product"} \subseteq PC \ (Held \cup Shown)
  BY DEF PC, Calls, Writes, Saves, Held, Shown
<1>5. \E r : run' = [run EXCEPT ![w] = r] /\ RunClear(r, orphans, Gone)
  BY <1>1, <1>2, <1>3, <1>4, GoToClear
<1> QED
  BY <1>1, <1>5, SameJobs, OneRunKeeps DEF OrphanInv

LEMMA ItemClear ==
  ASSUME IInv, OrphanInv, NEW w \in Worker, Item(w)
  PROVE  OrphanInv'
<1>1. /\ job' = job /\ UNCHANGED hubspot /\ run[w].pc # "idle"
      /\ run[w] \in Run /\ run \in [Worker -> Run]
  BY RunFacts DEF Item, At, QueueOK
<1>2. \/ \E e \in run[w].saved.items : run' = [run EXCEPT ![w] = HaveItem(run[w], e.id)]
      \/ run' = [run EXCEPT ![w] = GoTo(run[w], "new_item")]
  BY <1>1 DEF Item
<1>3. \A e \in run[w].saved.items : e.id \in Nat /\ e.id \notin orphans
  BY <1>1 DEF Run, Progress, ItemEntry, OrphanInv, RunsClear, RunClear, RecordClear
<1>4. "new_item" \in PC \ (Held \cup Shown)
  BY DEF PC, Calls, Writes, Held, Shown
<1>5. \E r : run' = [run EXCEPT ![w] = r] /\ RunClear(r, orphans, Gone)
  BY <1>1, <1>2, <1>3, <1>4, HaveItemClear, GoToClear
<1> QED
  BY <1>1, <1>5, SameJobs, OneRunKeeps DEF OrphanInv

\* A quote an earlier attempt recorded is no orphan.
LEMMA QuoteClear ==
  ASSUME IInv, OrphanInv, NEW w \in Worker, Quote(w)
  PROVE  OrphanInv'
<1>1. /\ job' = job /\ UNCHANGED hubspot /\ run[w].pc # "idle"
      /\ run[w] \in Run /\ run \in [Worker -> Run]
  BY RunFacts DEF Quote, At, QueueOK
<1>2. \E r : run' = [run EXCEPT ![w] = r] /\ RunClear(r, orphans, Gone)
  <2>1. CASE HaveQuote(run[w])
    <3> DEFINE known == run[w].saved.quote
               pc == IF known.link THEN "publish" ELSE "repoll"
               g == GoTo(run[w], pc)
               r == [g EXCEPT !.made = known.id, !.link = known.link]
    <3>1. run' = [run EXCEPT ![w] = r]
      BY <1>1, <2>1 DEF Quote
    <3>2. known # None /\ pc \in PC /\ pc \in Shown
      BY <2>1 DEF HaveQuote, PC, Polls, Calls, Writes, Shown
    <3>3. /\ RecordClear(run[w].saved, orphans) /\ known.id \notin orphans
          /\ \A n \in 1..Len(run[w].itemIds) : run[w].itemIds[n] \notin orphans
      BY <1>1, <3>2 DEF OrphanInv, RunsClear, RunClear, RecordClear
    <3>4. g \in Run /\ g.pc = pc /\ SameLists(run[w], g)
      BY <1>1, <3>2, GoToFields
    <3> HIDE DEF known, pc, g
    <3>5. r.pc = pc /\ r.saved = run[w].saved /\ r.itemIds = run[w].itemIds /\ r.made = known.id
      BY <3>4 DEF Run, SameLists
    <3> HIDE DEF r
    <3>6. RunClear(r, orphans, Gone)
      BY <3>2, <3>3, <3>5 DEF RunClear, Held, Shown
    <3> QED
      BY <3>1, <3>6
  <2>2. CASE ~HaveQuote(run[w])
    <3>1. run' = [run EXCEPT ![w] = GoTo(run[w], "new_quote")]
      BY <1>1, <2>2 DEF Quote
    <3>2. "new_quote" \in PC \ (Held \cup Shown)
      BY DEF PC, Calls, Writes, Held, Shown
    <3> QED
      BY <1>1, <3>1, <3>2, GoToClear
  <2> QED
    BY <2>1, <2>2
<1> QED
  BY <1>1, <1>2, SameJobs, OneRunKeeps DEF OrphanInv

LEMMA PollClear ==
  ASSUME IInv, OrphanInv, NEW w \in Worker, Poll(w)
  PROVE  OrphanInv'
<1>1. /\ run[w].pc \in Polls /\ job' = job /\ UNCHANGED hubspot /\ run[w].pc # "idle"
      /\ run[w] \in Run /\ run \in [Worker -> Run]
  BY RunFacts DEF Poll, Polls, QueueOK
<1> DEFINE pc == IF At(w, "poll") THEN "save_quote" ELSE "publish"
           g == GoTo(run[w], pc)
<1>2. PICK found \in BOOLEAN : run' = [run EXCEPT ![w] = [g EXCEPT !.link = found]]
  BY <1>1 DEF Poll
<1> DEFINE r == [g EXCEPT !.link = found]
<1>3. /\ pc \in PC
      /\ run[w].pc = "poll" => pc = "save_quote"
      /\ run[w].pc = "repoll" => pc = "publish"
  BY DEF PC, Saves, Calls, Writes, At
<1>4. g \in Run /\ g.pc = pc /\ SameLists(run[w], g) /\ g.made = run[w].made
  BY <1>1, <1>3, GoToFields
<1> HIDE DEF pc, g
<1>5. r.pc = pc /\ SameLists(run[w], r) /\ r.made = run[w].made
  BY <1>4, LinkFields
<1>6. run' = [run EXCEPT ![w] = r]
  BY <1>2
<1> HIDE DEF r
<1>7. RunClear(r, orphans, Gone)
  BY <1>1, <1>3, <1>5, MovesClear DEF Polls, Held, Shown
<1> QED
  BY <1>1, <1>6, <1>7, SameJobs, OneRunKeeps DEF OrphanInv

\* A crash, a failing call and a 401.
LEMMA CallClear ==
  ASSUME IInv, OrphanInv, NEW w \in Worker, Crash(w) \/ CallFails(w) \/ CallUnauthorized(w)
  PROVE  OrphanInv'
<1>1. /\ UNCHANGED hubspot /\ run[w].pc # "idle" /\ run[w] \in Run
      /\ run \in [Worker -> Run]
  BY RunFacts DEF Crash, CallFails, CallUnauthorized, Calls, Reads, Writes, hubspot, QueueOK
<1>2. CASE Crash(w)
  <2>1. job' = job /\ run' = [run EXCEPT ![w] = Idle]
    BY <1>2 DEF Crash
  <2> QED
    BY <1>1, <2>1, SameJobs, IdleClear, OneRunKeeps DEF OrphanInv
<1>3. CASE CallFails(w)
  <2>1. RetryCall(w) \/ ThrowPermanent(w)
    BY <1>3 DEF CallFails
  <2>2. CASE RetryCall(w)
    <3>1. JobsStep /\ \E r : run' = [run EXCEPT ![w] = r] /\ RunClear(r, orphans, Gone)
      BY <1>1, <2>2, RetryClear
    <3> QED
      BY <1>1, <3>1, OneRunKeeps
  <2> QED
    BY <1>1, <2>1, <2>2, EndClear
<1>4. CASE CallUnauthorized(w)
  <2> DEFINE pc == CallbackStart(run[w].pc)
             r == [run[w] EXCEPT !.pc = pc, !.tries = 0, !.reauthed = TRUE]
  <2>1. job' = job /\ run' = [run EXCEPT ![w] = r] /\ run[w].pc \in Calls
    BY <1>1, <1>4 DEF CallUnauthorized
  <2>2. pc = run[w].pc \/ pc \in {"new_quote", "find"}
    BY DEF CallbackStart
  <2>3. r.pc = pc /\ SameLists(run[w], r) /\ r.made = run[w].made
    BY <1>1 DEF Run, SameLists
  <2> HIDE DEF r, pc
  <2>4. RunClear(r, orphans, Gone)
    BY <1>1, <2>2, <2>3, MovesClear DEF Held, Shown
  <2> QED
    BY <1>1, <2>1, <2>4, SameJobs, OneRunKeeps DEF OrphanInv
<1> QED
  BY <1>2, <1>3, <1>4

\* What is saved, while the job is there, has no orphan in it.
LEMMA SaveClear ==
  ASSUME IInv, OrphanInv, NEW w \in Worker, Save(w)
  PROVE  OrphanInv'
<1> DEFINE o == run[w]
           j == o.job
           p == Recorded(o)
           a == AfterSave(o)
           r == [a EXCEPT !.saved = p]
<1>1. /\ o.pc \in Saves /\ o.pc # "idle" /\ UNCHANGED hubspot
      /\ j \in Job /\ job[j].state # "removed" /\ o \in Run
      /\ run \in [Worker -> Run] /\ job \in [Job -> JobRecord] /\ job[j] \in JobRecord
  BY RunFacts DEF Save, Saves, QueueOK
<1>2. /\ job' = [job EXCEPT ![j].progress = p]
      /\ run' = [run EXCEPT ![w] = r]
  BY <1>1 DEF Save
<1>3. /\ RecordClear(o.saved, orphans)
      /\ \A n \in 1..Len(o.itemIds) : o.itemIds[n] \notin orphans
      /\ o.pc \in Held => o.made \notin orphans
  BY <1>1 DEF OrphanInv, RunsClear, RunClear, Gone
<1>4. o.made \in Nat /\ o.saved \in Progress
  BY <1>1 DEF Run
<1>5. RecordClear(p, orphans)
  <2>1. CASE o.pc = "save_product"
    <3>1. p.items = o.saved.items /\ p.quote = o.saved.quote
      BY <1>4, <2>1 DEF Recorded, Progress
    <3> QED
      BY <1>3, <3>1 DEF RecordClear
  <2>2. CASE o.pc = "save_item"
    <3>1. p.items = o.saved.items \cup {MadeItem(o)} /\ p.quote = o.saved.quote
      BY <1>4, <2>2 DEF Recorded, Progress
    <3>2. MadeItem(o).id = o.made /\ o.made \notin orphans
      BY <1>3, <2>2 DEF MadeItem, Held
    <3> QED
      BY <1>3, <3>1, <3>2 DEF RecordClear
  <2>3. CASE o.pc = "save_quote"
    <3>1. p.items = o.saved.items /\ p.quote = MadeQuote(o)
      BY <1>4, <2>3 DEF Recorded, WithQuote, Progress
    <3>2. MadeQuote(o).id = o.made /\ o.made \notin orphans
      BY <1>3, <2>3 DEF MadeQuote, Held
    <3> QED
      BY <1>3, <3>1, <3>2 DEF RecordClear
  <2> QED
    BY <1>1, <2>1, <2>2, <2>3 DEF Saves
<1>6. a \in Run /\ p \in Progress
  BY <1>1, AfterSaveOK, RecordedOK
<1>7. RunClear(a, orphans, Gone) /\ a.pc \notin Held
  <2>1. CASE o.pc = "save_product"
    <3>1. a = HaveProduct(o, o.made)
      BY <2>1 DEF AfterSave
    <3>2. a.pc \in {"product", "item"}
      BY <1>1, <3>1 DEF HaveProduct, GoTo, Run
    <3> QED
      BY <1>1, <1>4, <3>1, <3>2, HaveProductClear DEF Held
  <2>2. CASE o.pc = "save_item"
    <3>1. a = HaveItem(o, o.made) /\ o.made \notin orphans
      BY <1>3, <2>2 DEF AfterSave, Held
    <3>2. a.pc \in {"item", "quote"}
      BY <1>1, <3>1 DEF HaveItem, GoTo, Run
    <3> QED
      BY <1>1, <1>4, <3>1, <3>2, HaveItemClear DEF Held
  <2>3. CASE o.pc = "save_quote"
    <3>1. a = GoTo(o, "publish") /\ o.made \notin orphans
      BY <1>3, <2>3 DEF AfterSave, Held
    <3>2. "publish" \in PC
      BY DEF PC, Calls, Writes
    <3>3. a.pc = "publish" /\ SameLists(o, a) /\ a.made = o.made
      BY <1>1, <3>1, <3>2, GoToFields
    <3>4. a.saved = o.saved /\ a.itemIds = o.itemIds
      BY <3>3 DEF SameLists
    <3> HIDE DEF a
    <3> QED
      BY <1>3, <3>1, <3>3, <3>4 DEF RunClear, Held, Shown
  <2> QED
    BY <1>1, <2>1, <2>2, <2>3 DEF Saves
<1> HIDE DEF p, a
<1>8. r.pc = a.pc /\ r.saved = p /\ r.itemIds = a.itemIds /\ r.made = a.made
  BY <1>6 DEF Run
<1> HIDE DEF r
<1>9. RunClear(r, orphans, Gone)
  BY <1>5, <1>7, <1>8 DEF RunClear
<1>10. JobsStep
  <2>1. /\ job' \in [Job -> JobRecord] /\ \A k \in Job \ {j} : job'[k] = job[k]
        /\ job'[j].state = job[j].state /\ job'[j].lock = job[j].lock
        /\ job'[j].progress = p
    BY <1>1, <1>2, <1>6 DEF JobRecord
  <2>2. orphans' = orphans
    BY <1>1 DEF hubspot
  <2> QED
    BY <1>1, <1>5, <2>1, <2>2, OneJob DEF OrphanInv, LocksOK
<1> QED
  BY <1>1, <1>2, <1>9, <1>10, OneRunKeeps

-----------------------------------------------------------------------------
\* A call that takes effect

\* Nothing shown, and nothing in a quote, is the object being made.
LEMMA EffectClear ==
  ASSUME IInv, OrphanInv, NEW w \in Worker, Effect(w)
  PROVE  /\ OrphansStep /\ DiscardedMakeNoOffer'
         /\ run[w].pc \notin Creates => orphans' = orphans
         /\ run[w].job \notin Gone => orphans' = orphans
<1> DEFINE r == run[w]
<1>1. /\ r.pc # "idle" /\ r.pc \in Writes /\ r.job \in Job /\ IdsOK /\ HubTypeOK
      /\ nextId \in Nat /\ DealShowsApprovedQuote
  BY RunFacts DEF Effect, At, Writes, HubOK, HubTypeOK
<1>2. DiscardedMakeNoOffer /\ deal.quote # nextId /\ deal.link # nextId
  BY <1>1 DEF OrphanInv, IdsOK, HubTypeOK, DealShowsApprovedQuote
<1>3. \A q \in quotes : nextId \notin q.items
  BY <1>1 DEF IdsOK, HubTypeOK
<1>4. CASE r.pc \in {"normalize", "unavailable"}
  <2>1. /\ UNCHANGED <<quotes, nextId, orphans>>
        /\ deal'.quote = deal.quote /\ deal'.link = deal.link
    BY <1>1, <1>4 DEF Effect, At, UpdateDeal, HubTypeOK
  <2> QED
    BY <1>1, <1>2, <1>4, <2>1 DEF OrphansStep, DiscardedMakeNoOffer, Creates
<1>5. CASE r.pc = "publish"
  <2>1. /\ UNCHANGED <<quotes, nextId, orphans>> /\ deal' = Published(r)
    BY <1>5 DEF Effect, At, UpdateDeal
  <2>2. deal'.quote = r.made /\ deal'.link \in {deal.link, r.made}
    BY <1>1, <2>1 DEF HubTypeOK, Published
  <2>3. r.made \notin orphans
    BY <1>5 DEF OrphanInv, RunsClear, RunClear, Shown
  <2> QED
    BY <1>1, <1>2, <1>5, <2>1, <2>2, <2>3 DEF OrphansStep, DiscardedMakeNoOffer, Creates
<1>6. CASE r.pc = "new_product"
  <2>1. nextId' = nextId + 1 /\ UNCHANGED <<quotes, deal, orphans>>
    BY <1>6 DEF Effect, At, CreateProduct
  <2> QED
    BY <1>1, <1>2, <1>6, <2>1 DEF OrphansStep, DiscardedMakeNoOffer, Creates
<1>7. CASE r.pc = "approve"
  <2>1. UNCHANGED <<quotes, deal, nextId, orphans>>
    BY <1>7 DEF Effect, At, ApproveQuote
  <2> QED
    BY <1>1, <1>2, <1>7, <2>1 DEF OrphansStep, DiscardedMakeNoOffer, Creates
<1>8. CASE r.pc = "new_item"
  <2>1. nextId' = nextId + 1 /\ UNCHANGED <<quotes, deal>> /\ Orphan(r)
    BY <1>8 DEF Effect, At, CreateLineItem
  <2>2. /\ orphans' \subseteq orphans \cup {nextId}
        /\ r.job \notin Gone => orphans' = orphans
    BY <1>1, <2>1 DEF Orphan, Gone
  <2>3. DiscardedMakeNoOffer'
    BY <1>2, <1>3, <2>1, <2>2 DEF DiscardedMakeNoOffer
  <2> QED
    BY <1>8, <2>1, <2>2, <2>3 DEF OrphansStep, Creates
<1>9. CASE r.pc = "new_quote"
  <2> DEFINE q == [id |-> nextId, job |-> r.job, items |-> IdSet(r.itemIds)]
  <2>1. nextId' = nextId + 1 /\ quotes' = quotes \cup {q} /\ UNCHANGED deal /\ Orphan(r)
    BY <1>9 DEF Effect, At, CreateQuote
  <2>2. /\ orphans' \subseteq orphans \cup {nextId}
        /\ r.job \notin Gone => orphans' = orphans
    BY <1>1, <2>1 DEF Orphan, Gone
  <2>3. ItemsMatch(r, items) /\ \A n \in 1..Len(r.itemIds) : r.itemIds[n] \notin orphans
    BY <1>1, RunFacts DEF OrphanInv, RunsClear, RunClear
  <2>4. \A n \in 1..Len(r.itemIds) : r.itemIds[n] # nextId
    BY <1>1, <2>3 DEF ItemsMatch, IdsOK, HubTypeOK
  <2>5. q.items \cap orphans' = {}
    BY <2>2, <2>3, <2>4 DEF IdSet
  <2>6. DiscardedMakeNoOffer'
    BY <1>2, <1>3, <2>1, <2>2, <2>5 DEF DiscardedMakeNoOffer
  <2> QED
    BY <1>9, <2>1, <2>2, <2>6 DEF OrphansStep, Creates
<1> QED
  BY <1>1, <1>4, <1>5, <1>6, <1>7, <1>8, <1>9 DEF Writes

\* The run that made the call: what it made for a job still there is no orphan.
LEMMA EffectKeeps ==
  ASSUME IInv, OrphanInv, NEW w \in Worker, Effect(w), JobsStep, NEW r,
         run' = [run EXCEPT ![w] = r],
         \/ r = Idle
         \/ /\ RunClear(r, orphans, Gone) /\ r.pc = run[w].pc /\ SameLists(run[w], r)
         \/ job' = job /\ r = AfterWrite(run[w]) /\ run[w].pc \notin {"unavailable", "publish"}
  PROVE  OrphanInv'
<1> DEFINE o == run[w]
<1>1. /\ OrphansStep /\ DiscardedMakeNoOffer'
      /\ o.pc \notin Creates => orphans' = orphans
      /\ o.job \notin Gone => orphans' = orphans
  BY EffectClear
<1>2. /\ o.pc \in Writes /\ o.pc # "idle" /\ o \in Run /\ o.job \in Job
      /\ run \in [Worker -> Run] /\ nextId \in Nat
      /\ o.pc # "idle"
  BY RunFacts DEF Effect, At, Writes, QueueOK, HubOK, HubTypeOK
<1>3. RunClear(o, orphans', Gone')
  BY <1>1, StaysClear DEF OrphanInv, RunsClear, OrphansStep, JobsStep
<1>4. RecordClear(o.saved, orphans') /\ \A n \in 1..Len(o.itemIds) : o.itemIds[n] \notin orphans'
  BY <1>2, <1>3 DEF RunClear
<1>5. RunClear(r, orphans', Gone')
  <2>1. CASE r = Idle
    BY <2>1, IdleClear
  <2>2. CASE RunClear(r, orphans, Gone) /\ r.pc = o.pc /\ SameLists(o, r)
    <3>1. r.saved = o.saved /\ r.itemIds = o.itemIds /\ r.job = o.job
      BY <2>2 DEF SameLists
    <3>2. CASE orphans' = orphans
      BY <2>2, <3>2 DEF RunClear, JobsStep
    <3>3. CASE o.pc \in Creates
      BY <1>4, <2>2, <3>1, <3>3 DEF RunClear, Creates, Held, Shown
    <3> QED
      BY <1>1, <3>2, <3>3
  <2>3. CASE job' = job /\ r = AfterWrite(o) /\ o.pc \notin {"unavailable", "publish"}
    <3>1. r.saved = o.saved /\ r.itemIds = o.itemIds /\ r.job = o.job
      BY <1>2, <2>3 DEF AfterWrite, AfterItem, AfterQuote, GoTo, Within, Run, Writes
    <3>2. CASE o.pc \in {"normalize", "new_product"}
      <4>1. r.pc \in {"search", "save_product"}
        BY <1>2, <2>3, <3>2 DEF AfterWrite, GoTo, Run
      <4> QED
        BY <1>4, <3>1, <4>1 DEF RunClear, Held, Shown
    <3>3. CASE o.pc \in Creates
      <4>1. r.pc \in Held
        BY <1>2, <2>3, <3>3 DEF AfterWrite, AfterItem, AfterQuote, GoTo, Within, Run, Creates, Held
      <4>2. r.made = nextId
        BY <1>2, <2>3, <3>3 DEF AfterWrite, AfterItem, AfterQuote, GoTo, Within, Run, Creates
      <4>3. nextId \notin orphans
        BY <1>2 DEF OrphanInv, OldIds
      <4>4. r.made \in orphans' => r.job \in Gone'
        BY <1>1, <3>1, <4>2, <4>3, <2>3 DEF JobsStep
      <4> QED
        BY <1>4, <3>1, <4>1, <4>4 DEF RunClear, Held, Shown
    <3>4. CASE o.pc = "approve"
      <4>1. r.pc = "poll" /\ r.made = o.made
        BY <1>2, <2>3, <3>4 DEF AfterWrite, GoTo, Run
      <4>2. o.made \in orphans' => o.job \in Gone'
        BY <1>3, <3>4 DEF RunClear, Held
      <4> QED
        BY <1>4, <3>1, <4>1, <4>2 DEF RunClear, Held, Shown
    <3> QED
      BY <1>2, <2>3, <3>2, <3>3, <3>4 DEF Writes, Creates
  <2> QED
    BY <2>1, <2>2, <2>3
<1>6. \A v \in Worker : run'[v] = run[v] \/ RunClear(run'[v], orphans', Gone')
  BY <1>2, <1>5
<1> QED
  BY <1>1, <1>6, ClearKeeps

LEMMA WriteClear ==
  ASSUME IInv, OrphanInv, NEW w \in Worker, Write(w)
  PROVE  OrphanInv'
<1>1. /\ run[w].pc # "idle" /\ Effect(w) /\ run \in [Worker -> Run]
  BY RunFacts DEF Write, Writes, QueueOK
<1>2. CASE run[w].pc \in {"unavailable", "publish"}
  <2>1. Return(w)
    BY <1>2 DEF Write
  <2>2. JobsStep /\ run' = [run EXCEPT ![w] = Idle]
    BY <1>1, <2>1, EndJobs DEF OrphanInv
  <2> QED
    BY <1>1, <2>2, EffectKeeps
<1>3. CASE run[w].pc \notin {"unavailable", "publish"}
  <2>1. run' = [run EXCEPT ![w] = AfterWrite(run[w])] /\ job' = job
    BY <1>1, <1>3 DEF Write
  <2> QED
    BY <1>1, <1>3, <2>1, SameJobs, EffectKeeps DEF OrphanInv
<1> QED
  BY <1>2, <1>3

LEMMA ReplyLostClear ==
  ASSUME IInv, OrphanInv, NEW w \in Worker, ReplyLost(w)
  PROVE  OrphanInv'
<1>1. run[w].pc # "idle" /\ Effect(w) /\ RetryCall(w)
  BY DEF ReplyLost, Writes
<1>2. JobsStep
  BY <1>1, RetryClear
<1>3. \E r : /\ run' = [run EXCEPT ![w] = r] /\ RunClear(r, orphans, Gone)
             /\ r = Idle \/ (r.pc = run[w].pc /\ SameLists(run[w], r))
  BY <1>1, RetryClear
<1>4. PICK r : /\ run' = [run EXCEPT ![w] = r] /\ RunClear(r, orphans, Gone)
               /\ r = Idle \/ (r.pc = run[w].pc /\ SameLists(run[w], r))
  BY <1>3
<1> QED
  BY <1>1, <1>2, <1>4, EffectKeeps

\* A slot takes a job with the progress the queue has of it.
LEMMA TakeClear ==
  ASSUME IInv, OrphanInv, NEW w \in Worker, NEW j \in Job, Take(w, j)
  PROVE  OrphanInv'
<1> DEFINE r == [Idle EXCEPT !.job = j, !.pc = "begin", !.saved = job[j].progress]
<1>1. UNCHANGED hubspot /\ run' = [run EXCEPT ![w] = r] /\ JobsStep
  BY QueueJobs DEF Take, OrphanInv
<1>2. r.pc = "begin" /\ r.saved = job[j].progress /\ r.itemIds = <<>>
  BY DEF Idle
<1> HIDE DEF r
<1>3. RunClear(r, orphans, Gone)
  BY <1>2 DEF RunClear, OrphanInv, JobsClear, Held, Shown
<1> QED
  BY <1>1, <1>3, OneRunKeeps

LEMMA QueueClear ==
  ASSUME IInv, OrphanInv, NEW j \in Job,
         RecoverStalled(j) \/ LockLost(j) \/ AdminRetry(j) \/ Remove(j)
  PROVE  OrphanInv'
<1>1. UNCHANGED hubspot /\ run' = run /\ JobsStep
  BY QueueJobs DEF RecoverStalled, LockLost, AdminRetry, Remove, OrphanInv
<1> QED
  BY <1>1, QuietKeeps

LEMMA OrphanInit == Init => OrphanInv
<1> SUFFICES ASSUME Init PROVE OrphanInv
  OBVIOUS
<1>1. PICK payload \in [Job -> Payloads] : job = [j \in Job |-> NewJob(payload[j])]
  BY DEF Init
<1>2. \A j \in Job : job[j].progress = NoProgress /\ job[j].lock = None
  BY <1>1 DEF NewJob
<1>3. orphans = {} /\ quotes = {} /\ \A w \in Worker : run[w] = Idle
  BY DEF Init
<1> QED
  BY <1>2, <1>3, NothingRecorded, IdleClear
     DEF OrphanInv, LocksOK, RunsClear, JobsClear, OldIds, DiscardedMakeNoOffer

LEMMA OrphanNext == IInv /\ OrphanInv /\ [Next]_vars => OrphanInv'
<1> SUFFICES ASSUME IInv, OrphanInv, [Next]_vars PROVE OrphanInv'
  OBVIOUS
<1>1. ASSUME NEW w \in Worker, Step(w) PROVE OrphanInv'
  BY <1>1, EarlyClear, SearchClear, ProductClear, FindClear, ItemClear, QuoteClear, PollClear,
     WriteClear, SaveClear DEF Step
<1>2. ASSUME NEW w \in Worker, Failure(w) PROVE OrphanInv'
  BY <1>2, EarlyClear, CallClear, ReplyLostClear DEF Failure
<1>3. ASSUME NEW w \in Worker, NEW j \in Job, Take(w, j) PROVE OrphanInv'
  BY <1>3, TakeClear
<1>4. ASSUME NEW j \in Job, RecoverStalled(j) \/ LockLost(j) \/ AdminRetry(j) \/ Remove(j)
      PROVE  OrphanInv'
  BY <1>4, QueueClear
<1>5. CASE UNCHANGED vars
  <2>1. UNCHANGED hubspot /\ run' = run /\ job' = job
    BY <1>5 DEF vars
  <2> QED
    BY <2>1, SameJobs, QuietKeeps DEF OrphanInv
<1> QED
  BY <1>1, <1>2, <1>3, <1>4, <1>5 DEF Next

\* Discarding a job takes its offer away: what a run that lost its lock still makes
\* for it never gets into a quote or onto the deal.
THEOREM DiscardsMakeNoOffer == Spec => []DiscardedMakeNoOffer
<1>1. Init => OrphanInv
  BY OrphanInit
<1>2. IInv /\ OrphanInv /\ [Next]_vars => OrphanInv'
  BY OrphanNext
<1>3. OrphanInv => DiscardedMakeNoOffer
  BY DEF OrphanInv
<1> QED
  BY <1>1, <1>2, <1>3, Invariance, PTL DEF Spec
=============================================================================

----------------------------- MODULE LiveStreams -----------------------------
(***************************************************************************)
(* The live pages of one admin: each tab's EventSource, the request behind *)
(* it that holds one of the admin's slots while it streams, and the        *)
(* counter of those slots, a Redis key that expires.  A tab's next request *)
(* may overlap its last one, of whose end the server learns late: here     *)
(* that is another tab's.  What the stream carries is best effort and not  *)
(* modelled.                                                               *)
(***************************************************************************)
EXTENDS Integers, FiniteSets

CONSTANTS
  Stream,             \* tabs
  SSE_CAP_PER_USER,
  MaxRedisFaults      \* bound: commands that fail or lose their answer, and crashes

ASSUME LiveStreamsAssumption ==
  /\ SSE_CAP_PER_USER \in Nat \ {0}
  /\ MaxRedisFaults \in Nat
  /\ IsFiniteSet(Stream)

VARIABLES
  slotCount,   \* the key's value; 0: no key
  stream,      \* [Stream -> where its request is]
  page,        \* [Stream -> what the tab shows of it]
  redisFaults, \* faults so far
  leaks,       \* ghost: slots counted for requests that are gone
  wiped        \* ghost: the key was deleted while requests held slots

streamVars == <<slotCount, stream, page, redisFaults, leaks, wiped>>

StreamPC == {"off", "refuse", "connecting", "open", "release", "del"}
StreamStatus == {"none", "connecting", "connected", "reconnecting", "closed"}
HoldsSlot == {"refuse", "connecting", "open", "release"}

StreamsTypeOK ==
  /\ slotCount \in Int
  /\ stream \in [Stream -> StreamPC]
  /\ page \in [Stream -> StreamStatus]
  /\ redisFaults \in 0..MaxRedisFaults
  /\ leaks \in Nat
  /\ wiped \in BOOLEAN

StreamsInit ==
  /\ slotCount = 0 /\ leaks = 0 /\ wiped = FALSE /\ redisFaults = 0
  /\ stream = [s \in Stream |-> "off"]
  /\ page = [s \in Stream |-> "none"]

-----------------------------------------------------------------------------
Held == Cardinality({s \in Stream : stream[s] \in HoldsSlot})

StreamTo(s, from, to) == stream[s] = from /\ stream' = [stream EXCEPT ![s] = to]
RedisFault == redisFaults < MaxRedisFaults /\ redisFaults' = redisFaults + 1

\* A tab opens, is told to reconnect, or its EventSource retries of its own accord.
PageOpens(s) ==
  /\ page[s] \in {"none", "closed"}
  /\ page' = [page EXCEPT ![s] = "connecting"]
  /\ UNCHANGED <<slotCount, stream, redisFaults, leaks, wiped>>

Asks(s) == page[s] \in {"connecting", "reconnecting"}

\* acquireSseSlot: INCR and EXPIRE in one transaction, then the verdict on what INCR said;
\* a request that is let in gets its headers at once.
Acquire(s) ==
  /\ Asks(s)
  /\ slotCount' = slotCount + 1
  /\ IF slotCount' > SSE_CAP_PER_USER THEN StreamTo(s, "off", "refuse") /\ UNCHANGED page
     ELSE StreamTo(s, "off", "connecting") /\ page' = [page EXCEPT ![s] = "connected"]
  /\ UNCHANGED <<redisFaults, leaks, wiped>>

\* The transaction is done but its answer is lost: 500, and nothing to release.
AcquireLost(s) ==
  /\ Asks(s) /\ stream[s] = "off" /\ RedisFault
  /\ slotCount' = slotCount + 1 /\ leaks' = leaks + 1
  /\ page' = [page EXCEPT ![s] = "closed"]
  /\ UNCHANGED <<stream, wiped>>

\* Mutant: a refused request is not counted down again.
RefuseKeeps(s) ==
  /\ StreamTo(s, "refuse", "off")
  /\ page' = [page EXCEPT ![s] = IF page[s] = "none" THEN "none" ELSE "closed"]
  /\ UNCHANGED <<slotCount, redisFaults, leaks, wiped>>

\* Over the cap: the slot is given back, and the answer is 429, at which EventSource
\* gives up.
Refuse(s) ==
  /\ StreamTo(s, "refuse", "off")
  /\ page' = [page EXCEPT ![s] = IF page[s] = "none" THEN "none" ELSE "closed"]
  /\ \/ slotCount' = slotCount - 1 /\ UNCHANGED <<redisFaults, leaks>>
     \/ RedisFault /\ leaks' = leaks + 1 /\ UNCHANGED slotCount
  /\ UNCHANGED wiped

\* streamSse: the subscriber is ready and subscribed, and the page gets its hello; if it
\* is not, or the tab has left meanwhile, the stream ends.
Subscribed(s) ==
  /\ StreamTo(s, "connecting", "open")
  /\ UNCHANGED <<slotCount, page, redisFaults, leaks, wiped>>

SubscribeFails(s) ==
  /\ StreamTo(s, "connecting", "release")
  /\ page' = [page EXCEPT ![s] = IF page[s] = "none" THEN "none" ELSE "reconnecting"]
  /\ UNCHANGED <<slotCount, redisFaults, leaks, wiped>>

\* The tab is closed or its network drops: the request learns of it later, if it is open.
PageLeaves(s) ==
  /\ page[s] # "none"
  /\ page' = [page EXCEPT ![s] = "none"]
  /\ UNCHANGED <<slotCount, stream, redisFaults, leaks, wiped>>

PageDrops(s) ==
  /\ page[s] = "connected"
  /\ page' = [page EXCEPT ![s] = "reconnecting"]
  /\ UNCHANGED <<slotCount, stream, redisFaults, leaks, wiped>>

Closed(s) ==
  /\ page[s] # "connected"
  /\ StreamTo(s, "open", "release")
  /\ UNCHANGED <<slotCount, page, redisFaults, leaks, wiped>>

-----------------------------------------------------------------------------
\* releaseSseSlot: DECR; the key is deleted, by a second command, when that left nothing.
Release(s) ==
  /\ slotCount' = slotCount - 1
  /\ StreamTo(s, "release", IF slotCount' <= 0 THEN "del" ELSE "off")
  /\ UNCHANGED <<page, redisFaults, leaks, wiped>>

\* A DECR that fails counts as one that left nothing, whether or not it was done.
ReleaseFails(s) ==
  /\ StreamTo(s, "release", "del")
  /\ RedisFault
  /\ \/ slotCount' = slotCount - 1 /\ UNCHANGED leaks
     \/ leaks' = leaks + 1 /\ UNCHANGED slotCount
  /\ UNCHANGED <<page, wiped>>

\* The key is gone, whatever it counted: a request that acquired meanwhile is no longer
\* counted.
KeyGone ==
  /\ slotCount' = 0 /\ leaks' = 0
  /\ wiped' = (Held # 0)

Delete(s) ==
  /\ StreamTo(s, "del", "off")
  /\ \/ KeyGone /\ UNCHANGED redisFaults
     \/ RedisFault /\ UNCHANGED <<slotCount, leaks, wiped>>
  /\ UNCHANGED page

\* SSE_TTL_SEC without a new stream.
Expires ==
  /\ slotCount # 0
  /\ KeyGone
  /\ UNCHANGED <<stream, page, redisFaults>>

\* The server's process ends: its requests are gone and their slots are not released.
ServerDies ==
  /\ RedisFault
  /\ leaks' = leaks + Held
  /\ stream' = [s \in Stream |-> "off"]
  /\ page' = [s \in Stream |-> IF page[s] = "connected" THEN "reconnecting" ELSE page[s]]
  /\ UNCHANGED <<slotCount, wiped>>

StreamsNext ==
  \/ \E s \in Stream :
       \/ PageOpens(s) \/ PageLeaves(s) \/ PageDrops(s)
       \/ Acquire(s) \/ AcquireLost(s) \/ Refuse(s)
       \/ Subscribed(s) \/ SubscribeFails(s) \/ Closed(s)
       \/ Release(s) \/ ReleaseFails(s) \/ Delete(s)
  \/ Expires \/ ServerDies

StreamsSpec == StreamsInit /\ [][StreamsNext]_streamVars

-----------------------------------------------------------------------------
\* "Cap concurrent SSE connections per admin user" and "Never let the counter go negative"
\* (adminLive.ts 29, rateLimit.ts 157): the counter is the slots held and those leaked
\* by a fault, and no more than SSE_CAP_PER_USER streams are served - until the key goes
\* while slots are held: it expires after an hour without a new stream, or a release
\* that had counted to zero deletes it after another stream was counted.
SlotsCounted ==
  ~wiped =>
    /\ slotCount = Held + leaks
    /\ Cardinality({s \in Stream : stream[s] \in {"connecting", "open"}}) <= SSE_CAP_PER_USER
=============================================================================

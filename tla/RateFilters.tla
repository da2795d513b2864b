---------------------------- MODULE RateFilters ----------------------------
(***************************************************************************)
(* From a Phobs availability response to the offers a deal is quoted: the  *)
(* tenant's rate filters (applyRateFilters) and, when the tenant asks for  *)
(* it, the firm re-pricing of what they leave (PCPriceQuoteRQ).            *)
(*                                                                         *)
(* An offer is one unit at one rate; the nested rates and units of the     *)
(* response are one sequence, in the order the loops visit them, and the   *)
(* offer is known by its place in it.  A price is per night and counted in *)
(* Nights-ths of the currency unit, so that a stay's total divided by its  *)
(* nights is a number: the total itself.                                   *)
(***************************************************************************)
EXTENDS Naturals, Sequences, FiniteSets

CONSTANTS
  Rate, Unit, Board,
  None,        \* a filter that is not set (null, or no entry for the unit)
  Price,       \* prices that occur; 0 stands for one that is missing too
  Responses,   \* availability responses: sequences of offers
  Filters      \* rate filters a tenant has stored

Offer == [rate: Rate, unit: Unit, board: Board, price: Price, available: Nat]

\* include is None or the boards allowed; an empty list allows none.
GlobalFilter == [exclude_rate_ids: SUBSET Rate, exclude_boards: SUBSET Board,
                 include_boards: SUBSET Board \cup {None},
                 min_available_units: Nat, max_price_per_night: Nat \cup {None}]
UnitFilter == [exclude_rate_ids: SUBSET Rate, exclude_boards: SUBSET Board,
               include_boards: SUBSET Board \cup {None}, max_results: Nat \cup {None}]
RateFilter == [global: GlobalFilter, units: [Unit -> UnitFilter]]

\* A unit without an entry is filtered as one whose entry sets nothing.
NoUnitFilter == [exclude_rate_ids |-> {}, exclude_boards |-> {},
                 include_boards |-> None, max_results |-> None]

ASSUME RateFiltersAssumption ==
  /\ Price \subseteq Nat
  /\ Responses \subseteq Seq(Offer)
  /\ Filters \subseteq RateFilter
  /\ None \notin Nat

VARIABLES
  found,      \* the offers of the response
  filters,    \* the tenant's rate filters
  repricing,  \* "off", or what to do when a firm price fails: price_quote.on_failure
  pc,
  next,       \* index of the loop that runs
  selected,   \* offers that passed the filters, later sorted
  kept,       \* those the caps leave
  seen,       \* [Unit -> offers of the unit kept so far]
  trace,      \* what was dropped, and at which step
  price       \* price of each offer, as it stands

vars == <<found, filters, repricing, pc, next, selected, kept, seen, trace, price>>

Places == 1..Len(found)
Steps == <<"min_available_units", "global.exclude_rate_ids", "unit.exclude_rate_ids",
           "global.exclude_boards", "unit.exclude_boards", "global.include_boards",
           "unit.include_boards", "global.max_price_per_night">>
StepName == {Steps[s] : s \in 1..8} \cup {"unit.max_results"}
PC == {"filter", "truncate", "reprice", "priced", "no_availability", "failed"}
Repricing == {"off", "fallback", "fail"}

\* An answer to a price-quote call.  A response without a quote has no price.
Answer == [outcome: {"error", "refused", "success"}, nightly: Price, total: Price]

TypeOK ==
  /\ found \in Seq(Offer) /\ filters \in RateFilter /\ repricing \in Repricing
  /\ pc \in PC /\ next \in Nat \ {0}
  /\ selected \in Seq(Places) /\ kept \in Seq(Places)
  /\ seen \in [Unit -> Nat]
  /\ trace \subseteq [step: StepName, offer: Places]
  /\ price \in [Places -> Price]

Init ==
  /\ found \in Responses /\ filters \in Filters /\ repricing \in Repricing
  /\ pc = "filter" /\ next = 1
  /\ selected = <<>> /\ kept = <<>>
  /\ seen = [u \in Unit |-> 0]
  /\ trace = {}
  /\ price = [i \in Places |-> found[i].price]

-----------------------------------------------------------------------------
(* The loop over rates and units. *)

\* Step number s drops offer o.
Fails(s, o) ==
  LET g == filters.global
      u == filters.units[o.unit]
  IN  \/ s = 1 /\ o.available < g.min_available_units
      \/ s = 2 /\ o.rate \in g.exclude_rate_ids
      \/ s = 3 /\ o.rate \in u.exclude_rate_ids
      \/ s = 4 /\ o.board \in g.exclude_boards
      \/ s = 5 /\ o.board \in u.exclude_boards
      \/ s = 6 /\ g.include_boards # None /\ o.board \notin g.include_boards
      \/ s = 7 /\ u.include_boards # None /\ o.board \notin u.include_boards
      \/ s = 8 /\ g.max_price_per_night # None /\ o.price > g.max_price_per_night

Pass ==
  /\ pc = "filter" /\ next <= Len(found)
  /\ \A s \in 1..8 : ~ Fails(s, found[next])
  /\ selected' = Append(selected, next)
  /\ next' = next + 1
  /\ UNCHANGED <<found, filters, repricing, pc, kept, seen, trace, price>>

\* Dropped at the first step that applies.
Drop ==
  /\ pc = "filter" /\ next <= Len(found)
  /\ \E s \in 1..8 :
       /\ Fails(s, found[next])
       /\ \A t \in 1..(s - 1) : ~ Fails(t, found[next])
       /\ trace' = trace \cup {[step |-> Steps[s], offer |-> next]}
  /\ next' = next + 1
  /\ UNCHANGED <<found, filters, repricing, pc, selected, kept, seen, price>>

\* Offers in the order of the sort: by price, which Array.prototype.sort keeps
\* stable.
Before(i, j) ==
  \/ found[i].price < found[j].price
  \/ found[i].price = found[j].price /\ i < j

Sorts(s) ==
  /\ \A k \in DOMAIN selected : \E m \in DOMAIN s : s[m] = selected[k]
  /\ \A m \in DOMAIN s : \E k \in DOMAIN selected : s[m] = selected[k]
  /\ \A m, n \in DOMAIN s : m < n => Before(s[m], s[n])

Sort ==
  /\ pc = "filter" /\ next > Len(found)
  /\ \E s \in [1..Len(selected) -> Places] :
       /\ Sorts(s)
       /\ selected' = s
  /\ pc' = "truncate" /\ next' = 1
  /\ UNCHANGED <<found, filters, repricing, kept, seen, trace, price>>

-----------------------------------------------------------------------------
(* The loop that applies max_results. *)

UnitOf(i) == found[i].unit
Cap(u) == filters.units[u].max_results

\* Mutant: off by one at the cap.
FullPastCap(u) == Cap(u) # None /\ seen[u] > Cap(u)

Full(u) == Cap(u) # None /\ seen[u] >= Cap(u)

Keep ==
  /\ pc = "truncate" /\ next <= Len(selected)
  /\ LET i == selected[next] IN
       /\ ~ Full(UnitOf(i))
       /\ kept' = Append(kept, i)
       /\ seen' = [seen EXCEPT ![UnitOf(i)] = @ + 1]
  /\ next' = next + 1
  /\ UNCHANGED <<found, filters, repricing, pc, selected, trace, price>>

\* Mutant: a drop at the cap leaves no trace.
TruncateSilently ==
  /\ pc = "truncate" /\ next <= Len(selected)
  /\ Full(UnitOf(selected[next]))
  /\ next' = next + 1
  /\ UNCHANGED <<found, filters, repricing, pc, selected, kept, seen, trace, price>>

Truncate ==
  /\ pc = "truncate" /\ next <= Len(selected)
  /\ LET i == selected[next] IN
       /\ Full(UnitOf(i))
       /\ trace' = trace \cup {[step |-> "unit.max_results", offer |-> i]}
  /\ next' = next + 1
  /\ UNCHANGED <<found, filters, repricing, pc, selected, kept, seen, price>>

\* Nothing left: the deal is marked no_availability and the job ends.
Filtered ==
  /\ pc = "truncate" /\ next > Len(selected)
  /\ \/ kept = <<>> /\ pc' = "no_availability"
     \/ kept # <<>> /\ repricing = "off" /\ pc' = "priced"
     \/ kept # <<>> /\ repricing # "off" /\ pc' = "reprice"
  /\ next' = 1
  /\ UNCHANGED <<found, filters, repricing, selected, kept, seen, trace, price>>

-----------------------------------------------------------------------------
(* The loop that asks for firm prices. *)

\* Mutant: a quote without a price is taken as one.
HasQuote(a) == TRUE

HasPrice(a) == a.nightly > 0 \/ a.total > 0
Usable(a) == a.outcome = "success" /\ HasPrice(a)

\* Mutant: the stay total is taken for a price per night, of a week's stay.
FirmPriceUndivided(a) == IF a.nightly > 0 THEN a.nightly ELSE 7 * a.total

FirmPrice(a) == IF a.nightly > 0 THEN a.nightly ELSE a.total

Apply ==
  /\ pc = "reprice" /\ next <= Len(kept)
  /\ \E a \in Answer :
       /\ Usable(a)
       /\ price' = [price EXCEPT ![kept[next]] = FirmPrice(a)]
  /\ next' = next + 1
  /\ UNCHANGED <<found, filters, repricing, pc, selected, kept, seen, trace>>

\* The call failed, was refused or had no price: keep the list price, or throw.
Fallback ==
  /\ pc = "reprice" /\ next <= Len(kept) /\ repricing = "fallback"
  /\ \E a \in Answer : ~ Usable(a)
  /\ next' = next + 1
  /\ UNCHANGED <<found, filters, repricing, pc, selected, kept, seen, trace, price>>

Throw ==
  /\ pc = "reprice" /\ next <= Len(kept) /\ repricing = "fail"
  /\ \E a \in Answer : ~ Usable(a)
  /\ pc' = "failed"
  /\ UNCHANGED <<found, filters, repricing, next, selected, kept, seen, trace, price>>

Repriced ==
  /\ pc = "reprice" /\ next > Len(kept)
  /\ pc' = "priced"
  /\ UNCHANGED <<found, filters, repricing, next, selected, kept, seen, trace, price>>

Next == Pass \/ Drop \/ Sort \/ Keep \/ Truncate \/ Filtered
        \/ Apply \/ Fallback \/ Throw \/ Repriced

Spec == Init /\ [][Next]_vars

-----------------------------------------------------------------------------
(* Properties *)

Members(s) == {s[k] : k \in DOMAIN s}

\* The rules of ARCHITECTURE.md 741-747 as one definition, without loops: what
\* is excluded by the tenant or by the unit's entry, and what a unit has room for.
Permitted(i) ==
  LET o == found[i]
      g == filters.global
      u == filters.units[o.unit]
  IN  /\ o.available >= g.min_available_units
      /\ o.rate \notin g.exclude_rate_ids \cup u.exclude_rate_ids
      /\ o.board \notin g.exclude_boards \cup u.exclude_boards
      /\ \A allowed \in {g.include_boards, u.include_boards} \ {None} : o.board \in allowed
      /\ g.max_price_per_night = None \/ o.price <= g.max_price_per_night

HasRoom(i) ==
  \/ Cap(UnitOf(i)) = None
  \/ Cardinality({j \in Places : Permitted(j) /\ UnitOf(j) = UnitOf(i) /\ Before(j, i)})
       < Cap(UnitOf(i))

\* What the three loops leave is what the rules say: the permitted offers, of a
\* capped unit the cheapest ones only and on a tie the first of the response; and
\* they are left cheapest first.
LeavesTheCheapestPermitted ==
  pc \in {"reprice", "priced", "no_availability", "failed"} =>
    /\ Members(kept) = {i \in Places : Permitted(i) /\ HasRoom(i)}
    /\ \A m, n \in DOMAIN kept : m < n => Before(kept[m], kept[n])

\* "Audit trail of every drop decision" (rateFilters.ts 42): an offer the loops
\* have decided on is either quoted or in the trace, with one reason, and never
\* both; what is still to be decided is in neither.
EveryDropIsTraced ==
  \A i \in Places :
    LET decided == \/ pc = "filter" /\ i < next /\ i \notin Members(selected)
                   \/ pc = "truncate" /\ i \notin {selected[k] : k \in next..Len(selected)}
                   \/ pc \notin {"filter", "truncate"}
        reasons == {t \in trace : t.offer = i}
    IN  IF decided
        THEN IF i \in Members(kept) THEN reasons = {} ELSE \E t \in reasons : reasons = {t}
        ELSE reasons = {} /\ i \notin Members(kept)

\* A deal is quoted the list price the filters judged or a firm price above zero;
\* a tenant for whom a failed quote is to fail the job never publishes an offer
\* without a price, although Phobs lists one without (price 0).
NeverFreeByQuote ==
  pc = "priced" =>
    \A i \in Members(kept) :
      /\ price[i] = found[i].price \/ price[i] > 0
      /\ repricing = "fail" => price[i] > 0
      /\ repricing = "off" => price[i] = found[i].price
=============================================================================

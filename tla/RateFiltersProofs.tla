------------------------- MODULE RateFiltersProofs -------------------------
(***************************************************************************)
(* The invariants of RateFilters, for every response, every filter and     *)
(* every set of prices.  Each loop has its own part of the inductive       *)
(* invariant: what holds of the offers before its index.  That the caps    *)
(* leave the cheapest is an invariant of its own, Counting, on top of it.  *)
(***************************************************************************)
EXTENDS RateFilters, FiniteSetTheorems, TLAPS

\* Cheapest first, and on a tie the first of the response.
Ordered(s) == \A m, n \in DOMAIN s : m < n => Before(s[m], s[n])

\* The first loop: what it has selected lies behind it and is permitted.
Selecting ==
  /\ \A i \in Members(selected) : Permitted(i)
  /\ pc = "filter" => /\ kept = <<>> /\ next <= Len(found) + 1
                      /\ \A i \in Members(selected) : i < next
                      /\ \A t \in trace : t.step # "unit.max_results"

\* The second: what is kept comes, in order, from what lies behind it, and what was
\* dropped at a cap comes after all that is kept of its unit so far.
Truncating ==
  /\ Members(kept) \subseteq Members(selected) /\ Ordered(kept)
  /\ pc = "truncate" =>
       /\ next <= Len(selected) + 1 /\ Ordered(selected)
       /\ \A i \in Members(kept) : \E k \in 1..(next - 1) : k \in DOMAIN selected /\ selected[k] = i

\* The third: behind it, under "fail", every offer has a price.
Pricing ==
  /\ \A i \in Places : price[i] = found[i].price \/ price[i] > 0
  /\ repricing = "off" => price = [i \in Places |-> found[i].price] /\ pc # "reprice"
  /\ repricing = "fail" /\ pc = "reprice" =>
       /\ next <= Len(kept) + 1
       /\ \A k \in DOMAIN kept : k < next => price[kept[k]] > 0
  /\ repricing = "fail" /\ pc = "priced" => \A k \in DOMAIN kept : price[kept[k]] > 0

IInv == TypeOK /\ Selecting /\ Truncating /\ EveryDropIsTraced /\ Pricing

\* What is quoted is permitted by the tenant's filters and comes cheapest first.
QuotesThePermitted ==
  pc \in {"reprice", "priced", "failed"} =>
    /\ \A i \in Members(kept) : Permitted(i)
    /\ Ordered(kept)

-----------------------------------------------------------------------------
\* The eight steps of the loop are the rules, taken one at a time.
LEMMA StepsAreTheRules ==
  ASSUME TypeOK, NEW i \in Places, \A s \in 1..8 : ~ Fails(s, found[i])
  PROVE  Permitted(i)
<1>1. found[i] \in Offer
  BY DEF TypeOK, Places
<1>2. /\ ~ Fails(1, found[i]) /\ ~ Fails(2, found[i]) /\ ~ Fails(3, found[i]) /\ ~ Fails(4, found[i])
      /\ ~ Fails(5, found[i]) /\ ~ Fails(6, found[i]) /\ ~ Fails(7, found[i]) /\ ~ Fails(8, found[i])
  OBVIOUS
<1>3. found[i].available \in Nat /\ found[i].price \in Nat
  BY <1>1, RateFiltersAssumption DEF Offer
<1>4. filters.global.min_available_units \in Nat
  BY DEF TypeOK, RateFilter, GlobalFilter
<1>5. filters.global.max_price_per_night # None => filters.global.max_price_per_night \in Nat
  BY DEF TypeOK, RateFilter, GlobalFilter
<1> QED BY <1>2, <1>3, <1>4, <1>5 DEF Fails, Permitted

\* The members of a sequence are of its type.
LEMMA MembersType ==
  ASSUME NEW S, NEW s \in Seq(S)
  PROVE  DOMAIN s = 1..Len(s) /\ Len(s) \in Nat /\ Members(s) \subseteq S
  BY DEF Members

\* What holds of an element of a sequence after Append.
LEMMA AppendMembers ==
  ASSUME NEW S, NEW s \in Seq(S), NEW e \in S
  PROVE  /\ Append(s, e) \in Seq(S)
         /\ DOMAIN Append(s, e) = 1..(Len(s) + 1)
         /\ DOMAIN s = 1..Len(s)
         /\ Append(s, e)[Len(s) + 1] = e
         /\ \A k \in 1..Len(s) : Append(s, e)[k] = s[k]
         /\ Members(Append(s, e)) = Members(s) \cup {e}
<1>1. /\ Append(s, e) \in Seq(S) /\ DOMAIN Append(s, e) = 1..(Len(s) + 1) /\ DOMAIN s = 1..Len(s)
      /\ Append(s, e)[Len(s) + 1] = e
      /\ \A k \in 1..Len(s) : Append(s, e)[k] = s[k]
  OBVIOUS
<1>2. Len(s) \in Nat
  OBVIOUS
<1>3. ASSUME NEW x \in Members(Append(s, e)) PROVE x \in Members(s) \cup {e}
  <2>1. PICK k \in 1..(Len(s) + 1) : x = Append(s, e)[k]
    BY <1>1 DEF Members
  <2>2. k \in 1..Len(s) \/ k = Len(s) + 1
    BY <1>2
  <2> QED BY <1>1, <2>1, <2>2 DEF Members
<1>4. ASSUME NEW x \in Members(s) PROVE x \in Members(Append(s, e))
  <2>1. PICK k \in 1..Len(s) : x = s[k]
    BY <1>1 DEF Members
  <2>2. k \in 1..(Len(s) + 1)
    BY <1>2
  <2> QED BY <1>1, <2>1, <2>2 DEF Members
<1>5. e \in Members(Append(s, e))
  <2>1. Len(s) + 1 \in 1..(Len(s) + 1)
    BY <1>2
  <2> QED BY <1>1, <2>1 DEF Members
<1> QED BY <1>1, <1>3, <1>4, <1>5

\* No step of the first loop has the name of the second's.
LEMMA StepNames == \A s \in 1..8 : Steps[s] # "unit.max_results"
<1> SUFFICES ASSUME NEW s \in 1..8 PROVE Steps[s] # "unit.max_results"
  OBVIOUS
<1>1. Steps[1] # "unit.max_results" /\ Steps[2] # "unit.max_results"
  BY DEF Steps
<1>2. Steps[3] # "unit.max_results" /\ Steps[4] # "unit.max_results"
  BY DEF Steps
<1>3. Steps[5] # "unit.max_results" /\ Steps[6] # "unit.max_results"
  BY DEF Steps
<1>4. Steps[7] # "unit.max_results" /\ Steps[8] # "unit.max_results"
  BY DEF Steps
<1>5. s = 1 \/ s = 2 \/ s = 3 \/ s = 4 \/ s = 5 \/ s = 6 \/ s = 7 \/ s = 8
  OBVIOUS
<1> QED BY <1>1, <1>2, <1>3, <1>4, <1>5

-----------------------------------------------------------------------------
LEMMA InitInv == Init => IInv
<1> SUFFICES ASSUME Init PROVE IInv
  OBVIOUS
<1>1. found \in Seq(Offer) /\ filters \in RateFilter /\ Len(found) \in Nat
  BY RateFiltersAssumption DEF Init
<1>2. TypeOK
  <2>1. price \in [Places -> Price]
    <3>1. \A i \in Places : found[i] \in Offer
      BY <1>1 DEF Places
    <3>2. \A i \in Places : found[i].price \in Price
      BY <3>1 DEF Offer
    <3> QED BY <3>2 DEF Init
  <2>2. selected \in Seq(Places) /\ kept \in Seq(Places)
    BY DEF Init
  <2> QED BY <1>1, <2>1, <2>2 DEF Init, TypeOK, Repricing, PC
<1>3. Members(selected) = {} /\ Members(kept) = {} /\ DOMAIN kept = {}
  BY DEF Init, Members
<1>4. Selecting
  BY <1>1, <1>3 DEF Init, Selecting
<1>5. Truncating
  BY <1>3 DEF Init, Truncating, Ordered
<1>6. EveryDropIsTraced
  <2> SUFFICES ASSUME NEW i \in Places PROVE /\ {t \in trace : t.offer = i} = {}
                                              /\ i \notin Members(kept) /\ ~ (i < next)
    BY DEF EveryDropIsTraced, Init
  <2> QED BY <1>1, <1>3 DEF Init, Places
<1>7. Pricing
  BY DEF Init, Pricing
<1> QED BY <1>2, <1>4, <1>5, <1>6, <1>7 DEF IInv

\* The response and the settings stay as they are, and with them what the rules say.
LEMMA RulesStay ==
  ASSUME UNCHANGED <<found, filters, repricing>>
  PROVE  /\ Places' = Places
         /\ \A i : Permitted(i)' <=> Permitted(i)
         /\ \A i, j : Before(i, j)' <=> Before(i, j)
BY DEF Places, Permitted, Before

-----------------------------------------------------------------------------
(* EveryDropIsTraced, offer by offer. *)

Reasons(i) == {t \in trace : t.offer = i}

Decided(i) ==
  \/ pc = "filter" /\ i < next /\ i \notin Members(selected)
  \/ pc = "truncate" /\ i \notin {selected[k] : k \in next..Len(selected)}
  \/ pc \notin {"filter", "truncate"}

Explained(i) ==
  IF Decided(i)
  THEN IF i \in Members(kept) THEN Reasons(i) = {} ELSE \E t \in Reasons(i) : Reasons(i) = {t}
  ELSE Reasons(i) = {} /\ i \notin Members(kept)

LEMMA EveryDropIsExplained ==
  /\ EveryDropIsTraced <=> \A i \in Places : Explained(i)
  /\ EveryDropIsTraced' <=> \A i \in Places' : Explained(i)'
BY DEF EveryDropIsTraced, Explained, Decided, Reasons

\* An offer stays explained while its decision, its reasons and its being kept do.
LEMMA StaysExplained ==
  ASSUME NEW i, Explained(i), Decided(i)' <=> Decided(i), Reasons(i)' = Reasons(i),
         i \in Members(kept)' <=> i \in Members(kept)
  PROVE  Explained(i)'
BY DEF Explained

-----------------------------------------------------------------------------
(* The first loop. *)

LEMMA PassInv == IInv /\ Pass => IInv'
<1> SUFFICES ASSUME IInv, Pass PROVE IInv'
  OBVIOUS
<1> USE DEF IInv, Pass
<1>1. Len(found) \in Nat /\ next \in Places
  BY DEF TypeOK, Places
<1>2. /\ selected' \in Seq(Places)
      /\ Members(selected') = Members(selected) \cup {next}
  BY <1>1, AppendMembers DEF TypeOK
<1>3. Places' = Places /\ \A i : Permitted(i)' <=> Permitted(i)
  BY RulesStay
<1>4. TypeOK'
  BY <1>1, <1>2, <1>3 DEF TypeOK
<1>5. Selecting'
  <2>1. Permitted(next)
    BY <1>1, StepsAreTheRules
  <2>2. \A i \in Members(selected') : i < next + 1
    <3>1. next \in Nat /\ Members(selected) \subseteq Nat
      BY <1>1, MembersType DEF TypeOK, Places
    <3> QED BY <1>2, <3>1 DEF Selecting
  <2> QED BY <1>1, <1>2, <1>3, <2>1, <2>2 DEF Selecting, Places, TypeOK
<1>6. Truncating'
  BY <1>2 DEF Truncating, Selecting, Members, Ordered
<1>7. ASSUME NEW i \in Places PROVE Explained(i)'
  <2>1. i \in Nat /\ next \in Nat
    BY <1>1 DEF Places
  <2>2. Decided(i)' <=> Decided(i)
    <3>1. i # next => (i < next + 1 <=> i < next)
      BY <2>1
    <3>2. i = next => ~ (i < next)
      BY <2>1
    <3> QED BY <1>2, <3>1, <3>2 DEF Decided
  <2> QED BY <2>2, EveryDropIsExplained, StaysExplained DEF Reasons, Members
<1>8. Pricing'
  BY DEF Pricing, Places
<1> QED BY <1>3, <1>4, <1>5, <1>6, <1>7, <1>8, EveryDropIsExplained

LEMMA DropInv == IInv /\ Drop => IInv'
<1> SUFFICES ASSUME IInv, Drop PROVE IInv'
  OBVIOUS
<1> USE DEF IInv
<1>1. Len(found) \in Nat /\ next \in Places /\ next \in Nat \ {0}
  BY DEF TypeOK, Places, Drop
<1>2. PICK s \in 1..8 : trace' = trace \cup {[step |-> Steps[s], offer |-> next]}
  BY DEF Drop
<1> DEFINE d == [step |-> Steps[s], offer |-> next]
<1>3. UNCHANGED <<found, filters, repricing, pc, selected, kept, seen, price>>
      /\ next' = next + 1 /\ pc = "filter" /\ next <= Len(found)
  BY DEF Drop
<1>4. Places' = Places /\ \A i : Permitted(i)' <=> Permitted(i)
  BY <1>3, RulesStay
<1>5. Steps[s] \in StepName /\ Steps[s] # "unit.max_results"
  BY StepNames DEF StepName
<1>6. TypeOK'
  <2>1. d \in [step: StepName, offer: Places]
    BY <1>1, <1>5
  <2> QED BY <1>1, <1>2, <1>3, <1>4, <2>1 DEF TypeOK
<1>7. Selecting'
  <2>1. next \in Nat /\ Members(selected) \subseteq Nat
    BY <1>1, MembersType DEF TypeOK, Places
  <2>2. \A i \in Members(selected)' : Permitted(i)' /\ i < next'
    BY <1>3, <1>4, <2>1 DEF Selecting, Members
  <2>3. next' <= Len(found') + 1
    BY <1>1, <1>3
  <2>4. \A t \in trace' : t.step # "unit.max_results"
    BY <1>2, <1>3, <1>5 DEF Selecting
  <2> QED BY <1>3, <2>2, <2>3, <2>4 DEF Selecting
<1>8. Truncating'
  BY <1>3 DEF Truncating, Members, Ordered, Before
<1>9. ASSUME NEW i \in Places PROVE Explained(i)'
  <2>1. i \in Nat /\ next \in Nat
    BY <1>1 DEF Places
  <2>2. CASE i # next
    <3>1. Decided(i)' <=> Decided(i)
      BY <1>3, <2>1, <2>2 DEF Decided, Members
    <3>2. Reasons(i)' = Reasons(i)
      BY <1>2, <2>2 DEF Reasons
    <3> QED BY <1>3, <3>1, <3>2, EveryDropIsExplained, StaysExplained DEF Members
  <2>3. CASE i = next
    <3>1. Reasons(i) = {} /\ i \notin Members(kept)
      <4>1. ~ Decided(i)
        BY <1>3, <2>1, <2>3 DEF Decided
      <4> QED BY <4>1, EveryDropIsExplained DEF Explained
    <3>2. Reasons(i)' = {d} /\ d \in Reasons(i)'
      BY <1>2, <2>3, <3>1 DEF Reasons
    <3>3. Decided(i)'
      <4>1. i \notin Members(selected)
        BY <1>3, <2>1, <2>3 DEF Selecting
      <4> QED BY <1>3, <2>1, <2>3, <4>1 DEF Decided, Members
    <3> QED BY <1>3, <3>1, <3>2, <3>3 DEF Explained, Members
  <2> QED BY <2>2, <2>3
<1>10. Pricing'
  BY <1>3 DEF Pricing, Places
<1> QED BY <1>4, <1>6, <1>7, <1>8, <1>9, <1>10, EveryDropIsExplained

\* The sort is a rearrangement: it decides nothing, and the loop after it starts with
\* everything before it.
LEMMA SortInv == IInv /\ Sort => IInv'
<1> SUFFICES ASSUME IInv, Sort PROVE IInv'
  OBVIOUS
<1> USE DEF IInv
<1>1. PICK s \in [1..Len(selected) -> Places] : Sorts(s) /\ selected' = s
  BY DEF Sort
<1>2. /\ UNCHANGED <<found, filters, repricing, kept, seen, trace, price>>
      /\ pc = "filter" /\ next > Len(found) /\ pc' = "truncate" /\ next' = 1
  BY DEF Sort
<1>3. Places' = Places /\ (\A i : Permitted(i)' <=> Permitted(i))
      /\ \A i, j : Before(i, j)' <=> Before(i, j)
  BY <1>2, RulesStay
<1>4. /\ Len(selected) \in Nat /\ s \in Seq(Places) /\ DOMAIN s = 1..Len(selected)
      /\ DOMAIN selected = 1..Len(selected) /\ Len(s) = Len(selected)
  <2>1. Len(selected) \in Nat /\ DOMAIN selected = 1..Len(selected)
    BY DEF TypeOK
  <2>2. s \in Seq(Places) /\ DOMAIN s = 1..Len(selected)
    BY <2>1
  <2> QED BY <2>1, <2>2
<1>5. Members(selected') = Members(selected)
  BY <1>1 DEF Sorts, Members
<1>6. TypeOK'
  BY <1>1, <1>2, <1>3, <1>4 DEF TypeOK, PC
<1>7. Selecting'
  BY <1>2, <1>3, <1>5 DEF Selecting
<1>8. Truncating'
  <2>1. kept' = <<>> /\ Members(kept') = {} /\ DOMAIN kept' = {}
    BY <1>2 DEF Selecting, Members
  <2>2. Ordered(selected)'
    BY <1>1, <1>3 DEF Ordered, Sorts
  <2> QED BY <1>1, <1>2, <1>4, <2>1, <2>2 DEF Truncating, Ordered
<1>9. ASSUME NEW i \in Places PROVE Explained(i)'
  <2>1. Decided(i) <=> i \notin Members(selected)
    <3>1. i < next
      BY <1>2 DEF Places, TypeOK
    <3> QED BY <1>2, <3>1 DEF Decided
  <2>2. Decided(i)' <=> i \notin Members(selected')
    <3>1. Members(selected') = {s[k] : k \in 1..Len(s)}
      BY <1>1, <1>4 DEF Members
    <3> QED BY <1>1, <1>2, <3>1 DEF Decided
  <2> QED BY <1>2, <1>5, <2>1, <2>2, EveryDropIsExplained, StaysExplained DEF Reasons, Members
<1>10. Pricing'
  BY <1>2 DEF Pricing, Places
<1> QED BY <1>3, <1>6, <1>7, <1>8, <1>9, <1>10, EveryDropIsExplained

-----------------------------------------------------------------------------
(* The second loop. *)

\* The offer at the loop's index is still to be decided, and will be: no other place of
\* the sorted list holds it.
LEMMA AtIndex ==
  ASSUME IInv, pc = "truncate", next <= Len(selected)
  PROVE  /\ next \in 1..Len(selected) /\ Len(selected) \in Nat /\ DOMAIN selected = 1..Len(selected)
         /\ selected[next] \in Places
         /\ \A k \in 1..Len(selected) : k # next => selected[k] # selected[next]
         /\ ~ Decided(selected[next])
         /\ Reasons(selected[next]) = {} /\ selected[next] \notin Members(kept)
<1> USE DEF IInv
<1>1. /\ next \in 1..Len(selected) /\ Len(selected) \in Nat /\ DOMAIN selected = 1..Len(selected)
      /\ \A k \in 1..Len(selected) : selected[k] \in Places
  BY DEF TypeOK
<1>2. ASSUME NEW k \in 1..Len(selected), NEW m \in 1..Len(selected), k < m
      PROVE  selected[k] # selected[m]
  <2>1. Before(selected[k], selected[m])
    BY <1>1, <1>2 DEF Truncating, Ordered
  <2>2. selected[k] \in Nat /\ found[selected[k]].price \in Nat
    <3>1. found[selected[k]] \in Offer /\ selected[k] \in Nat
      BY <1>1 DEF TypeOK, Places
    <3> QED BY <3>1, RateFiltersAssumption DEF Offer
  <2> QED BY <2>1, <2>2 DEF Before
<1>3. \A k \in 1..Len(selected) : k # next => selected[k] # selected[next]
  <2> SUFFICES ASSUME NEW k \in 1..Len(selected), k # next PROVE selected[k] # selected[next]
    OBVIOUS
  <2>1. k < next \/ next < k
    BY <1>1
  <2> QED BY <1>1, <1>2, <2>1
<1>4. ~ Decided(selected[next])
  <2>1. next \in next..Len(selected)
    BY <1>1
  <2> QED BY <2>1 DEF Decided
<1> QED BY <1>1, <1>3, <1>4, EveryDropIsExplained DEF Explained

\* Moving the index past an offer decides that one and no other.
LEMMA IndexMoves ==
  ASSUME IInv, pc = "truncate", next <= Len(selected), next' = next + 1,
         UNCHANGED <<pc, selected>>, NEW i \in Places
  PROVE  Decided(i)' <=> (Decided(i) \/ i = selected[next])
<1>1. /\ next \in 1..Len(selected) /\ Len(selected) \in Nat
      /\ \A k \in 1..Len(selected) : k # next => selected[k] # selected[next]
  BY AtIndex
<1>2. \A k : k \in next..Len(selected) <=> (k = next \/ k \in (next + 1)..Len(selected))
  BY <1>1
<1>3. \A k \in (next + 1)..Len(selected) : k \in 1..Len(selected) /\ k # next
  BY <1>1
<1>4. selected[next] \notin {selected[k] : k \in (next + 1)..Len(selected)}
  BY <1>1, <1>3
<1>5. i \in {selected[k] : k \in next..Len(selected)}
        <=> (i = selected[next] \/ i \in {selected[k] : k \in (next + 1)..Len(selected)})
  BY <1>2
<1> QED BY <1>4, <1>5 DEF Decided

LEMMA KeepInv == IInv /\ Keep => IInv'
<1> SUFFICES ASSUME IInv, Keep PROVE IInv'
  OBVIOUS
<1> USE DEF IInv
<1> DEFINE x == selected[next]
<1>1. /\ UNCHANGED <<found, filters, repricing, pc, selected, trace, price>>
      /\ pc = "truncate" /\ next <= Len(selected) /\ next' = next + 1
      /\ kept' = Append(kept, x) /\ seen' = [seen EXCEPT ![UnitOf(x)] = @ + 1]
  BY DEF Keep
<1>2. /\ next \in 1..Len(selected) /\ Len(selected) \in Nat /\ DOMAIN selected = 1..Len(selected)
      /\ x \in Places /\ Reasons(x) = {} /\ x \notin Members(kept)
  BY <1>1, AtIndex
<1>3. Places' = Places /\ (\A i : Permitted(i)' <=> Permitted(i))
      /\ \A i, j : Before(i, j)' <=> Before(i, j)
  BY <1>1, RulesStay
<1>4. /\ kept' \in Seq(Places) /\ Members(kept') = Members(kept) \cup {x}
      /\ DOMAIN kept' = 1..(Len(kept) + 1) /\ DOMAIN kept = 1..Len(kept) /\ Len(kept) \in Nat
      /\ kept'[Len(kept) + 1] = x /\ \A k \in 1..Len(kept) : kept'[k] = kept[k]
  BY <1>1, <1>2, AppendMembers, MembersType DEF TypeOK
<1>5. TypeOK'
  <2>1. seen' \in [Unit -> Nat]
    <3>1. found[x] \in Offer
      BY <1>2 DEF TypeOK, Places
    <3>2. UnitOf(x) \in Unit
      BY <3>1 DEF Offer, UnitOf
    <3> QED BY <1>1, <3>2 DEF TypeOK
  <2> QED BY <1>1, <1>2, <1>3, <1>4, <2>1 DEF TypeOK
<1>6. Selecting'
  BY <1>1, <1>3 DEF Selecting, Members
<1>7. Truncating'
  <2>1. Members(kept') \subseteq Members(selected')
    BY <1>1, <1>2, <1>4 DEF Truncating, Members
  <2>2. \A i \in Members(kept) : Before(i, x)
    BY <1>1, <1>2 DEF Truncating, Ordered
  <2>3. Ordered(kept')
    <3> SUFFICES ASSUME NEW m \in DOMAIN kept', NEW n \in DOMAIN kept', m < n
                 PROVE  Before(kept'[m], kept'[n])
      BY DEF Ordered
    <3>1. CASE n = Len(kept) + 1
      <4>1. m \in DOMAIN kept
        BY <1>4, <3>1
      <4> QED BY <1>4, <2>2, <3>1, <4>1 DEF Members
    <3>2. CASE n # Len(kept) + 1
      <4>1. m \in DOMAIN kept /\ n \in DOMAIN kept
        BY <1>4, <3>2
      <4> QED BY <1>4, <4>1 DEF Truncating, Ordered
    <3> QED BY <3>1, <3>2
  <2>4. \A i \in Members(kept') : \E k \in 1..(next' - 1) : k \in DOMAIN selected' /\ selected'[k] = i
    <3> SUFFICES ASSUME NEW i \in Members(kept) \cup {x}
                 PROVE  \E k \in 1..next : k \in DOMAIN selected /\ selected[k] = i
      BY <1>1, <1>2, <1>4
    <3>1. next \in 1..next /\ 1..(next - 1) \subseteq 1..next
      BY <1>2
    <3> QED BY <1>1, <1>2, <3>1 DEF Truncating
  <2>5. next' <= Len(selected') + 1 /\ Ordered(selected)'
    BY <1>1, <1>2, <1>3 DEF Truncating, Ordered
  <2>6. Ordered(kept)'
    BY <1>3, <2>3 DEF Ordered
  <2> QED BY <2>1, <2>4, <2>5, <2>6 DEF Truncating, Members
<1>8. ASSUME NEW i \in Places PROVE Explained(i)'
  <2>1. Decided(i)' <=> (Decided(i) \/ i = x)
    BY <1>1, IndexMoves
  <2>2. Reasons(i)' = Reasons(i)
    BY <1>1 DEF Reasons
  <2> QED BY <1>2, <1>4, <2>1, <2>2, EveryDropIsExplained DEF Explained, Members
<1>9. Pricing'
  BY <1>1 DEF Pricing, Places
<1> QED BY <1>3, <1>5, <1>6, <1>7, <1>8, <1>9, EveryDropIsExplained

LEMMA TruncateInv == IInv /\ Truncate => IInv'
<1> SUFFICES ASSUME IInv, Truncate PROVE IInv'
  OBVIOUS
<1> USE DEF IInv
<1> DEFINE x == selected[next]
           d == [step |-> "unit.max_results", offer |-> x]
<1>1. /\ UNCHANGED <<found, filters, repricing, pc, selected, kept, seen, price>>
      /\ pc = "truncate" /\ next <= Len(selected) /\ next' = next + 1
      /\ trace' = trace \cup {d}
  BY DEF Truncate
<1>2. /\ next \in 1..Len(selected) /\ Len(selected) \in Nat /\ DOMAIN selected = 1..Len(selected)
      /\ x \in Places /\ Reasons(x) = {} /\ x \notin Members(kept)
  BY <1>1, AtIndex
<1>3. Places' = Places /\ (\A i : Permitted(i)' <=> Permitted(i))
      /\ \A i, j : Before(i, j)' <=> Before(i, j)
  BY <1>1, RulesStay
<1>4. TypeOK'
  <2>1. d \in [step: StepName, offer: Places]
    BY <1>2 DEF StepName
  <2> QED BY <1>1, <1>2, <1>3, <2>1 DEF TypeOK
<1>5. Selecting'
  BY <1>1, <1>3 DEF Selecting, Members
<1>6. Truncating'
  <2>1. next' <= Len(selected') + 1
    BY <1>1, <1>2
  <2>2. Ordered(selected)' /\ Ordered(kept)'
    BY <1>1, <1>3 DEF Truncating, Ordered
  <2>3. \A k \in 1..(next - 1) : k \in 1..(next' - 1)
    BY <1>1, <1>2
  <2> QED BY <1>1, <2>1, <2>2, <2>3 DEF Truncating, Members
<1>7. ASSUME NEW i \in Places PROVE Explained(i)'
  <2>1. Decided(i)' <=> (Decided(i) \/ i = x)
    BY <1>1, IndexMoves
  <2>2. CASE i = x
    <3>1. Reasons(i)' = {d} /\ d \in Reasons(i)'
      BY <1>1, <1>2, <2>2 DEF Reasons
    <3> QED BY <1>1, <1>2, <2>1, <2>2, <3>1 DEF Explained, Members
  <2>3. CASE i # x
    <3>1. Reasons(i)' = Reasons(i)
      BY <1>1, <2>3 DEF Reasons
    <3> QED BY <1>1, <2>1, <2>3, <3>1, EveryDropIsExplained, StaysExplained DEF Members
  <2> QED BY <2>2, <2>3
<1>8. Pricing'
  BY <1>1 DEF Pricing, Places
<1> QED BY <1>3, <1>4, <1>5, <1>6, <1>7, <1>8, EveryDropIsExplained

-----------------------------------------------------------------------------
(* From the second loop on, nothing is decided any more. *)

\* A step that leaves the offers, what is kept and the trace alone, once all are
\* decided, keeps all that is said of the first two loops.
LEMMA LoopsAreOver ==
  ASSUME IInv, UNCHANGED <<found, filters, repricing, selected, kept, seen, trace>>,
         \/ pc = "truncate" /\ next > Len(selected)
         \/ pc \in {"reprice", "priced", "no_availability", "failed"},
         pc' \in {"reprice", "priced", "no_availability", "failed"}
  PROVE  Places' = Places /\ Selecting' /\ Truncating' /\ EveryDropIsTraced'
<1> USE DEF IInv
<1>1. Places' = Places /\ (\A i : Permitted(i)' <=> Permitted(i))
      /\ \A i, j : Before(i, j)' <=> Before(i, j)
  BY RulesStay
<1>2. Selecting'
  BY <1>1 DEF Selecting, Members
<1>3. Truncating'
  BY <1>1 DEF Truncating, Members, Ordered
<1>4. ASSUME NEW i \in Places PROVE Explained(i)'
  <2>1. Decided(i)
    <3>1. CASE pc = "truncate" /\ next > Len(selected)
      <4>1. next..Len(selected) = {}
        BY <3>1 DEF TypeOK
      <4> QED BY <3>1, <4>1 DEF Decided
    <3>2. CASE pc # "truncate"
      BY <3>2 DEF Decided
    <3> QED BY <3>1, <3>2
  <2>2. Decided(i)'
    BY DEF Decided
  <2> QED BY <2>1, <2>2, EveryDropIsExplained, StaysExplained DEF Reasons, Members
<1> QED BY <1>1, <1>2, <1>3, <1>4, EveryDropIsExplained

LEMMA FilteredInv == IInv /\ Filtered => IInv'
<1> SUFFICES ASSUME IInv, Filtered PROVE IInv'
  OBVIOUS
<1> USE DEF IInv
<1>1. /\ UNCHANGED <<found, filters, repricing, selected, kept, seen, trace, price>>
      /\ pc = "truncate" /\ next > Len(selected) /\ next' = 1
      /\ \/ pc' = "no_availability"
         \/ repricing = "off" /\ pc' = "priced"
         \/ repricing # "off" /\ pc' = "reprice"
  BY DEF Filtered
<1>2. Places' = Places /\ Selecting' /\ Truncating' /\ EveryDropIsTraced'
  BY <1>1, LoopsAreOver
<1>3. TypeOK'
  BY <1>1, <1>2 DEF TypeOK, PC
<1>4. Pricing'
  <2>1. DOMAIN kept = 1..Len(kept) /\ Len(kept) \in Nat
    BY DEF TypeOK
  <2>2. \A k \in DOMAIN kept : ~ (k < next')
    BY <1>1, <2>1
  <2>3. next' <= Len(kept) + 1
    BY <1>1, <2>1
  <2> QED BY <1>1, <1>2, <2>2, <2>3 DEF Pricing
<1> QED BY <1>2, <1>3, <1>4

-----------------------------------------------------------------------------
(* The third loop. *)

LEMMA ApplyInv == IInv /\ Apply => IInv'
<1> SUFFICES ASSUME IInv, Apply PROVE IInv'
  OBVIOUS
<1> USE DEF IInv
<1>1. PICK a \in Answer : Usable(a) /\ price' = [price EXCEPT ![kept[next]] = FirmPrice(a)]
  BY DEF Apply
<1>2. /\ UNCHANGED <<found, filters, repricing, pc, selected, kept, seen, trace>>
      /\ pc = "reprice" /\ next <= Len(kept) /\ next' = next + 1
  BY DEF Apply
<1>3. FirmPrice(a) \in Price /\ FirmPrice(a) > 0
  BY <1>1, RateFiltersAssumption DEF Answer, Usable, HasPrice, FirmPrice
<1>4. Places' = Places /\ Selecting' /\ Truncating' /\ EveryDropIsTraced'
  BY <1>2, LoopsAreOver
<1>5. /\ next \in DOMAIN kept /\ DOMAIN kept = 1..Len(kept) /\ Len(kept) \in Nat
      /\ \A k \in DOMAIN kept : kept[k] \in Places
  BY <1>2 DEF TypeOK
<1>6. \A i \in Places : price'[i] = IF i = kept[next] THEN FirmPrice(a) ELSE price[i]
  BY <1>1, <1>5 DEF TypeOK
<1>7. TypeOK'
  BY <1>1, <1>2, <1>3, <1>4 DEF TypeOK
<1>8. Pricing'
  <2>1. \A i \in Places : price'[i] = found[i].price \/ price'[i] > 0
    BY <1>3, <1>6 DEF Pricing
  <2>2. ASSUME repricing = "fail", NEW k \in DOMAIN kept, k < next + 1
        PROVE  price'[kept[k]] > 0
    <3>1. CASE k = next
      BY <1>3, <1>5, <1>6, <3>1
    <3>2. CASE k # next
      <4>1. k < next
        BY <1>5, <2>2, <3>2
      <4>2. price[kept[k]] > 0
        BY <1>2, <2>2, <4>1 DEF Pricing
      <4> QED BY <1>3, <1>5, <1>6, <4>2
    <3> QED BY <3>1, <3>2
  <2>3. repricing # "off"
    BY <1>2 DEF Pricing
  <2>4. next' <= Len(kept') + 1
    BY <1>2, <1>5
  <2> QED BY <1>2, <1>4, <2>1, <2>2, <2>3, <2>4 DEF Pricing
<1> QED BY <1>4, <1>7, <1>8

LEMMA FallbackInv == IInv /\ Fallback => IInv'
<1> SUFFICES ASSUME IInv, Fallback PROVE IInv'
  OBVIOUS
<1> USE DEF IInv
<1>1. /\ UNCHANGED <<found, filters, repricing, pc, selected, kept, seen, trace, price>>
      /\ pc = "reprice" /\ repricing = "fallback" /\ next' = next + 1
  BY DEF Fallback
<1>2. Places' = Places /\ Selecting' /\ Truncating' /\ EveryDropIsTraced'
  BY <1>1, LoopsAreOver
<1>3. TypeOK'
  BY <1>1, <1>2 DEF TypeOK
<1>4. Pricing'
  BY <1>1, <1>2 DEF Pricing
<1> QED BY <1>2, <1>3, <1>4

LEMMA ThrowInv == IInv /\ Throw => IInv'
<1> SUFFICES ASSUME IInv, Throw PROVE IInv'
  OBVIOUS
<1> USE DEF IInv
<1>1. /\ UNCHANGED <<found, filters, repricing, next, selected, kept, seen, trace, price>>
      /\ pc = "reprice" /\ pc' = "failed"
  BY DEF Throw
<1>2. Places' = Places /\ Selecting' /\ Truncating' /\ EveryDropIsTraced'
  BY <1>1, LoopsAreOver
<1>3. TypeOK'
  BY <1>1, <1>2 DEF TypeOK, PC
<1>4. Pricing'
  BY <1>1, <1>2 DEF Pricing
<1> QED BY <1>2, <1>3, <1>4

LEMMA RepricedInv == IInv /\ Repriced => IInv'
<1> SUFFICES ASSUME IInv, Repriced PROVE IInv'
  OBVIOUS
<1> USE DEF IInv
<1>1. /\ UNCHANGED <<found, filters, repricing, next, selected, kept, seen, trace, price>>
      /\ pc = "reprice" /\ next > Len(kept) /\ pc' = "priced"
  BY DEF Repriced
<1>2. Places' = Places /\ Selecting' /\ Truncating' /\ EveryDropIsTraced'
  BY <1>1, LoopsAreOver
<1>3. TypeOK'
  BY <1>1, <1>2 DEF TypeOK, PC
<1>4. Pricing'
  <2>1. \A k \in DOMAIN kept : k < next
    BY <1>1 DEF TypeOK
  <2> QED BY <1>1, <1>2, <2>1 DEF Pricing
<1> QED BY <1>2, <1>3, <1>4

-----------------------------------------------------------------------------
\* IInv is an inductive invariant of the specification.
THEOREM FiltersInvariance == Spec => []IInv
<1>1. Init => IInv
  BY InitInv
<1>2. IInv /\ [Next]_vars => IInv'
  <2> SUFFICES ASSUME IInv, [Next]_vars PROVE IInv'
    OBVIOUS
  <2>1. CASE Next
    BY <2>1, PassInv, DropInv, SortInv, KeepInv, TruncateInv, FilteredInv, ApplyInv,
       FallbackInv, ThrowInv, RepricedInv DEF Next
  <2>2. CASE UNCHANGED vars
    <3>1. Places' = Places /\ (\A i : Permitted(i)' <=> Permitted(i))
          /\ \A i, j : Before(i, j)' <=> Before(i, j)
      BY <2>2, RulesStay DEF vars
    <3>2. TypeOK'
      BY <2>2, <3>1 DEF vars, IInv, TypeOK
    <3>3. Selecting' /\ Pricing'
      BY <2>2, <3>1 DEF vars, IInv, Selecting, Pricing, Members
    <3>4. Truncating'
      <4>1. UNCHANGED <<selected, kept, pc, next>>
        BY <2>2 DEF vars
      <4>2. /\ Ordered(kept)' <=> Ordered(kept)
            /\ Ordered(selected)' <=> Ordered(selected)
        BY <3>1, <4>1 DEF Ordered
      <4> QED BY <4>1, <4>2 DEF IInv, Truncating, Members
    <3>5. EveryDropIsTraced'
      BY <2>2, <3>1 DEF vars, IInv, EveryDropIsTraced, Members
    <3> QED BY <3>2, <3>3, <3>4, <3>5 DEF IInv
  <2> QED BY <2>1, <2>2
<1> QED BY <1>1, <1>2, PTL DEF Spec

\* The variables keep their types: prices stay prices, places stay places of the
\* response.
THEOREM FiltersTypeCorrect == Spec => []TypeOK
<1>1. IInv => TypeOK
  BY DEF IInv
<1> QED BY <1>1, FiltersInvariance, PTL

\* Whatever the response and the filters, an offer that is decided on is quoted or has
\* one line of the trace, never both (rateFilters.ts 42).
THEOREM DropsAreTraced == Spec => []EveryDropIsTraced
<1>1. IInv => EveryDropIsTraced
  BY DEF IInv
<1> QED BY <1>1, FiltersInvariance, PTL

\* A firm price is never zero, and under on_failure "fail" no offer without a price is
\* published (processDeal.ts 355-374).
THEOREM NoFreeOfferByQuote == Spec => []NeverFreeByQuote
<1>1. IInv => NeverFreeByQuote
  <2> SUFFICES ASSUME IInv, pc = "priced", NEW i \in Members(kept)
               PROVE  /\ price[i] = found[i].price \/ price[i] > 0
                      /\ repricing = "fail" => price[i] > 0
                      /\ repricing = "off" => price[i] = found[i].price
    BY DEF NeverFreeByQuote
  <2>1. i \in Places
    BY MembersType DEF IInv, TypeOK
  <2> QED BY <2>1 DEF IInv, Pricing, Members
<1> QED BY <1>1, FiltersInvariance, PTL

\* What a deal is quoted passed every filter of the tenant, and is in the order the
\* quote lists it: cheapest first (rateFilters.ts 64-111).
THEOREM QuotedArePermitted == Spec => []QuotesThePermitted
<1>1. IInv => QuotesThePermitted
  BY DEF IInv, QuotesThePermitted, Selecting, Truncating
<1> QED BY <1>1, FiltersInvariance, PTL

-----------------------------------------------------------------------------
(* The cheapest: what the caps leave, counted. *)

\* The offers of unit u kept so far.
KeptOf(u) == {j \in Members(kept) : UnitOf(j) = u}

\* The offers a cap on i's unit counts before i.
Cheaper(i) == {j \in Places : Permitted(j) /\ UnitOf(j) = UnitOf(i) /\ Before(j, i)}

\* The offer at place k of the sorted list is decided as the rules decide it, and was
\* kept unless its unit is full.
DecidedByRule(k) ==
  /\ selected[k] \in Members(kept) <=> HasRoom(selected[k])
  /\ ~ Full(UnitOf(selected[k])) => selected[k] \in Members(kept)

\* The first loop misses no permitted offer; the second counts what it keeps and
\* decides by the rule; from then on what is kept is what the rules leave.
Counting ==
  /\ \A i \in Places : Permitted(i) /\ (pc = "filter" => i < next) => i \in Members(selected)
  /\ pc \in {"filter", "truncate"} => \A u \in Unit : seen[u] = Cardinality(KeptOf(u))
  /\ pc = "truncate" => \A k \in DOMAIN selected : k < next => DecidedByRule(k)
  /\ pc \notin {"filter", "truncate"} =>
       Members(kept) = {i \in Places : Permitted(i) /\ HasRoom(i)}

\* What decides stays as it is while the response, the filters and the count do.
LEMMA RoomStays ==
  ASSUME UNCHANGED <<found, filters>>
  PROVE  /\ \A i : HasRoom(i)' <=> HasRoom(i)
         /\ \A i : UnitOf(i)' = UnitOf(i)
         /\ \A u : Cap(u)' = Cap(u)
<1>1. /\ Places' = Places /\ \A i : Permitted(i)' <=> Permitted(i)
      /\ \A i, j : Before(i, j)' <=> Before(i, j)
  BY DEF Places, Permitted, Before
<1>2. (\A i : UnitOf(i)' = UnitOf(i)) /\ (\A u : Cap(u)' = Cap(u))
  BY DEF UnitOf, Cap
<1>3. ASSUME NEW i PROVE {j \in Places : Permitted(j) /\ UnitOf(j) = UnitOf(i) /\ Before(j, i)}'
                          = {j \in Places : Permitted(j) /\ UnitOf(j) = UnitOf(i) /\ Before(j, i)}
  BY <1>1, <1>2
<1> QED BY <1>2, <1>3 DEF HasRoom

\* The eight steps are the rules, read the other way: what one of them drops is not
\* permitted.
LEMMA DroppedAreNotPermitted ==
  ASSUME TypeOK, NEW i \in Places, NEW s \in 1..8, Fails(s, found[i])
  PROVE  ~ Permitted(i)
<1>1. found[i] \in Offer
  BY DEF TypeOK, Places
<1>2. found[i].available \in Nat /\ found[i].price \in Nat
  BY <1>1, RateFiltersAssumption DEF Offer
<1>3. /\ filters.global.min_available_units \in Nat
      /\ filters.global.max_price_per_night # None => filters.global.max_price_per_night \in Nat
  BY DEF TypeOK, RateFilter, GlobalFilter
<1>4. s = 1 \/ s = 2 \/ s = 3 \/ s = 4 \/ s = 5 \/ s = 6 \/ s = 7 \/ s = 8
  OBVIOUS
<1> QED BY <1>2, <1>3, <1>4 DEF Fails, Permitted

LEMMA OfferOfPlace ==
  ASSUME TypeOK, NEW i \in Places
  PROVE  UnitOf(i) \in Unit /\ found[i].price \in Nat /\ i \in Nat
<1>1. found[i] \in Offer /\ i \in Nat
  BY DEF TypeOK, Places
<1> QED BY <1>1, RateFiltersAssumption DEF Offer, UnitOf

\* Sets of places are finite.
LEMMA PlacesAreFinite ==
  ASSUME TypeOK, NEW S, S \subseteq Places
  PROVE  IsFiniteSet(S) /\ Cardinality(S) \in Nat
<1>1. Len(found) \in Nat
  BY DEF TypeOK
<1>2. IsFiniteSet(Places)
  BY <1>1, FS_Interval DEF Places
<1> QED BY <1>2, FS_Subset, FS_CardinalityType

\* In the second loop the offers the rule counts before the one at the index are the
\* ones of its unit behind the index.
LEMMA CheaperAreBehind ==
  ASSUME IInv, Counting, pc = "truncate", next <= Len(selected)
  PROVE  Cheaper(selected[next])
           = {j \in Places : \E k \in DOMAIN selected :
                k < next /\ selected[k] = j /\ UnitOf(j) = UnitOf(selected[next])}
<1> DEFINE x == selected[next]
<1>1. /\ next \in 1..Len(selected) /\ DOMAIN selected = 1..Len(selected) /\ Len(selected) \in Nat
      /\ x \in Places /\ \A k \in DOMAIN selected : selected[k] \in Places
  BY AtIndex DEF IInv, TypeOK
<1>2. Ordered(selected) /\ \A i \in Members(selected) : Permitted(i)
  BY DEF IInv, Truncating, Selecting
<1>3. ASSUME NEW j \in Cheaper(x)
      PROVE  \E k \in DOMAIN selected : k < next /\ selected[k] = j
  <2>1. j \in Places /\ Permitted(j) /\ Before(j, x)
    BY DEF Cheaper
  <2>2. PICK k \in DOMAIN selected : selected[k] = j
    BY <2>1 DEF Counting, Members
  <2>3. ~ Before(x, j) /\ j # x
    <3>1. found[j].price \in Nat /\ found[x].price \in Nat /\ j \in Nat /\ x \in Nat
      BY <1>1, <2>1, OfferOfPlace DEF IInv
    <3> HIDE DEF x
    <3> QED BY <2>1, <3>1 DEF Before
  <2>4. ~ (next < k) /\ k # next
    BY <1>1, <1>2, <2>2, <2>3 DEF Ordered
  <2> QED BY <1>1, <2>2, <2>4
<1>4. ASSUME NEW k \in DOMAIN selected, k < next, UnitOf(selected[k]) = UnitOf(x)
      PROVE  selected[k] \in Cheaper(x)
  <2>1. Before(selected[k], x)
    BY <1>1, <1>2, <1>4 DEF Ordered
  <2>2. Permitted(selected[k])
    BY <1>2 DEF Members
  <2> QED BY <1>1, <1>4, <2>1, <2>2 DEF Cheaper
<1>5. \A j \in Cheaper(x) : j \in Places /\ UnitOf(j) = UnitOf(x)
  BY DEF Cheaper
<1> HIDE DEF x
<1>6. Cheaper(x) = {j \in Places : \E k \in DOMAIN selected :
                      k < next /\ selected[k] = j /\ UnitOf(j) = UnitOf(x)}
  BY <1>3, <1>4, <1>5
<1> QED BY <1>6 DEF x

\* The count at the index answers the rule's question.
LEMMA FullIsNoRoom ==
  ASSUME IInv, Counting, pc = "truncate", next <= Len(selected)
  PROVE  HasRoom(selected[next]) <=> ~ Full(UnitOf(selected[next]))
<1> DEFINE x == selected[next]
           u == UnitOf(x)
<1>1. /\ x \in Places /\ u \in Unit /\ TypeOK /\ DOMAIN selected = 1..Len(selected)
      /\ next \in 1..Len(selected) /\ next \in Nat
  BY AtIndex, OfferOfPlace DEF IInv
<1>2. seen[u] = Cardinality(KeptOf(u)) /\ seen[u] \in Nat
  BY <1>1 DEF Counting, TypeOK
<1>3. KeptOf(u) \subseteq Cheaper(x)
  <2> SUFFICES ASSUME NEW j \in KeptOf(u) PROVE j \in Cheaper(x)
    OBVIOUS
  <2>1. j \in Members(kept) /\ UnitOf(j) = u
    BY DEF KeptOf
  <2>2. PICK k \in 1..(next - 1) : k \in DOMAIN selected /\ selected[k] = j
    BY <2>1 DEF IInv, Truncating
  <2>3. k < next
    BY <1>1, <2>2
  <2>4. j \in Places
    BY <1>1, <2>2 DEF TypeOK
  <2> QED BY <2>1, <2>2, <2>3, <2>4, CheaperAreBehind
<1>4. ~ Full(u) => Cheaper(x) \subseteq KeptOf(u)
  <2> SUFFICES ASSUME ~ Full(u), NEW j \in Cheaper(x) PROVE j \in KeptOf(u)
    OBVIOUS
  <2>1. PICK k \in DOMAIN selected : k < next /\ selected[k] = j /\ UnitOf(j) = u
    BY CheaperAreBehind
  <2>2. DecidedByRule(k)
    BY <2>1 DEF Counting
  <2> QED BY <2>1, <2>2 DEF DecidedByRule, KeptOf
<1>5. IsFiniteSet(Cheaper(x)) /\ Cardinality(Cheaper(x)) \in Nat
  <2>1. Cheaper(x) \subseteq Places
    BY DEF Cheaper
  <2> QED BY <1>1, <2>1, PlacesAreFinite
<1>6. seen[u] <= Cardinality(Cheaper(x))
  BY <1>2, <1>3, <1>5, FS_Subset
<1>7. ~ Full(u) => seen[u] = Cardinality(Cheaper(x))
  <2>1. ~ Full(u) => KeptOf(u) = Cheaper(x)
    BY <1>3, <1>4
  <2> QED BY <1>2, <2>1
<1>8. Cap(u) # None => Cap(u) \in Nat
  BY <1>1 DEF Cap, TypeOK, RateFilter, UnitFilter
<1>9. HasRoom(x) <=> Cap(u) = None \/ Cardinality(Cheaper(x)) < Cap(u)
  BY DEF HasRoom, Cheaper
<1> HIDE DEF x, u
<1>10. HasRoom(x) <=> ~ Full(u)
  BY <1>2, <1>5, <1>6, <1>7, <1>8, <1>9 DEF Full
<1> QED BY <1>10 DEF x, u

-----------------------------------------------------------------------------
LEMMA CountingInit == Init => Counting
<1> SUFFICES ASSUME Init PROVE Counting
  OBVIOUS
<1>1. Members(kept) = {} /\ \A u : KeptOf(u) = {}
  BY DEF Init, KeptOf, Members
<1>2. \A u \in Unit : seen[u] = Cardinality(KeptOf(u))
  BY <1>1, FS_EmptySet DEF Init
<1>3. \A i \in Places : ~ (i < next)
  BY RateFiltersAssumption DEF Init, Places
<1> QED BY <1>2, <1>3 DEF Counting, Init

\* A step that leaves the response, the filters and what is kept alone leaves the
\* counts alone.
LEMMA CountStays ==
  ASSUME Counting, UNCHANGED <<found, filters, kept, seen>>, pc \in {"filter", "truncate"}
  PROVE  \A u \in Unit : seen'[u] = Cardinality(KeptOf(u)')
<1>1. \A u : KeptOf(u)' = KeptOf(u)
  BY DEF KeptOf, Members, UnitOf
<1> QED BY <1>1 DEF Counting

LEMMA PassCounts == IInv /\ Counting /\ Pass => Counting'
<1> SUFFICES ASSUME IInv, Counting, Pass PROVE Counting'
  OBVIOUS
<1> USE DEF Pass
<1>1. /\ next \in Places /\ next \in Nat
      /\ Members(selected') = Members(selected) \cup {next}
  <2>1. next \in Places /\ next \in Nat /\ selected \in Seq(Places)
    BY DEF IInv, TypeOK, Places
  <2> QED BY <2>1, AppendMembers
<1>2. Places' = Places /\ \A i : Permitted(i)' <=> Permitted(i)
  BY RulesStay
<1>3. ASSUME NEW i \in Places, Permitted(i), i < next + 1 PROVE i \in Members(selected')
  <2>1. i < next \/ i = next
    BY <1>1, <1>3 DEF Places
  <2> QED BY <1>1, <1>3, <2>1 DEF Counting
<1>4. \A u \in Unit : seen'[u] = Cardinality(KeptOf(u)')
  BY CountStays
<1> QED BY <1>2, <1>3, <1>4 DEF Counting, Members

LEMMA DropCounts == IInv /\ Counting /\ Drop => Counting'
<1> SUFFICES ASSUME IInv, Counting, Drop PROVE Counting'
  OBVIOUS
<1>1. /\ UNCHANGED <<found, filters, repricing, pc, selected, kept, seen>>
      /\ pc = "filter" /\ next <= Len(found) /\ next' = next + 1
      /\ \E s \in 1..8 : Fails(s, found[next])
  BY DEF Drop
<1>2. next \in Places /\ next \in Nat /\ ~ Permitted(next)
  <2>1. next \in Places /\ next \in Nat
    BY <1>1 DEF IInv, TypeOK, Places
  <2> QED BY <1>1, <2>1, DroppedAreNotPermitted DEF IInv
<1>3. Places' = Places /\ \A i : Permitted(i)' <=> Permitted(i)
  BY <1>1, RulesStay
<1>4. ASSUME NEW i \in Places, Permitted(i), i < next + 1 PROVE i \in Members(selected)
  <2>1. i < next
    BY <1>2, <1>4 DEF Places
  <2> QED BY <1>4, <2>1 DEF Counting
<1>5. \A u \in Unit : seen'[u] = Cardinality(KeptOf(u)')
  BY <1>1, CountStays
<1> QED BY <1>1, <1>3, <1>4, <1>5 DEF Counting, Members

LEMMA SortCounts == IInv /\ Counting /\ Sort => Counting'
<1> SUFFICES ASSUME IInv, Counting, Sort PROVE Counting'
  OBVIOUS
<1>1. PICK s \in [1..Len(selected) -> Places] : Sorts(s) /\ selected' = s
  BY DEF Sort
<1>2. /\ UNCHANGED <<found, filters, repricing, kept, seen>>
      /\ pc = "filter" /\ next > Len(found) /\ pc' = "truncate" /\ next' = 1
  BY DEF Sort
<1>3. Members(selected') = Members(selected)
  BY <1>1 DEF Sorts, Members
<1>4. Places' = Places /\ \A i : Permitted(i)' <=> Permitted(i)
  BY <1>2, RulesStay
<1>5. \A i \in Places : Permitted(i) => i \in Members(selected)
  <2>1. \A i \in Places : i < next
    BY <1>2 DEF IInv, TypeOK, Places
  <2> QED BY <2>1 DEF Counting
<1>6. \A k \in DOMAIN selected' : ~ (k < next')
  <2>1. DOMAIN selected' = 1..Len(selected) /\ Len(selected) \in Nat
    BY <1>1 DEF IInv, TypeOK
  <2> QED BY <1>2, <2>1
<1>7. \A u \in Unit : seen'[u] = Cardinality(KeptOf(u)')
  BY <1>2, CountStays
<1> QED BY <1>2, <1>3, <1>4, <1>5, <1>6, <1>7 DEF Counting

LEMMA KeepCounts == IInv /\ Counting /\ Keep => Counting'
<1> SUFFICES ASSUME IInv, Counting, Keep PROVE Counting'
  OBVIOUS
<1> DEFINE x == selected[next]
           v == UnitOf(x)
<1>1. /\ UNCHANGED <<found, filters, repricing, pc, selected, trace, price>>
      /\ pc = "truncate" /\ next <= Len(selected) /\ next' = next + 1 /\ ~ Full(v)
      /\ kept' = Append(kept, x) /\ seen' = [seen EXCEPT ![v] = @ + 1]
  BY DEF Keep
<1>2. /\ next \in DOMAIN selected /\ x \in Places /\ x \notin Members(kept) /\ next \in Nat
      /\ DOMAIN selected \subseteq Nat
      /\ \A k \in DOMAIN selected : selected[k] \in Places /\ (k # next => selected[k] # x)
  <2>1. \A k \in DOMAIN selected : selected[k] \in Places
    BY DEF IInv, TypeOK
  <2> QED BY <1>1, <2>1, AtIndex
<1>3. Members(kept') = Members(kept) \cup {x} /\ Members(kept) \subseteq Places
  BY <1>1, <1>2, AppendMembers, MembersType DEF IInv, TypeOK
<1>4. /\ \A i : HasRoom(i)' <=> HasRoom(i)
      /\ \A i : UnitOf(i)' = UnitOf(i)
      /\ \A u : Cap(u)' = Cap(u)
  BY <1>1, RoomStays
<1>5. HasRoom(x)
  BY <1>1, FullIsNoRoom
<1>6. v \in Unit /\ seen \in [Unit -> Nat] /\ \A u \in Unit : Cap(u) # None => Cap(u) \in Nat
  BY <1>2, OfferOfPlace DEF IInv, TypeOK, Cap, RateFilter, UnitFilter
<1>7. \A u \in Unit : Full(u) => Full(u)'
  BY <1>1, <1>4, <1>6 DEF Full
<1>8. ASSUME NEW u \in Unit PROVE seen'[u] = Cardinality(KeptOf(u)')
  <2>1. IsFiniteSet(KeptOf(u)) /\ seen[u] = Cardinality(KeptOf(u)) /\ x \notin KeptOf(u)
    <3>1. KeptOf(u) \subseteq Places
      BY <1>3 DEF KeptOf
    <3> QED BY <1>1, <1>2, <3>1, PlacesAreFinite DEF IInv, Counting, KeptOf
  <2>2. CASE u = v
    <3>1. KeptOf(u)' = KeptOf(u) \cup {x}
      BY <1>3, <1>4, <2>2 DEF KeptOf, Members
    <3> QED BY <1>1, <1>6, <2>1, <2>2, <3>1, FS_AddElement
  <2>3. CASE u # v
    <3>1. KeptOf(u)' = KeptOf(u)
      BY <1>3, <1>4, <2>3 DEF KeptOf, Members
    <3> QED BY <1>1, <1>6, <2>1, <2>3, <3>1
  <2> QED BY <2>2, <2>3
<1>9. ASSUME NEW k \in DOMAIN selected, k < next + 1 PROVE DecidedByRule(k)'
  <2>1. CASE k = next
    BY <1>1, <1>3, <1>4, <1>5, <2>1 DEF DecidedByRule, Members
  <2>2. CASE k # next
    <3>1. k < next
      BY <1>2, <1>9, <2>2
    <3>2. DecidedByRule(k) /\ UnitOf(selected[k]) \in Unit
      BY <1>1, <1>2, <3>1, OfferOfPlace DEF Counting, IInv
    <3>3. selected[k] \in Members(kept') <=> selected[k] \in Members(kept)
      BY <1>2, <1>3, <2>2
    <3> QED BY <1>1, <1>4, <1>7, <3>2, <3>3 DEF DecidedByRule, Members
  <2> QED BY <2>1, <2>2
<1>10. Places' = Places /\ (\A i : Permitted(i)' <=> Permitted(i))
  BY <1>1, RulesStay
<1> QED BY <1>1, <1>8, <1>9, <1>10 DEF Counting, Members

LEMMA TruncateCounts == IInv /\ Counting /\ Truncate => Counting'
<1> SUFFICES ASSUME IInv, Counting, Truncate PROVE Counting'
  OBVIOUS
<1> DEFINE x == selected[next]
<1>1. /\ UNCHANGED <<found, filters, repricing, pc, selected, kept, seen, price>>
      /\ pc = "truncate" /\ next <= Len(selected) /\ next' = next + 1 /\ Full(UnitOf(x))
  BY DEF Truncate
<1>2. /\ next \in DOMAIN selected /\ x \notin Members(kept) /\ next \in Nat
      /\ DOMAIN selected \subseteq Nat
  BY <1>1, AtIndex DEF IInv, TypeOK
<1>3. /\ \A i : HasRoom(i)' <=> HasRoom(i)
      /\ \A i : UnitOf(i)' = UnitOf(i)
      /\ \A u : Cap(u)' = Cap(u)
  BY <1>1, RoomStays
<1>4. ~ HasRoom(x)
  BY <1>1, FullIsNoRoom
<1>5. \A u : Full(u)' <=> Full(u)
  BY <1>1, <1>3 DEF Full
<1>6. ASSUME NEW k \in DOMAIN selected, k < next + 1 PROVE DecidedByRule(k)'
  <2>1. DecidedByRule(k)
    <3>1. CASE k = next
      BY <1>1, <1>2, <1>4, <3>1 DEF DecidedByRule
    <3>2. CASE k # next
      <4>1. k < next
        BY <1>2, <1>6, <3>2
      <4> QED BY <1>1, <4>1 DEF Counting
    <3> QED BY <3>1, <3>2
  <2> QED BY <1>1, <1>3, <1>5, <2>1 DEF DecidedByRule, Members
<1>7. \A u \in Unit : seen'[u] = Cardinality(KeptOf(u)')
  BY <1>1, CountStays
<1>8. Places' = Places /\ (\A i : Permitted(i)' <=> Permitted(i))
  BY <1>1, RulesStay
<1> QED BY <1>1, <1>6, <1>7, <1>8 DEF Counting, Members

\* Once every offer of the sorted list is decided by the rule, what is kept is what the
\* rules leave.
LEMMA FilteredCounts == IInv /\ Counting /\ Filtered => Counting'
<1> SUFFICES ASSUME IInv, Counting, Filtered PROVE Counting'
  OBVIOUS
<1>1. /\ UNCHANGED <<found, filters, repricing, selected, kept, seen, trace, price>>
      /\ pc = "truncate" /\ next > Len(selected)
      /\ pc' \notin {"filter", "truncate"}
  BY DEF Filtered
<1>2. \A k \in DOMAIN selected : DecidedByRule(k)
  <2>1. \A k \in DOMAIN selected : k < next
    BY <1>1 DEF IInv, TypeOK
  <2> QED BY <1>1, <2>1 DEF Counting
<1>3. /\ Members(kept) \subseteq Members(selected) /\ Members(selected) \subseteq Places
      /\ \A i \in Members(selected) : Permitted(i)
      /\ \A i \in Places : Permitted(i) => i \in Members(selected)
  BY <1>1, MembersType DEF IInv, TypeOK, Truncating, Selecting, Counting
<1>4. \A i \in Members(selected) : i \in Members(kept) <=> HasRoom(i)
  <2> SUFFICES ASSUME NEW k \in DOMAIN selected
               PROVE  selected[k] \in Members(kept) <=> HasRoom(selected[k])
    BY DEF Members
  <2> QED BY <1>2 DEF DecidedByRule
<1>5. Members(kept) = {i \in Places : Permitted(i) /\ HasRoom(i)}
  BY <1>3, <1>4
<1>6. /\ Places' = Places /\ \A i : Permitted(i)' <=> Permitted(i)
      /\ \A i : HasRoom(i)' <=> HasRoom(i)
  BY <1>1, RulesStay, RoomStays
<1> QED BY <1>1, <1>3, <1>5, <1>6 DEF Counting, Members

\* The third loop and a stutter leave all of it alone.
LEMMA CountingRests ==
  ASSUME Counting, UNCHANGED <<found, filters, repricing, selected, kept, seen>>,
         \/ pc \notin {"filter", "truncate"} /\ pc' \notin {"filter", "truncate"}
         \/ pc' = pc /\ next' = next
  PROVE  Counting'
<1>1. /\ Places' = Places /\ \A i : Permitted(i)' <=> Permitted(i)
      /\ \A i : HasRoom(i)' <=> HasRoom(i)
      /\ \A i : UnitOf(i)' = UnitOf(i)
      /\ \A u : Cap(u)' = Cap(u)
  BY RulesStay, RoomStays
<1>2. pc' \in {"filter", "truncate"} => \A u \in Unit : seen'[u] = Cardinality(KeptOf(u)')
  BY CountStays
<1>3. pc' = "truncate" => \A k \in DOMAIN selected' : k < next' => DecidedByRule(k)'
  <2> SUFFICES ASSUME pc' = "truncate", NEW k \in DOMAIN selected, k < next
               PROVE  DecidedByRule(k)'
    OBVIOUS
  <2>1. DecidedByRule(k)
    BY DEF Counting
  <2> QED BY <1>1, <2>1 DEF DecidedByRule, Full, Members
<1> QED BY <1>1, <1>2, <1>3 DEF Counting, Members

\* What the loops leave a deal is exactly what the tenant's rules permit, the cheapest of
\* each capped unit, cheapest first (rateFilters.ts 64-135, ARCHITECTURE.md 741-747).
THEOREM CheapestAreLeft == Spec => []LeavesTheCheapestPermitted
<1>1. Init => Counting
  BY CountingInit
<1>2. IInv /\ Counting /\ [Next]_vars => Counting'
  <2> SUFFICES ASSUME IInv, Counting, [Next]_vars PROVE Counting'
    OBVIOUS
  <2>1. CASE Pass \/ Drop \/ Sort \/ Keep \/ Truncate \/ Filtered
    BY <2>1, PassCounts, DropCounts, SortCounts, KeepCounts, TruncateCounts, FilteredCounts
  <2>2. CASE Apply \/ Fallback \/ Throw \/ Repriced
    BY <2>2, CountingRests DEF Apply, Fallback, Throw, Repriced
  <2>3. CASE UNCHANGED vars
    BY <2>3, CountingRests DEF vars
  <2> QED BY <2>1, <2>2, <2>3 DEF Next
<1>3. IInv /\ Counting => LeavesTheCheapestPermitted
  BY DEF IInv, Truncating, Counting, Ordered, LeavesTheCheapestPermitted
<1> QED BY <1>1, <1>2, <1>3, FiltersInvariance, PTL DEF Spec
=============================================================================

------------------------------- MODULE Party -------------------------------
(***************************************************************************)
(* Who travels.  A job reads the party of its deal from the payload of its *)
(* event, applies the property's child-age rule and writes the result back *)
(* to the fields it was read from: infants leave the deal, older children  *)
(* become adults.  The next event of the deal carries what was written, so *)
(* the rule is applied again and again to its own result, by jobs that may *)
(* run side by side, retry with the payload they have, and read a rule the *)
(* tenant has changed since.                                               *)
(*                                                                         *)
(* This is one deal.  Its fields are those of the default field maps; the  *)
(* numbers of child-age slots read and written are constants, as a tenant  *)
(* may map other ones.  An age of 0 stands for an empty slot.              *)
(***************************************************************************)
EXTENDS Naturals, Sequences, FiniteSets

CONSTANTS
  Job,        \* jobs of the deal that exist at one time
  InSlots,    \* input_field_map.child_ages
  OutSlots,   \* output_field_map.child_age_slots
  MaxAge,
  Rules,      \* child-age rules the property has at one time or another
  NoRule,     \* the property has none
  Entries,    \* what the deal may say when it is created
  Blank,      \* an adults field that is empty
  MaxEdits    \* bound: later edits of the deal

Age == 0..MaxAge
Slot == 1..OutSlots
Rule == [donja: Nat, gornja: Nat]
MaybeRule == Rules \cup {NoRule}

Deal == [adults: Nat \cup {Blank}, fallback: Nat \cup {Blank}, ages: [Slot -> Age]]

\* Every slot that is read is written.
ASSUME PartyAssumption ==
  /\ {InSlots, OutSlots, MaxAge, MaxEdits} \subseteq Nat
  /\ InSlots <= OutSlots
  /\ Rules \subseteq Rule /\ NoRule \notin Rules
  /\ Blank \notin Nat
  /\ Entries \subseteq Deal

\* A party as a payload carries it.
Payload == [adults: Nat, ages: [1..InSlots -> Age]]

\* Where a deal's party comes from: what was last entered by hand, and the rules that
\* were applied to it since.
Origin == [entered: Payload, rules: SUBSET MaybeRule]

VARIABLES
  deal,     \* the deal's fields in HubSpot
  origin,   \* ghost: where they come from
  rule,     \* the property's rule in the tenant's configuration
  job,      \* [Job -> what the job is doing]
  edits     \* edits so far

vars == <<deal, origin, rule, job, edits>>

PC == {"idle", "waiting", "normalize", "write", "search"}

\* next, adults, kept: the loop of normalizeChildAges.  of: the payload's origin.
JobRecord == [pc: PC, payload: Payload, of: Origin, rule: MaybeRule,
              next: Nat, adults: Nat, kept: Seq(Age)]

TypeOK ==
  /\ deal \in Deal /\ origin \in Origin /\ rule \in MaybeRule
  /\ job \in [Job -> JobRecord]
  /\ edits \in 0..MaxEdits

-----------------------------------------------------------------------------
\* Mutant: no default when both fields are empty.
AdultsOrBlank(d) == IF d.adults # Blank THEN d.adults ELSE d.fallback

\* readMapped(adults, fallback_adults), and 0 when neither has a number.
AdultsOf(d) ==
  IF d.adults # Blank THEN d.adults
  ELSE IF d.fallback # Blank THEN d.fallback ELSE 0

ReadDeal(d) == [adults |-> AdultsOf(d), ages |-> [s \in 1..InSlots |-> d.ages[s]]]

Entered(d) == [entered |-> ReadDeal(d), rules |-> {}]

NoPayload == [adults |-> 0, ages |-> [s \in 1..InSlots |-> 0]]
Idle == [pc |-> "idle", payload |-> NoPayload, of |-> [entered |-> NoPayload, rules |-> {}],
         rule |-> NoRule, next |-> 1, adults |-> 0, kept |-> <<>>]

Init ==
  /\ deal \in Entries /\ origin = Entered(deal)
  /\ rule \in MaybeRule
  /\ job = [j \in Job |-> Idle]
  /\ edits = 0

\* Somebody changes the number of adults, or one child's age, in HubSpot.
Edit(d) ==
  /\ edits < MaxEdits
  /\ deal' = d /\ origin' = Entered(d)
  /\ edits' = edits + 1
  /\ UNCHANGED <<rule, job>>

EditDeal ==
  \/ \E n \in 0..MaxAge : Edit([deal EXCEPT !.adults = n])
  \/ \E s \in 1..InSlots, a \in Age : Edit([deal EXCEPT !.ages[s] = a])

\* The tenant's property rules are saved.
SaveRule ==
  /\ edits < MaxEdits /\ edits' = edits + 1
  /\ rule' \in MaybeRule \ {rule}
  /\ UNCHANGED <<deal, origin, job>>

\* A workflow of HubSpot sends the deal as it is, for whatever reason.
Event(j) ==
  /\ job[j].pc = "idle"
  /\ job' = [job EXCEPT ![j].pc = "waiting", ![j].payload = ReadDeal(deal), ![j].of = origin]
  /\ UNCHANGED <<deal, origin, rule, edits>>

\* An attempt starts: the tenant's rule of this moment, and the loop from its beginning.
Take(j) ==
  /\ job[j].pc = "waiting"
  /\ job' = [job EXCEPT ![j].pc = "normalize", ![j].rule = rule, ![j].next = 1,
                        ![j].adults = job[j].payload.adults, ![j].kept = <<>>]
  /\ UNCHANGED <<deal, origin, rule, edits>>

\* Mutant: the upper bound itself counts as an adult.
ChildBelow(r, a) == r = NoRule \/ (a > r.donja /\ a < r.gornja)

Child(r, a) == r = NoRule \/ (a > r.donja /\ a <= r.gornja)
Grown(r, a) == ~ Child(r, a) /\ a > r.donja

\* One round of the loop: an empty slot, an infant, a child or an adult.
Normalize(j) ==
  LET b == job[j]
      a == b.payload.ages[b.next]
  IN
  /\ b.pc = "normalize" /\ b.next <= InSlots
  /\ job' = [job EXCEPT
       ![j].next = b.next + 1,
       ![j].kept = IF a > 0 /\ Child(b.rule, a) THEN Append(b.kept, a) ELSE b.kept,
       ![j].adults = IF a > 0 /\ Grown(b.rule, a) THEN b.adults + 1 ELSE b.adults]
  /\ UNCHANGED <<deal, origin, rule, edits>>

Normalized(j) ==
  /\ job[j].pc = "normalize" /\ job[j].next > InSlots
  /\ job' = [job EXCEPT ![j].pc = "write"]
  /\ UNCHANGED <<deal, origin, rule, edits>>

LineageOf(j) == [entered |-> job[j].of.entered, rules |-> job[j].of.rules \cup {job[j].rule}]

\* Mutant: a slot without a child keeps its age.
WrittenOver(j) ==
  [deal EXCEPT !.adults = job[j].adults,
               !.ages = [s \in Slot |-> IF s \in DOMAIN job[j].kept THEN job[j].kept[s] ELSE @[s]]]

Written(j) ==
  [deal EXCEPT !.adults = job[j].adults,
               !.ages = [s \in Slot |-> IF s \in DOMAIN job[j].kept THEN job[j].kept[s] ELSE 0]]

\* deal.update.normalized: one PATCH for all of it, whatever the deal says by now.
Write(j) ==
  /\ job[j].pc = "write"
  /\ deal' = Written(j) /\ origin' = LineageOf(j)
  /\ job' = [job EXCEPT ![j].pc = "search"]
  /\ UNCHANGED <<rule, edits>>

\* The job is done with the party it searched for, or it gives up: it has no attempt
\* left, or a check before the deal is written rejects it (deal.verify).
Finish(j) ==
  /\ job[j].pc # "idle"
  /\ job' = [job EXCEPT ![j] = Idle]
  /\ UNCHANGED <<deal, origin, rule, edits>>

\* A call fails, before or after the deal was written: the attempt ends, and the next
\* one has the same payload.
Retry(j) ==
  /\ job[j].pc \in {"normalize", "write", "search"}
  /\ job' = [job EXCEPT ![j].pc = "waiting"]
  /\ UNCHANGED <<deal, origin, rule, edits>>

Next ==
  \/ EditDeal \/ SaveRule
  \/ \E j \in Job : \/ Event(j) \/ Take(j) \/ Normalize(j) \/ Normalized(j)
                    \/ Write(j) \/ Finish(j) \/ Retry(j)

Spec == Init /\ [][Next]_vars

-----------------------------------------------------------------------------
(* Properties *)

Guests(p) == p.adults + Cardinality({s \in 1..InSlots : p.ages[s] > 0})

\* However often a deal is processed, by however many jobs and under however many
\* rules, a person is counted once: the party on the deal, and the party a job has
\* counted, is never larger than the one last entered by hand.
NobodyCountedTwice ==
  /\ Guests(ReadDeal(deal)) <= Guests(origin.entered)
  /\ \A j \in Job : job[j].adults + Len(job[j].kept) <= Guests(job[j].of.entered)

\* The ages at some slots, in the slots' order.
Listed(ages, slots) ==
  [k \in 1..Cardinality(slots) |->
     ages[CHOOSE s \in slots : Cardinality({t \in slots : t <= s}) = k]]

\* The rule of childAgeRules.ts 8-11, without a loop.
Grownups(p, r) ==
  {s \in 1..InSlots : r # NoRule /\ p.ages[s] > 0 /\ p.ages[s] > r.donja /\ p.ages[s] > r.gornja}
Children(p, r) ==
  {s \in 1..InSlots : p.ages[s] > 0 /\ (r # NoRule => r.donja < p.ages[s] /\ p.ages[s] <= r.gornja)}

Normal(p, r) == [adults |-> p.adults + Cardinality(Grownups(p, r)),
                 ages   |-> Listed(p.ages, Children(p, r))]

\* A deal that is processed again searches for the same party: as long as one rule was
\* applied since the party was entered, every job arrives at that rule's result for
\* what was entered, the first and the ones that started from a result.
SamePartyEveryTime ==
  \A j \in Job :
    job[j].pc \in {"write", "search"} /\ LineageOf(j).rules = {job[j].rule} =>
      [adults |-> job[j].adults, ages |-> job[j].kept] = Normal(job[j].of.entered, job[j].rule)
=============================================================================

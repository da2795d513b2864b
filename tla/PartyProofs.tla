---------------------------- MODULE PartyProofs ----------------------------
(***************************************************************************)
(* A person is counted once, for any number of jobs, slots and rules, and  *)
(* any order of events, retries and edits.  What carries the proof is the  *)
(* loop: a filled slot behind its index has become a child or an adult of  *)
(* the result, or nothing; and the write, which empties every slot that is *)
(* read and is not written with a child (InSlots <= OutSlots).  And one    *)
(* rule has one result: the loop computes what the rule says of all slots  *)
(* at once, and the rule leaves its own result as it is.                   *)
(***************************************************************************)
EXTENDS Party, FiniteSetTheorems, SequenceTheorems, TLAPS

\* The filled slots of a party before slot k.
Filled(p, k) == {s \in 1..InSlots : s < k /\ p.ages[s] > 0}

\* What a job has counted so far comes from the slots behind its loop.
Counting(b) ==
  /\ Guests(b.payload) <= Guests(b.of.entered)
  /\ b.next \in 1..(InSlots + 1)
  /\ b.adults + Len(b.kept) <= b.payload.adults + Cardinality(Filled(b.payload, b.next))
  /\ b.pc = "idle" => b = Idle

DealInv == Guests(ReadDeal(deal)) <= Guests(origin.entered)
JobInv == \A j \in Job : Counting(job[j])
IInv == TypeOK /\ DealInv /\ JobInv

-----------------------------------------------------------------------------
(* Counting filled slots. *)

LEMMA FilledFinite ==
  ASSUME NEW p \in Payload, NEW k \in Nat
  PROVE  /\ IsFiniteSet(Filled(p, k)) /\ Cardinality(Filled(p, k)) \in Nat
         /\ Cardinality(Filled(p, k)) <= Cardinality({s \in 1..InSlots : p.ages[s] > 0})
         /\ Cardinality({s \in 1..InSlots : p.ages[s] > 0}) \in Nat
<1> DEFINE All == {s \in 1..InSlots : p.ages[s] > 0}
<1>1. InSlots \in Nat
  BY PartyAssumption
<1>2. IsFiniteSet(1..InSlots)
  BY <1>1, FS_Interval
<1>3. IsFiniteSet(All)
  BY <1>2, FS_Subset
<1>4. Filled(p, k) \in SUBSET All
  BY DEF Filled
<1>5. IsFiniteSet(Filled(p, k)) /\ Cardinality(Filled(p, k)) <= Cardinality(All)
  BY <1>3, <1>4, FS_Subset
<1>6. Cardinality(Filled(p, k)) \in Nat /\ Cardinality(All) \in Nat
  BY <1>3, <1>5, FS_CardinalityType
<1> QED BY <1>5, <1>6

\* One slot further there is one filled slot more if that slot is filled.
LEMMA FilledNext ==
  ASSUME NEW p \in Payload, NEW k \in 1..InSlots
  PROVE  Cardinality(Filled(p, k + 1)) =
           IF p.ages[k] > 0 THEN Cardinality(Filled(p, k)) + 1 ELSE Cardinality(Filled(p, k))
<1>1. InSlots \in Nat /\ k \in Nat
  BY PartyAssumption
<1>2. k \notin Filled(p, k)
  BY <1>1 DEF Filled
<1>3. IsFiniteSet(Filled(p, k))
  BY <1>1, FilledFinite
<1>4. CASE p.ages[k] > 0
  <2>1. Filled(p, k + 1) = Filled(p, k) \cup {k}
    BY <1>1, <1>4 DEF Filled
  <2> QED BY <2>1, <1>2, <1>3, <1>4, FS_AddElement
<1>5. CASE ~ (p.ages[k] > 0)
  <2>1. Filled(p, k + 1) = Filled(p, k)
    BY <1>1, <1>5 DEF Filled
  <2> QED BY <2>1, <1>5
<1> QED BY <1>4, <1>5

LEMMA PayloadAdults ==
  ASSUME NEW p \in Payload
  PROVE  p.adults \in Nat /\ Guests(p) \in Nat
<1>1. p.adults \in Nat
  BY DEF Payload
<1>2. Cardinality({s \in 1..InSlots : p.ages[s] > 0}) \in Nat
  BY FilledFinite, 0 \in Nat
<1> QED BY <1>1, <1>2 DEF Guests

\* What a job has counted is at most what its payload held.
LEMMA CountedIsBounded ==
  ASSUME NEW b \in JobRecord, Counting(b)
  PROVE  b.adults + Len(b.kept) <= Guests(b.of.entered)
<1>1. b.payload \in Payload /\ b.of.entered \in Payload /\ b.adults \in Nat /\ b.kept \in Seq(Age)
  BY DEF JobRecord, Origin
<1>2. b.next \in Nat
  BY DEF JobRecord
<1>3. b.payload.adults \in Nat /\ Guests(b.of.entered) \in Nat /\ Guests(b.payload) \in Nat
  BY <1>1, PayloadAdults
<1>4. /\ Cardinality(Filled(b.payload, b.next)) \in Nat
      /\ Cardinality({s \in 1..InSlots : b.payload.ages[s] > 0}) \in Nat
      /\ Cardinality(Filled(b.payload, b.next)) <= Cardinality({s \in 1..InSlots : b.payload.ages[s] > 0})
  BY <1>1, <1>2, FilledFinite
<1>5. b.payload.adults + Cardinality(Filled(b.payload, b.next)) <= Guests(b.payload)
  BY <1>3, <1>4 DEF Guests
<1>6. Len(b.kept) \in Nat
  BY <1>1
<1> QED BY <1>1, <1>3, <1>4, <1>5, <1>6 DEF Counting

-----------------------------------------------------------------------------
(* Types. *)

LEMMA ReadIsPayload ==
  ASSUME NEW d \in Deal
  PROVE  ReadDeal(d) \in Payload /\ Entered(d) \in Origin
<1>1. InSlots \in Nat /\ OutSlots \in Nat /\ InSlots <= OutSlots
  BY PartyAssumption
<1>2. d.ages \in [Slot -> Age] /\ d.adults \in Nat \cup {Blank} /\ d.fallback \in Nat \cup {Blank}
  BY DEF Deal
<1>3. \A s \in 1..InSlots : d.ages[s] \in Age
  BY <1>1, <1>2 DEF Slot
<1>4. AdultsOf(d) \in Nat
  BY <1>2 DEF AdultsOf
<1>5. ReadDeal(d) \in Payload
  BY <1>3, <1>4 DEF ReadDeal, Payload
<1> QED BY <1>5 DEF Entered, Origin

LEMMA IdleType ==
  Idle \in JobRecord /\ Counting(Idle)
<1>1. InSlots \in Nat /\ MaxAge \in Nat
  BY PartyAssumption
<1>2. 0 \in Age
  BY <1>1 DEF Age
<1>3. NoPayload \in Payload
  BY <1>2 DEF NoPayload, Payload
<1>4. <<>> \in Seq(Age) /\ Len(<<>>) = 0
  OBVIOUS
<1>5. NoRule \in MaybeRule
  BY DEF MaybeRule
<1>6. Idle \in JobRecord
  BY <1>3, <1>4, <1>5 DEF Idle, JobRecord, PC, Origin
<1>7. Cardinality(Filled(NoPayload, 1)) \in Nat
  BY <1>3, FilledFinite
<1>8. Guests(NoPayload) \in Nat
  BY <1>3, PayloadAdults
<1>9. /\ Idle.payload = NoPayload /\ Idle.of.entered = NoPayload /\ Idle.next = 1
      /\ Idle.adults = 0 /\ Idle.kept = <<>> /\ NoPayload.adults = 0
  BY DEF Idle, NoPayload
<1> QED BY <1>1, <1>4, <1>6, <1>7, <1>8, <1>9 DEF Counting

\* What a job writes is a deal, of no more guests than it has counted.
LEMMA WrittenIsCounted ==
  ASSUME TypeOK, NEW j \in Job
  PROVE  /\ Written(j) \in Deal
         /\ Guests(ReadDeal(Written(j))) <= job[j].adults + Len(job[j].kept)
<1> DEFINE b == job[j]
           w == Written(j)
           S == {s \in 1..InSlots : ReadDeal(w).ages[s] > 0}
<1>1. InSlots \in Nat /\ OutSlots \in Nat /\ InSlots <= OutSlots /\ MaxAge \in Nat /\ Blank \notin Nat
  BY PartyAssumption
<1>2. b.adults \in Nat /\ b.kept \in Seq(Age) /\ deal \in Deal
  BY DEF TypeOK, JobRecord
<1>3. /\ \A s \in DOMAIN b.kept : b.kept[s] \in Age
      /\ DOMAIN b.kept = 1..Len(b.kept) /\ Len(b.kept) \in Nat
  BY <1>2
<1>4. /\ w.adults = b.adults /\ w.fallback = deal.fallback
      /\ w.ages = [s \in Slot |-> IF s \in DOMAIN b.kept THEN b.kept[s] ELSE 0]
  BY <1>2 DEF Written, Deal
<1>5. w \in Deal
  <2>1. 0 \in Age
    BY <1>1 DEF Age
  <2>2. [s \in Slot |-> IF s \in DOMAIN b.kept THEN b.kept[s] ELSE 0] \in [Slot -> Age]
    BY <1>3, <2>1
  <2> QED BY <1>2, <2>2 DEF Written, Deal
<1>6. AdultsOf(w) = b.adults
  BY <1>1, <1>2, <1>4 DEF AdultsOf
<1>7. ReadDeal(w).adults = b.adults /\ \A s \in 1..InSlots : ReadDeal(w).ages[s] = w.ages[s]
  BY <1>6 DEF ReadDeal
<1>8. S \in SUBSET (1..Len(b.kept))
  <2> SUFFICES ASSUME NEW s \in 1..InSlots, ReadDeal(w).ages[s] > 0
               PROVE  s \in DOMAIN b.kept
    BY <1>3
  <2>1. s \in Slot /\ w.ages[s] > 0
    BY <1>1, <1>7 DEF Slot
  <2> QED BY <2>1, <1>4
<1>9. Cardinality(S) <= Len(b.kept) /\ Cardinality(S) \in Nat
  <2>1. IsFiniteSet(1..Len(b.kept)) /\ Cardinality(1..Len(b.kept)) = Len(b.kept)
    BY <1>3, FS_Interval
  <2>2. IsFiniteSet(S) /\ Cardinality(S) <= Len(b.kept)
    BY <2>1, <1>8, FS_Subset
  <2> QED BY <2>2, FS_CardinalityType
<1>10. Guests(ReadDeal(w)) = b.adults + Cardinality(S)
  BY <1>7 DEF Guests
<1> QED BY <1>2, <1>3, <1>5, <1>9, <1>10

-----------------------------------------------------------------------------
LEMMA PartyInit == Init => IInv
<1> SUFFICES ASSUME Init PROVE IInv
  OBVIOUS
<1>1. deal \in Deal
  BY PartyAssumption DEF Init
<1>2. origin \in Origin /\ ReadDeal(deal) \in Payload
  BY <1>1, ReadIsPayload DEF Init
<1>3. job \in [Job -> JobRecord] /\ JobInv
  BY IdleType DEF Init, JobInv
<1>4. edits \in 0..MaxEdits
  BY PartyAssumption DEF Init
<1>5. TypeOK
  BY <1>1, <1>2, <1>3, <1>4 DEF TypeOK, Init
<1>6. origin.entered = ReadDeal(deal)
  BY DEF Init, Entered
<1>7. DealInv
  BY <1>2, <1>6, PayloadAdults DEF DealInv
<1> QED BY <1>3, <1>5, <1>7 DEF IInv

\* A step that changes one job's record, and nothing the others' invariants mention.
LEMMA OneJobChanges ==
  ASSUME IInv, NEW j \in Job, NEW b \in JobRecord, Counting(b),
         job' = [job EXCEPT ![j] = b], UNCHANGED <<deal, origin, rule, edits>>
  PROVE  IInv'
<1>1. TypeOK'
  BY DEF IInv, TypeOK
<1>2. DealInv'
  BY DEF IInv, DealInv
<1>3. \A i \in Job : job'[i] = IF i = j THEN b ELSE job[i]
  BY DEF IInv, TypeOK
<1>4. \A i \in Job : Counting(job'[i])
  BY <1>3 DEF IInv, JobInv
<1>5. JobInv'
  BY <1>4 DEF JobInv
<1> QED BY <1>1, <1>2, <1>5 DEF IInv

LEMMA PartyNext == IInv /\ [Next]_vars => IInv'
<1> SUFFICES ASSUME IInv, [Next]_vars PROVE IInv'
  OBVIOUS
<1> USE DEF IInv
<1>0. /\ InSlots \in Nat /\ OutSlots \in Nat /\ InSlots <= OutSlots
      /\ MaxAge \in Nat /\ MaxEdits \in Nat
  BY PartyAssumption
<1>1. CASE UNCHANGED vars
  BY <1>1 DEF vars, TypeOK, DealInv, JobInv
<1>2. CASE EditDeal
  <2>1. PICK d \in Deal : Edit(d)
    <3>1. deal \in Deal
      BY DEF TypeOK
    <3>2. CASE \E n \in 0..MaxAge : Edit([deal EXCEPT !.adults = n])
      <4>1. PICK n \in 0..MaxAge : Edit([deal EXCEPT !.adults = n])
        BY <3>2
      <4>2. [deal EXCEPT !.adults = n] \in Deal
        BY <3>1, <1>0 DEF Deal
      <4> QED BY <4>1, <4>2
    <3>3. CASE \E s \in 1..InSlots, a \in Age : Edit([deal EXCEPT !.ages[s] = a])
      <4>1. PICK s \in 1..InSlots, a \in Age : Edit([deal EXCEPT !.ages[s] = a])
        BY <3>3
      <4>2. [deal EXCEPT !.ages[s] = a] \in Deal
        BY <3>1, <4>1 DEF Deal
      <4> QED BY <4>1, <4>2
    <3> QED BY <1>2, <3>2, <3>3 DEF EditDeal
  <2>2. deal' = d /\ origin' = Entered(d) /\ edits' = edits + 1 /\ UNCHANGED <<rule, job>> /\ edits < MaxEdits
    BY <2>1 DEF Edit
  <2>3. ReadDeal(d) \in Payload /\ Entered(d) \in Origin /\ Entered(d).entered = ReadDeal(d)
    BY ReadIsPayload DEF Entered
  <2>4. TypeOK'
    BY <1>0, <2>2, <2>3 DEF TypeOK
  <2>5. Guests(ReadDeal(d)) <= Guests(ReadDeal(d))
    BY <2>3, PayloadAdults
  <2>6. DealInv'
    BY <2>2, <2>3, <2>5 DEF DealInv
  <2>7. JobInv'
    BY <2>2 DEF JobInv
  <2> QED BY <2>4, <2>6, <2>7
<1>3. CASE SaveRule
  <2>1. TypeOK'
    BY <1>0, <1>3 DEF SaveRule, TypeOK
  <2>2. DealInv' /\ JobInv'
    BY <1>3 DEF SaveRule, DealInv, JobInv
  <2> QED BY <2>1, <2>2
<1>4. ASSUME NEW j \in Job,
             Event(j) \/ Take(j) \/ Normalize(j) \/ Normalized(j) \/ Finish(j) \/ Retry(j)
      PROVE  IInv'
  <2> DEFINE b == job[j]
  <2>1. b \in JobRecord /\ Counting(b) /\ job \in [Job -> JobRecord]
    BY DEF TypeOK, JobInv
  <2>2. /\ b.payload \in Payload /\ b.of \in Origin /\ b.rule \in MaybeRule /\ b.next \in Nat
        /\ b.adults \in Nat /\ b.kept \in Seq(Age) /\ Len(b.kept) \in Nat
    BY <2>1 DEF JobRecord
  <2>3. CASE Event(j)
    <3> DEFINE c == [b EXCEPT !.pc = "waiting", !.payload = ReadDeal(deal), !.of = origin]
    <3>1. job' = [job EXCEPT ![j] = c] /\ UNCHANGED <<deal, origin, rule, edits>> /\ b.pc = "idle"
      BY <2>1, <2>3 DEF Event
    <3>2. ReadDeal(deal) \in Payload /\ origin \in Origin
      BY ReadIsPayload DEF TypeOK
    <3>3. c \in JobRecord
      BY <2>1, <3>2 DEF JobRecord, PC
    <3>4. b.adults = 0 /\ b.kept = <<>> /\ b.next = 1
      BY <2>1, <3>1 DEF Counting, Idle
    <3>5. /\ c.payload = ReadDeal(deal) /\ c.of = origin /\ c.adults = 0 /\ c.kept = <<>>
          /\ c.next = 1 /\ c.pc = "waiting"
      BY <2>1, <3>4 DEF JobRecord
    <3>6. ReadDeal(deal).adults \in Nat /\ Cardinality(Filled(ReadDeal(deal), 1)) \in Nat
      BY <3>2, PayloadAdults, FilledFinite
    <3>7. Counting(c)
      BY <1>0, <3>5, <3>6 DEF Counting, DealInv
    <3> QED BY <3>1, <3>3, <3>7, OneJobChanges
  <2>4. CASE Take(j)
    <3> DEFINE c == [b EXCEPT !.pc = "normalize", !.rule = rule, !.next = 1,
                              !.adults = b.payload.adults, !.kept = <<>>]
    <3>1. job' = [job EXCEPT ![j] = c] /\ UNCHANGED <<deal, origin, rule, edits>>
      BY <2>1, <2>4 DEF Take
    <3>2. b.payload.adults \in Nat /\ Cardinality(Filled(b.payload, 1)) \in Nat
      BY <2>2, PayloadAdults, FilledFinite
    <3>3. c \in JobRecord
      <4>1. rule \in MaybeRule /\ <<>> \in Seq(Age) /\ 1 \in Nat /\ "normalize" \in PC
        BY DEF TypeOK, PC
      <4> QED BY <2>1, <3>2, <4>1 DEF JobRecord
    <3>4. /\ c.payload = b.payload /\ c.of = b.of /\ c.adults = b.payload.adults
          /\ c.kept = <<>> /\ c.next = 1 /\ c.pc = "normalize"
      BY <2>1 DEF JobRecord
    <3>5. Counting(c)
      BY <1>0, <2>1, <3>2, <3>4 DEF Counting
    <3> QED BY <3>1, <3>3, <3>5, OneJobChanges
  <2>5. CASE Normalize(j)
    <3> DEFINE a == b.payload.ages[b.next]
               k == IF a > 0 /\ Child(b.rule, a) THEN Append(b.kept, a) ELSE b.kept
               n == IF a > 0 /\ Grown(b.rule, a) THEN b.adults + 1 ELSE b.adults
               c == [b EXCEPT !.next = b.next + 1, !.kept = k, !.adults = n]
    <3>1. job' = [job EXCEPT ![j] = c] /\ UNCHANGED <<deal, origin, rule, edits>>
      BY <2>1, <2>5 DEF Normalize
    <3>2. b.pc = "normalize" /\ b.next \in 1..InSlots
      BY <1>0, <2>1, <2>5 DEF Normalize, Counting
    <3>3. a \in Age
      BY <2>2, <3>2 DEF Payload
    <3>4. k \in Seq(Age) /\ n \in Nat
      BY <2>2, <3>3
    <3>5. c \in JobRecord
      <4>1. b.next + 1 \in Nat
        BY <2>2
      <4> HIDE DEF n, k
      <4> QED BY <2>1, <3>4, <4>1 DEF JobRecord
    <3>6. /\ c.payload = b.payload /\ c.of = b.of /\ c.adults = n /\ c.kept = k
          /\ c.next = b.next + 1 /\ c.pc = "normalize"
      BY <2>1, <3>2 DEF JobRecord
    <3>7. n + Len(k) <= IF a > 0 THEN b.adults + Len(b.kept) + 1 ELSE b.adults + Len(b.kept)
      <4>1. Len(Append(b.kept, a)) = Len(b.kept) + 1
        BY <2>2, <3>3
      <4>2. Grown(b.rule, a) => ~ Child(b.rule, a)
        BY DEF Grown
      <4>3. CASE a > 0 /\ Child(b.rule, a)
        <5>1. k = Append(b.kept, a) /\ n = b.adults
          BY <4>2, <4>3
        <5> QED BY <2>2, <4>1, <4>3, <5>1
      <4>4. CASE ~ (a > 0 /\ Child(b.rule, a))
        <5>1. k = b.kept
          BY <4>4
        <5> HIDE DEF k
        <5> QED BY <2>2, <5>1
      <4> QED BY <4>3, <4>4
    <3>8. Cardinality(Filled(b.payload, b.next)) \in Nat /\ b.payload.adults \in Nat
      BY <2>2, FilledFinite, PayloadAdults
    <3>9. Cardinality(Filled(b.payload, b.next + 1)) =
            IF a > 0 THEN Cardinality(Filled(b.payload, b.next)) + 1
                     ELSE Cardinality(Filled(b.payload, b.next))
      BY <2>2, <3>2, FilledNext
    <3>10. n + Len(k) <= b.payload.adults + Cardinality(Filled(b.payload, b.next + 1))
      <4>1. b.adults + Len(b.kept) <= b.payload.adults + Cardinality(Filled(b.payload, b.next))
        BY <2>1 DEF Counting
      <4>2. n \in Nat /\ Len(k) \in Nat
        BY <3>4
      <4>3. b.adults + Len(b.kept) \in Nat
        BY <2>2
      <4>4. CASE a > 0
        <5>1. n + Len(k) <= b.adults + Len(b.kept) + 1
          BY <3>7, <4>4
        <5>2. Cardinality(Filled(b.payload, b.next + 1)) = Cardinality(Filled(b.payload, b.next)) + 1
          BY <3>9, <4>4
        <5> HIDE DEF n, k, b
        <5> QED BY <2>2, <3>8, <4>1, <4>2, <4>3, <5>1, <5>2
      <4>5. CASE ~ (a > 0)
        <5>1. n + Len(k) <= b.adults + Len(b.kept)
          BY <3>7, <4>5
        <5>2. Cardinality(Filled(b.payload, b.next + 1)) = Cardinality(Filled(b.payload, b.next))
          BY <3>9, <4>5
        <5> HIDE DEF n, k, b
        <5> QED BY <2>2, <3>8, <4>1, <4>2, <4>3, <5>1, <5>2
      <4> QED BY <4>4, <4>5
    <3>11. Counting(c)
      <4>1. b.next + 1 \in 1..(InSlots + 1)
        BY <1>0, <3>2
      <4> HIDE DEF n, k, c
      <4> QED BY <2>1, <3>6, <3>10, <4>1 DEF Counting
    <3> QED BY <3>1, <3>5, <3>11, OneJobChanges
  <2>6. CASE Normalized(j)
    <3> DEFINE c == [b EXCEPT !.pc = "write"]
    <3>1. job' = [job EXCEPT ![j] = c] /\ UNCHANGED <<deal, origin, rule, edits>>
      BY <2>1, <2>6 DEF Normalized
    <3>2. c \in JobRecord
      BY <2>1 DEF JobRecord, PC
    <3>3. /\ c.payload = b.payload /\ c.of = b.of /\ c.adults = b.adults /\ c.kept = b.kept
          /\ c.next = b.next /\ c.pc = "write"
      BY <2>1 DEF JobRecord
    <3>4. Counting(c)
      BY <2>1, <3>3 DEF Counting
    <3> QED BY <3>1, <3>2, <3>4, OneJobChanges
  <2>7. CASE Finish(j)
    <3>1. job' = [job EXCEPT ![j] = Idle] /\ UNCHANGED <<deal, origin, rule, edits>>
      BY <2>7 DEF Finish
    <3> QED BY <3>1, IdleType, OneJobChanges
  <2>8. CASE Retry(j)
    <3> DEFINE c == [b EXCEPT !.pc = "waiting"]
    <3>1. job' = [job EXCEPT ![j] = c] /\ UNCHANGED <<deal, origin, rule, edits>>
      BY <2>1, <2>8 DEF Retry
    <3>2. c \in JobRecord
      BY <2>1 DEF JobRecord, PC
    <3>3. /\ c.payload = b.payload /\ c.of = b.of /\ c.adults = b.adults /\ c.kept = b.kept
          /\ c.next = b.next /\ c.pc = "waiting"
      BY <2>1 DEF JobRecord
    <3>4. Counting(c)
      BY <2>1, <3>3 DEF Counting
    <3> QED BY <3>1, <3>2, <3>4, OneJobChanges
  <2> QED BY <1>4, <2>3, <2>4, <2>5, <2>6, <2>7, <2>8
<1>5. ASSUME NEW j \in Job, Write(j) PROVE IInv'
  <2> DEFINE b == job[j]
             c == [b EXCEPT !.pc = "search"]
  <2>1. b \in JobRecord /\ Counting(b) /\ job \in [Job -> JobRecord]
    BY DEF TypeOK, JobInv
  <2>2. /\ deal' = Written(j) /\ origin' = LineageOf(j) /\ UNCHANGED <<rule, edits>>
        /\ job' = [job EXCEPT ![j] = c]
    BY <1>5, <2>1 DEF Write
  <2>3. c \in JobRecord
    BY <2>1 DEF JobRecord, PC
  <2>4. /\ c.payload = b.payload /\ c.of = b.of /\ c.adults = b.adults /\ c.kept = b.kept
        /\ c.next = b.next /\ c.pc = "search"
    BY <2>1 DEF JobRecord
  <2>5. Counting(c)
    BY <2>1, <2>4 DEF Counting
  <2>6. Written(j) \in Deal /\ Guests(ReadDeal(Written(j))) <= b.adults + Len(b.kept)
    BY WrittenIsCounted
  <2>7. LineageOf(j) \in Origin /\ LineageOf(j).entered = b.of.entered
    BY <2>1 DEF LineageOf, Origin, JobRecord
  <2>8. TypeOK'
    BY <2>2, <2>3, <2>6, <2>7 DEF TypeOK
  <2>9. DealInv'
    <3>1. b.adults + Len(b.kept) <= Guests(b.of.entered)
      BY <2>1, CountedIsBounded
    <3>2. /\ ReadDeal(Written(j)) \in Payload /\ b.of.entered \in Payload
          /\ b.adults \in Nat /\ Len(b.kept) \in Nat
      BY <2>1, <2>6, ReadIsPayload DEF JobRecord, Origin
    <3>3. Guests(ReadDeal(Written(j))) \in Nat /\ Guests(b.of.entered) \in Nat
      BY <3>2, PayloadAdults
    <3>4. Guests(ReadDeal(Written(j))) <= Guests(b.of.entered)
      BY <2>6, <3>1, <3>2, <3>3
    <3> QED BY <2>2, <2>7, <3>4 DEF DealInv
  <2>10. \A i \in Job : job'[i] = IF i = j THEN c ELSE job[i]
    BY <2>1, <2>2
  <2>11. \A i \in Job : Counting(job'[i])
    BY <2>5, <2>10 DEF JobInv
  <2>12. JobInv'
    BY <2>11 DEF JobInv
  <2> QED BY <2>8, <2>9, <2>12
<1> QED BY <1>1, <1>2, <1>3, <1>4, <1>5 DEF Next

-----------------------------------------------------------------------------
\* For any number of jobs and slots, the deal and every job's count come from what was
\* entered (childAgeRules.ts 53-62, processDeal.ts 169-178).
THEOREM PartyInvariance == Spec => []IInv
<1> QED BY PartyInit, PartyNext, PTL DEF Spec

\* Every field, payload and count keeps its type.
THEOREM PartyTypeCorrect == Spec => []TypeOK
<1>1. IInv => TypeOK
  BY DEF IInv
<1> QED BY <1>1, PartyInvariance, PTL

\* A person is counted once, however often the child-age rule is applied to its own
\* result (processDeal.ts 141-178, 204-211).
THEOREM CountedOnce == Spec => []NobodyCountedTwice
<1>1. IInv => NobodyCountedTwice
  <2> SUFFICES ASSUME IInv PROVE NobodyCountedTwice
    OBVIOUS
  <2>1. \A j \in Job : job[j] \in JobRecord /\ Counting(job[j])
    BY DEF IInv, TypeOK, JobInv
  <2>2. \A j \in Job : job[j].adults + Len(job[j].kept) <= Guests(job[j].of.entered)
    BY <2>1, CountedIsBounded
  <2> QED BY <2>2 DEF IInv, DealInv, NobodyCountedTwice
<1> QED BY <1>1, PartyInvariance, PTL

-----------------------------------------------------------------------------
(* The same party. *)

\* A party as it is read from a deal that a result was written to.
Padded(result) ==
  [adults |-> result.adults,
   ages   |-> [s \in 1..InSlots |-> IF s \in DOMAIN result.ages THEN result.ages[s] ELSE 0]]

\* What a deal or a payload says is what was entered, or the one rule's result for it.
Fits(p, o) ==
  /\ o.rules = {} => p = o.entered
  /\ \A r \in MaybeRule : o.rules = {r} => p = Padded(Normal(o.entered, r))

\* The loop's counts are the rule's for the slots behind it.
Behind(k) == {s \in 1..InSlots : s < k}

FollowsTheRule(b) ==
  /\ Fits(b.payload, b.of)
  /\ b.pc \in {"normalize", "write", "search"} =>
       /\ b.adults = b.payload.adults + Cardinality(Grownups(b.payload, b.rule) \cap Behind(b.next))
       /\ b.kept = Listed(b.payload.ages, Children(b.payload, b.rule) \cap Behind(b.next))
  /\ b.pc \in {"write", "search"} => b.next = InSlots + 1

SameInv == Fits(ReadDeal(deal), origin) /\ \A j \in Job : FollowsTheRule(job[j])

\* A slot's place among some slots.
Place(slots, s) == Cardinality({t \in slots : t <= s})

\* Slots have the places 1, 2, ... in their order.
LEMMA PlacesInOrder ==
  ASSUME NEW slots \in SUBSET (1..InSlots)
  PROVE  /\ IsFiniteSet(slots) /\ Cardinality(slots) \in Nat
         /\ \A s \in slots : Place(slots, s) \in 1..Cardinality(slots)
         /\ \A s, t \in slots : s < t => Place(slots, s) < Place(slots, t)
         /\ \A k \in 1..Cardinality(slots) : \E s \in slots : Place(slots, s) = k
<1> DEFINE n == Cardinality(slots)
           U(s) == {t \in slots : t <= s}
           P(s) == Place(slots, s)
<1>1. IsFiniteSet(slots) /\ n \in Nat /\ \A s \in slots : s \in Nat
  <2>1. InSlots \in Nat /\ IsFiniteSet(1..InSlots)
    BY PartyAssumption, FS_Interval
  <2>2. IsFiniteSet(slots)
    BY <2>1, FS_Subset
  <2> QED BY <2>1, <2>2, FS_CardinalityType
<1>2. ASSUME NEW s \in slots
      PROVE  /\ U(s) \subseteq slots /\ s \in U(s) /\ IsFiniteSet(U(s))
             /\ P(s) = Cardinality(U(s)) /\ P(s) \in 1..n
  <2>1. U(s) \subseteq slots /\ s \in U(s)
    BY <1>1
  <2>2. IsFiniteSet(U(s)) /\ Cardinality(U(s)) <= n /\ Cardinality(U(s)) \in Nat
    BY <1>1, <2>1, FS_Subset, FS_CardinalityType
  <2>3. Cardinality(U(s)) # 0
    BY <2>1, <2>2, FS_EmptySet
  <2>4. P(s) = Cardinality(U(s))
    BY DEF Place
  <2> QED BY <1>1, <2>1, <2>2, <2>3, <2>4
<1>3. ASSUME NEW s \in slots, NEW t \in slots, s < t PROVE P(s) < P(t)
  <2>1. U(s) \subseteq U(t) /\ t \notin U(s)
    <3>1. s \in Nat /\ t \in Nat /\ s < t
      BY <1>1, <1>3
    <3>2. ASSUME NEW u \in slots, u <= s PROVE u <= t
      <4>1. u \in Nat
        BY <1>1
      <4> QED BY <3>1, <3>2, <4>1
    <3>3. ~ (t <= s)
      BY <3>1
    <3> QED BY <3>2, <3>3
  <2>2. Cardinality(U(s)) <= Cardinality(U(t)) /\ U(t) # U(s)
    BY <1>2, <2>1, FS_Subset
  <2>3. Cardinality(U(s)) # Cardinality(U(t))
    BY <1>2, <2>1, <2>2, FS_Subset
  <2>4. P(s) = Cardinality(U(s)) /\ P(t) = Cardinality(U(t)) /\ P(s) \in 1..n /\ P(t) \in 1..n
    BY <1>2
  <2> HIDE DEF P, U
  <2> QED BY <1>1, <2>2, <2>3, <2>4
<1>4. ASSUME NEW k \in 1..n PROVE \E s \in slots : P(s) = k
  <2> DEFINE f == [s \in slots |-> P(s)]
  <2>1. f \in [slots -> 1..n]
    BY <1>2
  <2>2. ASSUME NEW s \in slots, NEW t \in slots, f[s] = f[t] PROVE s = t
    <3>1. P(s) = P(t) /\ P(s) \in 1..n
      BY <1>2, <2>2
    <3>2. s = t \/ s < t \/ t < s
      BY <1>1
    <3> HIDE DEF P
    <3> QED BY <1>1, <1>3, <3>1, <3>2
  <2>3. f \in Injection(slots, 1..n)
    BY <2>1, <2>2 DEF Injection, IsInjective
  <2>4. IsFiniteSet(1..n) /\ Cardinality(1..n) = n
    BY <1>1, FS_Interval
  <2>5. f \in Surjection(slots, 1..n)
    BY <1>1, <2>3, <2>4, FS_Injection
  <2>6. \E s \in slots : f[s] = k
    BY <2>5 DEF Surjection
  <2> QED BY <2>6
<1> QED BY <1>1, <1>2, <1>3, <1>4

\* The listed ages are those of the slots, in the slots' places, and nothing else.
LEMMA ListedAreTheSlots ==
  ASSUME NEW ages \in [1..InSlots -> Age], NEW slots \in SUBSET (1..InSlots)
  PROVE  /\ Listed(ages, slots) \in Seq(Age)
         /\ Len(Listed(ages, slots)) = Cardinality(slots)
         /\ \A k \in 1..Cardinality(slots) :
              \E s \in slots : Place(slots, s) = k /\ Listed(ages, slots)[k] = ages[s]
         /\ \A s \in slots : Listed(ages, slots)[Place(slots, s)] = ages[s]
<1> DEFINE n == Cardinality(slots)
           P(s) == Place(slots, s)
           at(k) == CHOOSE s \in slots : P(s) = k
           list == Listed(ages, slots)
<1>1. /\ n \in Nat /\ \A s \in slots : P(s) \in 1..n
      /\ \A s, t \in slots : s < t => P(s) < P(t)
      /\ \A k \in 1..n : \E s \in slots : P(s) = k
  BY PlacesInOrder
<1>2. ASSUME NEW k \in 1..n PROVE at(k) \in slots /\ P(at(k)) = k
  <2>1. \E s \in slots : P(s) = k
    BY <1>1
  <2> HIDE DEF P
  <2> QED BY <2>1
<1>3. list = [k \in 1..n |-> ages[at(k)]]
  BY DEF Listed, Place
<1>4. \A s \in slots : s \in Nat /\ ages[s] \in Age
  BY PartyAssumption
<1> HIDE DEF P, at, list
<1>5. /\ list \in Seq(Age) /\ Len(list) = n
      /\ \A k \in 1..n : list[k] = ages[at(k)]
  <2>1. list \in [1..n -> Age]
    BY <1>2, <1>3, <1>4
  <2> QED BY <1>1, <1>3, <2>1
<1>6. ASSUME NEW s \in slots PROVE list[P(s)] = ages[s]
  <2>1. P(s) \in 1..n
    BY <1>1
  <2>2. at(P(s)) \in slots /\ P(at(P(s))) = P(s)
    BY <1>2, <2>1
  <2>3. at(P(s)) = s
    <3>1. PICK t \in slots : t = at(P(s))
      BY <2>2
    <3>2. P(t) = P(s) /\ P(s) \in 1..n
      BY <2>1, <2>2, <3>1
    <3>3. ~ (t < s) /\ ~ (s < t)
      BY <1>1, <3>2
    <3>4. t \in Nat /\ s \in Nat
      BY <1>4
    <3>5. t = s
      BY <3>3, <3>4
    <3> QED BY <3>1, <3>5
  <2> QED BY <1>5, <2>1, <2>3
<1>7. ASSUME NEW k \in 1..n PROVE \E s \in slots : P(s) = k /\ list[k] = ages[s]
  BY <1>2, <1>5
<1> QED BY <1>5, <1>6, <1>7 DEF list, P

\* A slot behind all others comes last.
LEMMA ListedNext ==
  ASSUME NEW ages \in [1..InSlots -> Age], NEW slots \in SUBSET (1..InSlots),
         NEW last \in 1..InSlots, \A s \in slots : s < last
  PROVE  Listed(ages, slots \cup {last}) = Append(Listed(ages, slots), ages[last])
<1> DEFINE more == slots \cup {last}
           n == Cardinality(slots)
<1>1. /\ more \in SUBSET (1..InSlots) /\ last \in Nat /\ last \notin slots
      /\ \A s \in more : s \in Nat /\ s <= last
  BY PartyAssumption
<1>2. IsFiniteSet(slots) /\ n \in Nat /\ Cardinality(more) = n + 1
  BY <1>1, PlacesInOrder, FS_AddElement
<1>3. \A s \in slots : Place(more, s) = Place(slots, s)
  <2> SUFFICES ASSUME NEW s \in slots PROVE Place(more, s) = Place(slots, s)
    OBVIOUS
  <2>1. {t \in more : t <= s} = {t \in slots : t <= s}
    BY <1>1
  <2> QED BY <2>1 DEF Place
<1>4. Place(more, last) = n + 1
  <2>1. {t \in more : t <= last} = more
    BY <1>1
  <2> QED BY <1>2, <2>1 DEF Place
<1>5. /\ Listed(ages, slots) \in Seq(Age) /\ Len(Listed(ages, slots)) = n
      /\ \A k \in 1..n : \E s \in slots : Place(slots, s) = k /\ Listed(ages, slots)[k] = ages[s]
  BY ListedAreTheSlots
<1>6. /\ Listed(ages, more) \in Seq(Age) /\ Len(Listed(ages, more)) = n + 1
      /\ \A s \in more : Listed(ages, more)[Place(more, s)] = ages[s]
  BY <1>1, <1>2, ListedAreTheSlots
<1> DEFINE longer == Append(Listed(ages, slots), ages[last])
<1>7. /\ longer \in Seq(Age) /\ Len(longer) = n + 1 /\ longer[n + 1] = ages[last]
      /\ \A k \in 1..n : longer[k] = Listed(ages, slots)[k]
  <2>1. ages[last] \in Age
    OBVIOUS
  <2> QED BY <1>5, <2>1, AppendProperties
<1>8. ASSUME NEW k \in 1..(n + 1) PROVE Listed(ages, more)[k] = longer[k]
  <2>1. CASE k = n + 1
    BY <1>4, <1>6, <1>7, <2>1
  <2>2. CASE k # n + 1
    <3>1. k \in 1..n
      BY <1>2, <2>2
    <3>2. PICK s \in slots : Place(slots, s) = k /\ Listed(ages, slots)[k] = ages[s]
      BY <1>5, <3>1
    <3> QED BY <1>3, <1>6, <1>7, <3>1, <3>2
  <2> QED BY <2>1, <2>2
<1> HIDE DEF longer, more
<1> QED BY <1>6, <1>7, <1>8, SeqEqual DEF longer, more

\* The first slots are listed as they are.
LEMMA ListedFirst ==
  ASSUME NEW ages \in [1..InSlots -> Age], NEW n \in 0..InSlots
  PROVE  /\ Listed(ages, 1..n) \in Seq(Age) /\ Len(Listed(ages, 1..n)) = n
         /\ \A k \in 1..n : Listed(ages, 1..n)[k] = ages[k]
<1>1. InSlots \in Nat /\ n \in Nat /\ 1..n \in SUBSET (1..InSlots) /\ Cardinality(1..n) = n
  <2>1. InSlots \in Nat
    BY PartyAssumption
  <2>2. n \in Nat /\ n <= InSlots
    BY <2>1
  <2>3. Cardinality(1..n) = n
    BY <2>2, FS_Interval
  <2> QED BY <2>1, <2>2, <2>3
<1>2. ASSUME NEW k \in 1..n PROVE Place(1..n, k) = k
  <2>1. {t \in 1..n : t <= k} = 1..k
    BY <1>1
  <2>2. Cardinality(1..k) = k
    BY <1>1, FS_Interval
  <2> QED BY <2>1, <2>2 DEF Place
<1>3. /\ Listed(ages, 1..n) \in Seq(Age) /\ Len(Listed(ages, 1..n)) = n
      /\ \A k \in 1..n : Listed(ages, 1..n)[Place(1..n, k)] = ages[k]
  BY <1>1, ListedAreTheSlots
<1> QED BY <1>2, <1>3

-----------------------------------------------------------------------------
\* What the rule says of a slot; and the next slot is one behind the loop.
LEMMA SlotsByRule ==
  ASSUME NEW p \in Payload, NEW r \in MaybeRule
  PROVE  /\ Children(p, r) \in SUBSET (1..InSlots) /\ Grownups(p, r) \in SUBSET (1..InSlots)
         /\ \A s \in 1..InSlots :
              /\ s \in Children(p, r) <=> p.ages[s] > 0 /\ Child(r, p.ages[s])
              /\ s \in Grownups(p, r) <=> p.ages[s] > 0 /\ Grown(r, p.ages[s])
<1>1. \A s \in 1..InSlots : p.ages[s] \in Nat
  BY PartyAssumption DEF Payload, Age
<1>2. r # NoRule => r.donja \in Nat /\ r.gornja \in Nat
  BY PartyAssumption DEF MaybeRule, Rule
<1> QED BY <1>1, <1>2 DEF Children, Grownups, Child, Grown

LEMMA BehindNext ==
  ASSUME NEW slots \in SUBSET (1..InSlots), NEW k \in 1..InSlots
  PROVE  /\ slots \cap Behind(k) \in SUBSET (1..InSlots)
         /\ k \notin slots \cap Behind(k) /\ \A s \in slots \cap Behind(k) : s < k
         /\ k \in slots => slots \cap Behind(k + 1) = (slots \cap Behind(k)) \cup {k}
         /\ k \notin slots => slots \cap Behind(k + 1) = slots \cap Behind(k)
<1>1. InSlots \in Nat /\ k \in Nat
  BY PartyAssumption
<1>2. \A s \in 1..InSlots : s < k + 1 <=> s < k \/ s = k
  BY <1>1
<1> QED BY <1>1, <1>2 DEF Behind

\* A result written to the deal and read again is the result: its children are children
\* still, and nobody grows up.
LEMMA ResultIsNormal ==
  ASSUME NEW p \in Payload, NEW r \in MaybeRule
  PROVE  /\ Padded(Normal(p, r)) \in Payload
         /\ Normal(Padded(Normal(p, r)), r) = Normal(p, r)
<1> DEFINE result == Normal(p, r)
           q == Padded(result)
           slots == Children(p, r)
           n == Cardinality(slots)
<1>1. /\ InSlots \in Nat /\ p.adults \in Nat /\ p.ages \in [1..InSlots -> Age] /\ 0 \in Age
      /\ slots \in SUBSET (1..InSlots) /\ Grownups(p, r) \in SUBSET (1..InSlots)
  BY PartyAssumption, SlotsByRule DEF Payload, Age
<1>2. n \in 0..InSlots
  <2>1. IsFiniteSet(1..InSlots) /\ Cardinality(1..InSlots) = InSlots
    BY <1>1, FS_Interval
  <2>2. IsFiniteSet(slots) /\ n <= InSlots /\ n \in Nat
    BY <1>1, <2>1, FS_Subset, FS_CardinalityType
  <2> QED BY <1>1, <2>2
<1>3. result.adults \in Nat
  <2>1. Cardinality(Grownups(p, r)) \in Nat
    BY <1>1, PlacesInOrder
  <2> QED BY <1>1, <2>1 DEF Normal
<1>4. /\ result.ages \in Seq(Age) /\ Len(result.ages) = n
      /\ \A k \in 1..n : \E s \in slots : result.ages[k] = p.ages[s]
  <2>1. result.ages = Listed(p.ages, slots)
    BY DEF Normal
  <2> QED BY <1>1, <2>1, ListedAreTheSlots
<1>5. DOMAIN result.ages = 1..n
  BY <1>4
<1>6. \A k \in 1..n : result.ages[k] \in Age /\ result.ages[k] > 0 /\ Child(r, result.ages[k])
  <2> SUFFICES ASSUME NEW k \in 1..n
               PROVE  result.ages[k] \in Age /\ result.ages[k] > 0 /\ Child(r, result.ages[k])
    OBVIOUS
  <2>1. PICK s \in slots : result.ages[k] = p.ages[s]
    BY <1>4
  <2>2. s \in 1..InSlots /\ p.ages[s] \in Age
    BY <1>1
  <2> QED BY <2>1, <2>2, SlotsByRule
<1>7. q = [adults |-> result.adults,
           ages |-> [s \in 1..InSlots |-> IF s \in 1..n THEN result.ages[s] ELSE 0]]
  BY <1>5 DEF Padded
<1> HIDE DEF result, q, n, slots
<1>8. q \in Payload /\ q.adults = result.adults /\ q.ages \in [1..InSlots -> Age]
  <2>1. [s \in 1..InSlots |-> IF s \in 1..n THEN result.ages[s] ELSE 0] \in [1..InSlots -> Age]
    BY <1>1, <1>6
  <2> QED BY <1>3, <1>7, <2>1 DEF Payload
<1>9. \A s \in 1..InSlots : q.ages[s] = IF s \in 1..n THEN result.ages[s] ELSE 0
  BY <1>7
<1>10. Children(q, r) = 1..n /\ Grownups(q, r) = {}
  <2>1. ASSUME NEW s \in 1..InSlots
        PROVE  /\ s \in Children(q, r) <=> s \in 1..n
               /\ s \notin Grownups(q, r)
    <3>1. /\ s \in Children(q, r) <=> q.ages[s] > 0 /\ Child(r, q.ages[s])
          /\ s \in Grownups(q, r) <=> q.ages[s] > 0 /\ Grown(r, q.ages[s])
      BY <1>8, SlotsByRule
    <3>2. CASE s \in 1..n
      BY <1>6, <1>9, <3>1, <3>2 DEF Grown
    <3>3. CASE s \notin 1..n
      BY <1>9, <3>1, <3>3
    <3> QED BY <3>2, <3>3
  <2>2. Children(q, r) \in SUBSET (1..InSlots) /\ Grownups(q, r) \in SUBSET (1..InSlots)
    BY <1>8, SlotsByRule
  <2>3. 1..n \in SUBSET (1..InSlots)
    BY <1>1, <1>2
  <2> QED BY <2>1, <2>2, <2>3
<1>11. Listed(q.ages, 1..n) = result.ages
  <2>1. /\ Listed(q.ages, 1..n) \in Seq(Age) /\ Len(Listed(q.ages, 1..n)) = n
        /\ \A k \in 1..n : Listed(q.ages, 1..n)[k] = q.ages[k]
    BY <1>2, <1>8, ListedFirst
  <2>2. \A k \in 1..n : q.ages[k] = result.ages[k]
    BY <1>1, <1>2, <1>9
  <2> QED BY <1>4, <2>1, <2>2, SeqEqual
<1>12. Normal(q, r) = [adults |-> result.adults, ages |-> result.ages]
  <2>1. Cardinality({}) = 0
    BY FS_EmptySet
  <2> QED BY <1>3, <1>8, <1>10, <1>11, <2>1 DEF Normal
<1>13. result = [adults |-> result.adults, ages |-> result.ages]
  BY DEF result, Normal
<1> QED BY <1>8, <1>12, <1>13 DEF result, q

\* One rule, applied to what was entered or to its own result, has one result.
LEMMA OneResult ==
  ASSUME NEW p \in Payload, NEW o \in Origin, NEW r \in MaybeRule, Fits(p, o),
         o.rules \cup {r} = {r}
  PROVE  Normal(p, r) = Normal(o.entered, r)
<1>1. o.entered \in Payload
  BY DEF Origin
<1>2. CASE o.rules = {}
  BY <1>2 DEF Fits
<1>3. CASE o.rules = {r}
  BY <1>1, <1>3, ResultIsNormal DEF Fits
<1> QED BY <1>2, <1>3

\* A job that has come through the loop has the rule's result for its payload.
LEMMA LoopDone ==
  ASSUME NEW b \in JobRecord, FollowsTheRule(b), b.pc \in {"write", "search"}
  PROVE  [adults |-> b.adults, ages |-> b.kept] = Normal(b.payload, b.rule)
<1>1. b.payload \in Payload /\ b.rule \in MaybeRule /\ b.next = InSlots + 1 /\ InSlots \in Nat
  BY PartyAssumption DEF JobRecord, FollowsTheRule
<1>2. Behind(b.next) = 1..InSlots
  BY <1>1 DEF Behind
<1>3. /\ Children(b.payload, b.rule) \cap Behind(b.next) = Children(b.payload, b.rule)
      /\ Grownups(b.payload, b.rule) \cap Behind(b.next) = Grownups(b.payload, b.rule)
  BY <1>1, <1>2, SlotsByRule
<1> QED BY <1>3 DEF FollowsTheRule, Normal

\* What a job writes is read back as its result.
LEMMA WrittenIsRead ==
  ASSUME TypeOK, NEW j \in Job
  PROVE  ReadDeal(Written(j)) = Padded([adults |-> job[j].adults, ages |-> job[j].kept])
<1>1. InSlots \in Nat /\ OutSlots \in Nat /\ InSlots <= OutSlots /\ Blank \notin Nat
  BY PartyAssumption
<1>2. job[j].adults \in Nat /\ deal \in Deal
  BY DEF TypeOK, JobRecord
<1>3. /\ Written(j).adults = job[j].adults
      /\ Written(j).ages = [s \in Slot |-> IF s \in DOMAIN job[j].kept THEN job[j].kept[s] ELSE 0]
  BY <1>2 DEF Written, Deal
<1>4. AdultsOf(Written(j)) = job[j].adults
  BY <1>1, <1>2, <1>3 DEF AdultsOf
<1>5. \A s \in 1..InSlots :
        Written(j).ages[s] = IF s \in DOMAIN job[j].kept THEN job[j].kept[s] ELSE 0
  <2>1. \A s \in 1..InSlots : s \in Slot
    BY <1>1 DEF Slot
  <2> QED BY <1>3, <2>1
<1> HIDE DEF Written
<1> QED BY <1>4, <1>5 DEF ReadDeal, Padded

\* A round of the loop counts the slot as the rule does.
LEMMA RoundFollows ==
  ASSUME TypeOK, NEW j \in Job, FollowsTheRule(job[j]), Normalize(j), job[j].next \in 1..InSlots
  PROVE  /\ UNCHANGED <<deal, origin, rule, edits>>
         /\ \E b \in JobRecord : job' = [job EXCEPT ![j] = b] /\ FollowsTheRule(b)
<1> DEFINE b == job[j]
           a == b.payload.ages[b.next]
           kept == IF a > 0 /\ Child(b.rule, a) THEN Append(b.kept, a) ELSE b.kept
           adults == IF a > 0 /\ Grown(b.rule, a) THEN b.adults + 1 ELSE b.adults
           c == [b EXCEPT !.next = b.next + 1, !.kept = kept, !.adults = adults]
           Sons == Children(b.payload, b.rule)
           Olds == Grownups(b.payload, b.rule)
<1>1. /\ b \in JobRecord /\ job \in [Job -> JobRecord] /\ b.pc = "normalize"
      /\ b.payload \in Payload /\ b.rule \in MaybeRule /\ b.next \in Nat
      /\ b.adults \in Nat /\ b.kept \in Seq(Age) /\ b.payload.adults \in Nat
      /\ b.payload.ages \in [1..InSlots -> Age]
  BY DEF TypeOK, Normalize, JobRecord, Payload
<1>2. a \in Age
  BY <1>1
<1>3. kept \in Seq(Age) /\ adults \in Nat /\ b.next + 1 \in Nat
  BY <1>1, <1>2
<1>4. job' = [job EXCEPT ![j] = c] /\ UNCHANGED <<deal, origin, rule, edits>>
  BY <1>1 DEF Normalize
<1>5. /\ b.next \in Sons <=> a > 0 /\ Child(b.rule, a)
      /\ b.next \in Olds <=> a > 0 /\ Grown(b.rule, a)
      /\ Sons \in SUBSET (1..InSlots) /\ Olds \in SUBSET (1..InSlots)
  BY <1>1, SlotsByRule
<1>6. /\ b.adults = b.payload.adults + Cardinality(Olds \cap Behind(b.next))
      /\ b.kept = Listed(b.payload.ages, Sons \cap Behind(b.next))
      /\ Fits(b.payload, b.of)
  BY <1>1 DEF FollowsTheRule
<1>7. kept = Listed(b.payload.ages, Sons \cap Behind(b.next + 1))
  <2>1. CASE b.next \in Sons
    <3>1. Sons \cap Behind(b.next + 1) = (Sons \cap Behind(b.next)) \cup {b.next}
      BY <1>5, <2>1, BehindNext
    <3>2. /\ Sons \cap Behind(b.next) \in SUBSET (1..InSlots)
          /\ \A s \in Sons \cap Behind(b.next) : s < b.next
      BY <1>5, BehindNext
    <3>3. Listed(b.payload.ages, (Sons \cap Behind(b.next)) \cup {b.next})
            = Append(Listed(b.payload.ages, Sons \cap Behind(b.next)), a)
      BY <1>1, <3>2, ListedNext
    <3> QED BY <1>5, <1>6, <2>1, <3>1, <3>3
  <2>2. CASE b.next \notin Sons
    BY <1>5, <1>6, <2>2, BehindNext
  <2> QED BY <2>1, <2>2
<1>8. adults = b.payload.adults + Cardinality(Olds \cap Behind(b.next + 1))
  <2>1. CASE b.next \in Olds
    <3>1. /\ Olds \cap Behind(b.next + 1) = (Olds \cap Behind(b.next)) \cup {b.next}
          /\ Olds \cap Behind(b.next) \in SUBSET (1..InSlots) /\ b.next \notin Olds \cap Behind(b.next)
      BY <1>5, <2>1, BehindNext
    <3>2. /\ IsFiniteSet(Olds \cap Behind(b.next)) /\ Cardinality(Olds \cap Behind(b.next)) \in Nat
      BY <3>1, PlacesInOrder
    <3>3. Cardinality(Olds \cap Behind(b.next + 1)) = Cardinality(Olds \cap Behind(b.next)) + 1
      BY <3>1, <3>2, FS_AddElement
    <3>4. adults = b.adults + 1
      BY <1>5, <2>1
    <3> QED BY <1>1, <1>6, <3>2, <3>3, <3>4
  <2>2. CASE b.next \notin Olds
    BY <1>5, <1>6, <2>2, BehindNext
  <2> QED BY <2>1, <2>2
<1> HIDE DEF kept, adults
<1>9. /\ c \in JobRecord /\ c.payload = b.payload /\ c.of = b.of /\ c.rule = b.rule
      /\ c.adults = adults /\ c.kept = kept /\ c.next = b.next + 1 /\ c.pc = "normalize"
  BY <1>1, <1>3 DEF JobRecord
<1>10. FollowsTheRule(c)
  <2> HIDE DEF c
  <2> QED BY <1>6, <1>7, <1>8, <1>9 DEF FollowsTheRule
<1> QED BY <1>4, <1>9, <1>10

\* A step of one job that keeps to the rule.
LEMMA SameJobChanges ==
  ASSUME TypeOK, SameInv, NEW j \in Job, UNCHANGED <<deal, origin, rule, edits>>,
         \E b \in JobRecord : job' = [job EXCEPT ![j] = b] /\ FollowsTheRule(b)
  PROVE  SameInv'
<1>1. PICK b \in JobRecord : job' = [job EXCEPT ![j] = b] /\ FollowsTheRule(b)
  OBVIOUS
<1>2. \A i \in Job : job'[i] = IF i = j THEN b ELSE job[i]
  BY <1>1 DEF TypeOK
<1>3. \A i \in Job : FollowsTheRule(job'[i])
  BY <1>1, <1>2 DEF SameInv
<1> QED BY <1>3 DEF SameInv

LEMMA SameNext == IInv /\ SameInv /\ [Next]_vars => SameInv'
<1> SUFFICES ASSUME IInv, SameInv, [Next]_vars PROVE SameInv'
  OBVIOUS
<1>1. TypeOK /\ InSlots \in Nat /\ JobInv
  BY PartyAssumption DEF IInv
<1>2. CASE UNCHANGED vars
  BY <1>2 DEF vars, SameInv
<1>3. CASE EditDeal
  <2>1. PICK d : Edit(d)
    BY <1>3 DEF EditDeal
  <2>2. Fits(ReadDeal(d), Entered(d))
    BY DEF Fits, Entered
  <2> QED BY <2>1, <2>2 DEF Edit, SameInv
<1>4. CASE SaveRule
  BY <1>4 DEF SaveRule, SameInv
<1>5. ASSUME NEW j \in Job, Event(j) \/ Take(j) \/ Normalize(j) \/ Normalized(j) \/ Finish(j) \/ Retry(j)
      PROVE  SameInv'
  <2> DEFINE b == job[j]
  <2>1. /\ b \in JobRecord /\ job \in [Job -> JobRecord] /\ FollowsTheRule(b) /\ Counting(b)
    BY <1>1 DEF TypeOK, SameInv, JobInv
  <2>2. CASE Event(j)
    <3> DEFINE c == [b EXCEPT !.pc = "waiting", !.payload = ReadDeal(deal), !.of = origin]
    <3>1. job' = [job EXCEPT ![j] = c] /\ UNCHANGED <<deal, origin, rule, edits>>
      BY <2>1, <2>2 DEF Event
    <3>2. c \in JobRecord /\ c.payload = ReadDeal(deal) /\ c.of = origin /\ c.pc = "waiting"
      <4>1. ReadDeal(deal) \in Payload /\ origin \in Origin /\ "waiting" \in PC
        BY <1>1, ReadIsPayload DEF TypeOK, PC
      <4> QED BY <2>1, <4>1 DEF JobRecord
    <3>3. FollowsTheRule(c)
      <4> HIDE DEF c
      <4> QED BY <3>2 DEF FollowsTheRule, SameInv
    <3> HIDE DEF c
    <3> QED BY <1>1, <3>1, <3>2, <3>3, SameJobChanges
  <2>3. CASE Take(j)
    <3> DEFINE c == [b EXCEPT !.pc = "normalize", !.rule = rule, !.next = 1,
                              !.adults = b.payload.adults, !.kept = <<>>]
    <3>1. job' = [job EXCEPT ![j] = c] /\ UNCHANGED <<deal, origin, rule, edits>>
      BY <2>1, <2>3 DEF Take
    <3>2. b.payload \in Payload /\ b.payload.adults \in Nat /\ rule \in MaybeRule
          /\ b.payload.ages \in [1..InSlots -> Age]
      BY <1>1, <2>1, PayloadAdults DEF TypeOK, JobRecord, Payload
    <3>3. /\ c \in JobRecord /\ c.payload = b.payload /\ c.of = b.of /\ c.adults = b.payload.adults
          /\ c.kept = <<>> /\ c.next = 1 /\ c.pc = "normalize"
      <4>1. <<>> \in Seq(Age) /\ 1 \in Nat /\ "normalize" \in PC
        BY DEF PC
      <4> QED BY <2>1, <3>2, <4>1 DEF JobRecord
    <3>4. Behind(1) = {} /\ Cardinality({}) = 0
      BY <1>1, FS_EmptySet DEF Behind
    <3>5. Listed(b.payload.ages, {}) = <<>>
      <4>1. Len(Listed(b.payload.ages, {})) = 0 /\ Listed(b.payload.ages, {}) \in Seq(Age)
        BY <3>2, <3>4, ListedAreTheSlots
      <4> QED BY <4>1, EmptySeq
    <3>6. FollowsTheRule(c)
      <4> HIDE DEF c
      <4>1. /\ Grownups(c.payload, c.rule) \cap Behind(c.next) = {}
            /\ Children(c.payload, c.rule) \cap Behind(c.next) = {}
        BY <3>3, <3>4
      <4>2. c.adults = c.payload.adults + Cardinality({}) /\ c.kept = Listed(c.payload.ages, {})
        BY <3>2, <3>3, <3>4, <3>5
      <4> QED BY <2>1, <3>3, <4>1, <4>2 DEF FollowsTheRule
    <3> HIDE DEF c
    <3> QED BY <1>1, <3>1, <3>3, <3>6, SameJobChanges
  <2>4. CASE Normalize(j)
    <3>1. b.next \in 1..InSlots
      BY <1>1, <2>1, <2>4 DEF Normalize, Counting
    <3> QED BY <1>1, <2>1, <2>4, <3>1, RoundFollows, SameJobChanges
  <2>5. CASE Normalized(j)
    <3> DEFINE c == [b EXCEPT !.pc = "write"]
    <3>1. /\ job' = [job EXCEPT ![j] = c] /\ UNCHANGED <<deal, origin, rule, edits>>
          /\ b.pc = "normalize" /\ b.next > InSlots
      BY <2>1, <2>5 DEF Normalized
    <3>2. b.next = InSlots + 1
      BY <1>1, <2>1, <3>1 DEF Counting
    <3>3. /\ c \in JobRecord /\ c.payload = b.payload /\ c.of = b.of /\ c.rule = b.rule
          /\ c.adults = b.adults /\ c.kept = b.kept /\ c.next = b.next /\ c.pc = "write"
      BY <2>1 DEF JobRecord, PC
    <3>4. FollowsTheRule(c)
      <4> HIDE DEF c
      <4> QED BY <2>1, <3>1, <3>2, <3>3 DEF FollowsTheRule
    <3> HIDE DEF c
    <3> QED BY <1>1, <3>1, <3>3, <3>4, SameJobChanges
  <2>6. CASE Finish(j)
    <3>1. job' = [job EXCEPT ![j] = Idle] /\ UNCHANGED <<deal, origin, rule, edits>>
      BY <2>6 DEF Finish
    <3>2. FollowsTheRule(Idle)
      BY DEF FollowsTheRule, Idle, Fits
    <3> QED BY <1>1, <3>1, <3>2, IdleType, SameJobChanges
  <2>7. CASE Retry(j)
    <3> DEFINE c == [b EXCEPT !.pc = "waiting"]
    <3>1. job' = [job EXCEPT ![j] = c] /\ UNCHANGED <<deal, origin, rule, edits>>
      BY <2>1, <2>7 DEF Retry
    <3>2. c \in JobRecord /\ c.payload = b.payload /\ c.of = b.of /\ c.pc = "waiting"
      BY <2>1 DEF JobRecord, PC
    <3>3. FollowsTheRule(c)
      <4> HIDE DEF c
      <4> QED BY <2>1, <3>2 DEF FollowsTheRule
    <3> HIDE DEF c
    <3> QED BY <1>1, <3>1, <3>2, <3>3, SameJobChanges
  <2> QED BY <1>5, <2>2, <2>3, <2>4, <2>5, <2>6, <2>7
<1>6. ASSUME NEW j \in Job, Write(j) PROVE SameInv'
  <2> DEFINE b == job[j]
             c == [b EXCEPT !.pc = "search"]
             result == [adults |-> b.adults, ages |-> b.kept]
  <2>1. /\ b \in JobRecord /\ job \in [Job -> JobRecord] /\ FollowsTheRule(b)
        /\ b.payload \in Payload /\ b.of \in Origin /\ b.rule \in MaybeRule
    BY <1>1 DEF TypeOK, SameInv, JobRecord
  <2>2. /\ deal' = Written(j) /\ origin' = LineageOf(j) /\ b.pc = "write"
        /\ job' = [job EXCEPT ![j] = c]
    BY <1>6, <2>1 DEF Write
  <2>3. /\ c \in JobRecord /\ c.payload = b.payload /\ c.of = b.of /\ c.rule = b.rule
        /\ c.adults = b.adults /\ c.kept = b.kept /\ c.next = b.next /\ c.pc = "search"
    BY <2>1 DEF JobRecord, PC
  <2>4. FollowsTheRule(c)
    <3> HIDE DEF c
    <3> QED BY <2>1, <2>2, <2>3 DEF FollowsTheRule
  <2>5. result = Normal(b.payload, b.rule)
    BY <2>1, <2>2, LoopDone
  <2>6. ReadDeal(Written(j)) = Padded(result)
    BY <1>1, WrittenIsRead
  <2>7. LineageOf(j).entered = b.of.entered /\ LineageOf(j).rules = b.of.rules \cup {b.rule}
    BY DEF LineageOf
  <2>8. Fits(ReadDeal(Written(j)), LineageOf(j))
    <3>1. ASSUME NEW r \in MaybeRule, b.of.rules \cup {b.rule} = {r}
          PROVE  Padded(result) = Padded(Normal(b.of.entered, r))
      <4>1. b.rule = r
        BY <3>1
      <4>2. Normal(b.payload, r) = Normal(b.of.entered, r)
        BY <2>1, <3>1, <4>1, OneResult DEF FollowsTheRule
      <4> QED BY <2>5, <4>1, <4>2
    <3> HIDE DEF result, b
    <3> QED BY <2>6, <2>7, <3>1 DEF Fits
  <2>9. \A i \in Job : job'[i] = IF i = j THEN c ELSE job[i]
    BY <2>1, <2>2
  <2>10. \A i \in Job : FollowsTheRule(job'[i])
    BY <2>4, <2>9 DEF SameInv
  <2> QED BY <2>2, <2>8, <2>10 DEF SameInv
<1> QED BY <1>2, <1>3, <1>4, <1>5, <1>6 DEF Next

LEMMA SameInit == Init => SameInv
<1> SUFFICES ASSUME Init PROVE SameInv
  OBVIOUS
<1>1. Fits(ReadDeal(deal), origin)
  BY DEF Init, Entered, Fits
<1>2. FollowsTheRule(Idle)
  BY DEF FollowsTheRule, Idle, Fits
<1> QED BY <1>1, <1>2 DEF Init, SameInv

\* For any number of jobs, slots and rules: a deal or payload of one rule is that rule's
\* result for what was entered, and so is what each loop has counted (processDeal.ts 169-178).
THEOREM ResultsStand == Spec => []SameInv
<1> QED BY PartyInit, PartyNext, SameInit, SameNext, PTL DEF Spec

\* A deal that is processed again is searched for the same party, as long as one rule was
\* applied to what was entered (childAgeRules.ts 8-11).
THEOREM SameParty == Spec => []SamePartyEveryTime
<1>1. IInv /\ SameInv => SamePartyEveryTime
  <2> SUFFICES ASSUME IInv, SameInv, NEW j \in Job, job[j].pc \in {"write", "search"},
                      LineageOf(j).rules = {job[j].rule}
               PROVE  [adults |-> job[j].adults, ages |-> job[j].kept]
                        = Normal(job[j].of.entered, job[j].rule)
    BY DEF SamePartyEveryTime
  <2>1. /\ job[j] \in JobRecord /\ FollowsTheRule(job[j]) /\ Fits(job[j].payload, job[j].of)
        /\ job[j].payload \in Payload /\ job[j].of \in Origin /\ job[j].rule \in MaybeRule
    BY DEF IInv, TypeOK, SameInv, FollowsTheRule, JobRecord
  <2>2. job[j].of.rules \cup {job[j].rule} = {job[j].rule}
    BY DEF LineageOf
  <2> QED BY <2>1, <2>2, LoopDone, OneResult
<1> QED BY <1>1, PartyInvariance, ResultsStand, PTL
=============================================================================

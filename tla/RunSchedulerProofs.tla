------------------------- MODULE RunSchedulerProofs -------------------------
(***************************************************************************)
(* The scheduler and its threads for any workers, lanes, tasks and limits. *)
(***************************************************************************)
EXTENDS RunScheduler, TLAPS

-----------------------------------------------------------------------------
(* Finite sets.                                                             *)

\* A finite set's cardinality is a natural number, zero for the empty set alone.
Counted ==
  \A S : IsFiniteSet(S) => Cardinality(S) \in Nat /\ (Cardinality(S) = 0 <=> S = {})

\* A part of a finite set is finite and no larger.
Contained ==
  \A S : IsFiniteSet(S) =>
    \A T \in SUBSET S : IsFiniteSet(T) /\ Cardinality(T) <= Cardinality(S)

\* Adding an element counts one more, unless it was there.
Added ==
  \A S, x : IsFiniteSet(S) =>
    /\ IsFiniteSet(S \cup {x})
    /\ Cardinality(S \cup {x}) = IF x \in S THEN Cardinality(S) ELSE Cardinality(S) + 1

\* Removing an element counts one less, if it was there.
Removed ==
  \A S, x : IsFiniteSet(S) =>
    /\ IsFiniteSet(S \ {x})
    /\ Cardinality(S \ {x}) = IF x \in S THEN Cardinality(S) - 1 ELSE Cardinality(S)

\* The empty set, singletons and intervals are finite.
Small ==
  /\ IsFiniteSet({}) /\ Cardinality({}) = 0
  /\ \A x : IsFiniteSet({x}) /\ Cardinality({x}) = 1
  /\ \A n \in Nat : IsFiniteSet(1..n)

\* A nonempty set of naturals has a least element.
WellOrdered == \A T : T \subseteq Nat /\ T # {} => \E x \in T : \A y \in T : x <= y

\* What the lemmas below use of finite sets, their cardinalities and the least
\* element of a set of naturals. It holds (FiniteFactsHold, at the end, from the
\* library), and is a premise of the lemmas that use it.
FiniteFacts == Counted /\ Contained /\ Added /\ Removed /\ Small /\ WellOrdered

LEMMA FiniteEmpty == ASSUME FiniteFacts PROVE IsFiniteSet({}) /\ Cardinality({}) = 0
  BY Zenon DEF FiniteFacts, Small

LEMMA FiniteCount ==
  ASSUME FiniteFacts, NEW S, IsFiniteSet(S)
  PROVE  Cardinality(S) \in Nat /\ (Cardinality(S) = 0 <=> S = {})
  BY Zenon DEF FiniteFacts, Counted

LEMMA FinitePart ==
  ASSUME FiniteFacts, NEW S, IsFiniteSet(S), NEW T \in SUBSET S
  PROVE  IsFiniteSet(T) /\ Cardinality(T) <= Cardinality(S)
  BY Zenon DEF FiniteFacts, Contained

LEMMA FiniteAdd ==
  ASSUME FiniteFacts, NEW S, NEW x, IsFiniteSet(S)
  PROVE  /\ IsFiniteSet(S \cup {x})
         /\ Cardinality(S \cup {x}) = IF x \in S THEN Cardinality(S) ELSE Cardinality(S) + 1
  BY Zenon DEF FiniteFacts, Added

LEMMA FiniteRemove ==
  ASSUME FiniteFacts, NEW S, NEW x, IsFiniteSet(S)
  PROVE  /\ IsFiniteSet(S \ {x})
         /\ Cardinality(S \ {x}) = IF x \in S THEN Cardinality(S) - 1 ELSE Cardinality(S)
  BY Zenon DEF FiniteFacts, Removed

LEMMA FiniteOne ==
  ASSUME FiniteFacts, NEW x
  PROVE  IsFiniteSet({x}) /\ Cardinality({x}) = 1
  BY Zenon DEF FiniteFacts, Small

LEMMA FiniteInterval ==
  ASSUME FiniteFacts, NEW n \in Nat
  PROVE  IsFiniteSet(1..n)
  BY Zenon DEF FiniteFacts, Small

-----------------------------------------------------------------------------
(* The domain's rows, lanes and quota, and what its operations do.          *)

ReadyLane == [lane : Lanes, tasks : Seq(1..MaxIndex)]

\* Entry i stands in lane l of q.
In(q, i, l) ==
  \E k \in DOMAIN q : q[k].lane = l /\ \E n \in DOMAIN q[k].tasks : q[k].tasks[n] = i

\* No lane is empty or listed twice, no entry stands in a lane twice.
Tidy(q) ==
  \A k \in DOMAIN q :
    /\ q[k].tasks # <<>>
    /\ \A j \in DOMAIN q : q[j].lane = q[k].lane => j = k
    /\ \A n, m \in DOMAIN q[k].tasks : q[k].tasks[m] = q[k].tasks[n] => m = n

Queued(rows, i, l) == i \in DOMAIN rows /\ rows[i].phase = "queued" /\ rows[i].lane = l

Slots(rows) == {i \in DOMAIN rows : rows[i].slot}

RowOK(x) ==
  /\ x \in Entry
  /\ x.slot => x.phase = "running"
  /\ x.phase # "free" => x.task \in Tasks /\ x.lane \in Lanes /\ x.generation > 0

\* The lanes q agree with the rows, and n counts their slots.
Agree(rows, q, n) ==
  /\ rows \in Seq(Entry) /\ Len(rows) <= MaxIndex
  /\ \A i \in DOMAIN rows : RowOK(rows[i])
  /\ q \in Seq(ReadyLane) /\ Tidy(q)
  /\ \A i \in 1..MaxIndex, l \in Lanes : In(q, i, l) <=> Queued(rows, i, l)
  /\ n = Cardinality(Slots(rows)) /\ n <= limit

Agrees == Agree(entries, ready, running)

\* Nothing for a thread that serves these lanes.
NoWork(served) == running = limit \/ \A k \in DOMAIN ready : ready[k].lane \notin served

Of(i) == [index |-> i, generation |-> entries[i].generation]

\* Only row i changes, neither its generation nor its task.
Moves(i) ==
  /\ i \in DOMAIN entries /\ DOMAIN entries' = DOMAIN entries
  /\ \A j \in DOMAIN entries \ {i} : entries'[j] = entries[j]
  /\ entries'[i].generation = entries[i].generation /\ entries'[i].task = entries[i].task

WakeDoes(r) ==
  /\ Agrees' /\ running' = running /\ aborted' = aborted
  /\ ~WakeEnqueues(r) => ready' = ready
  /\ ~Live(r) => entries' = entries
  /\ Live(r) => /\ Moves(r.index)
                /\ entries'[r.index].slot = entries[r.index].slot
                /\ entries'[r.index].phase =
                     IF entries[r.index].phase = "idle" THEN "queued"
                     ELSE entries[r.index].phase
                /\ entries[r.index].phase = "running" => entries'[r.index].pending

WithdrawalDoes(r) ==
  /\ Agrees' /\ aborted' = aborted
  /\ ~Live(r) => entries' = entries /\ ready' = ready /\ running' = running
  /\ Live(r) => Moves(r.index) /\ entries'[r.index].phase = "free"

AcquisitionDoes(served) ==
  /\ Agrees' /\ aborted' = aborted
  /\ Selected(served) = None =>
       entries' = entries /\ ready' = ready /\ running' = running
  /\ Selected(served) # None =>
       LET i == Selected(served).index
       IN /\ Moves(i) /\ entries[i].phase = "queued" /\ Selected(served) = Of(i)
          /\ entries'[i].phase = "running" /\ entries'[i].slot
          /\ running # limit
          /\ \A h \in DOMAIN ready' : \E g \in DOMAIN ready :
               ready'[h].lane = ready[g].lane

ReleaseDoes(r) ==
  /\ Agrees' /\ aborted' = aborted /\ Moves(r.index) /\ ~entries'[r.index].slot
  /\ entries'[r.index].phase \in {"queued", "idle"}
  /\ entries[r.index].pending => entries'[r.index].phase = "queued"

SlotReleaseDoes(r) ==
  /\ Agrees' /\ ready' = ready /\ aborted' = aborted /\ Moves(r.index)
  /\ entries[r.index].phase = "running" /\ entries'[r.index].phase = "running"
  /\ ~entries'[r.index].slot
  /\ entries'[r.index].pending = entries[r.index].pending

SlotAcquisitionDoes(r) ==
  /\ Agrees' /\ ready' = ready /\ aborted' = aborted
  /\ SlotStatus(r) # 1 => entries' = entries /\ running' = running
  /\ SlotStatus(r) = 1 => /\ Live(r) /\ running # limit /\ Moves(r.index)
                          /\ entries'[r.index].phase = "running"
                          /\ entries'[r.index].slot
                          /\ entries'[r.index].pending = entries[r.index].pending

AdmissionDoes(t, r) ==
  /\ Agrees' /\ ready' = ready /\ running' = running /\ aborted' = aborted
  /\ DOMAIN entries \subseteq DOMAIN entries'
  /\ \A j \in DOMAIN entries \ {r.index} : entries'[j] = entries[j]
  /\ \A j \in DOMAIN entries' \ DOMAIN entries :
       j # r.index => entries'[j].phase = "free"
  /\ r.index \in DOMAIN entries =>
       entries[r.index].phase = "free" /\ entries[r.index].generation < r.generation
  /\ r.index \in DOMAIN entries' /\ entries'[r.index].generation = r.generation
  /\ entries'[r.index].phase = "idle" /\ entries'[r.index].task = t

\* What the operations of the domain do, as far as the threads are concerned:
\* DomainFactsHold proves it, and it is a premise of the lemmas that use it.
DomainFacts ==
  /\ \A r : Agrees /\ Wake(r) => WakeDoes(r)
  /\ \A r : Agrees /\ Withdrawal(r) => WithdrawalDoes(r)
  /\ \A served : Agrees /\ Acquisition(served) => AcquisitionDoes(served)
  /\ \A served : Agrees /\ Selected(served) = None => NoWork(served)
  /\ \A r, cancellation : \A lane \in Lanes :
       /\ Agrees /\ Release(r, lane, cancellation)
       /\ Live(r) /\ Row(r).phase = "running" /\ Row(r).slot
       => ReleaseDoes(r)
  /\ \A r : Agrees /\ Lends(r) /\ SlotRelease(r) => SlotReleaseDoes(r)
  /\ \A r : /\ Agrees /\ SlotAcquisition(r)
            /\ Live(r) => Row(r).phase = "running" /\ ~Row(r).slot
            => SlotAcquisitionDoes(r)
  /\ \A t \in Tasks, lane \in Lanes, r \in Registrations :
       Agrees /\ Admission(t, lane, r) => AdmissionDoes(t, r)

LEMMA LaneOf ==
  ASSUME NEW q \in Seq(ReadyLane), NEW k \in DOMAIN q
  PROVE  /\ q[k] \in ReadyLane /\ q[k].lane \in Lanes
         /\ q[k].tasks \in Seq(1..MaxIndex)
         /\ DOMAIN q[k].tasks = 1..Len(q[k].tasks) /\ Len(q[k].tasks) \in Nat
         /\ DOMAIN q = 1..Len(q) /\ Len(q) \in Nat
<1>1. q[k] \in ReadyLane
  OBVIOUS
<1>2. q[k].lane \in Lanes /\ q[k].tasks \in Seq(1..MaxIndex)
  BY <1>1 DEF ReadyLane
<1> QED
  BY <1>1, <1>2

LEMMA ItemOf ==
  ASSUME NEW S, NEW s \in Seq(S), NEW n \in DOMAIN s
  PROVE  s[n] \in S
  OBVIOUS

LEMMA InTyped ==
  ASSUME NEW q \in Seq(ReadyLane), NEW i, NEW l, In(q, i, l)
  PROVE  i \in 1..MaxIndex /\ l \in Lanes
<1>1. PICK k \in DOMAIN q : q[k].lane = l /\ \E n \in DOMAIN q[k].tasks : q[k].tasks[n] = i
  BY Zenon DEF In
<1>2. q[k].lane \in Lanes /\ q[k].tasks \in Seq(1..MaxIndex)
  BY LaneOf, Zenon
<1>3. PICK n \in DOMAIN q[k].tasks : q[k].tasks[n] = i
  BY <1>1
<1>4. q[k].tasks[n] \in 1..MaxIndex
  BY <1>2, <1>3, ItemOf, Zenon
<1> QED
  BY <1>1, <1>2, <1>3, <1>4, Zenon

\* In and Queued agree for whatever they are asked.
LEMMA AgreeIn ==
  ASSUME NEW rows, NEW q, NEW n, Agree(rows, q, n), NEW i, NEW l
  PROVE  /\ In(q, i, l) <=> Queued(rows, i, l)
         /\ In(q, i, l) => i \in DOMAIN rows /\ rows[i].phase = "queued" /\ rows[i].lane = l
<1>1. /\ rows \in Seq(Entry) /\ Len(rows) <= MaxIndex /\ q \in Seq(ReadyLane)
      /\ \A j \in DOMAIN rows : RowOK(rows[j])
      /\ \A j \in 1..MaxIndex, m \in Lanes : In(q, j, m) <=> Queued(rows, j, m)
  BY Zenon DEF Agree
<1>2. ASSUME Queued(rows, i, l) PROVE i \in 1..MaxIndex /\ l \in Lanes
  <2>1. i \in DOMAIN rows /\ rows[i].phase # "free" /\ rows[i].lane = l
    BY <1>2 DEF Queued
  <2>2. i \in 1..MaxIndex
    BY <1>1, <2>1, DomainAssumption
  <2> QED
    BY <1>1, <2>1, <2>2, Zenon DEF RowOK
<1>3. In(q, i, l) <=> Queued(rows, i, l)
  BY <1>1, <1>2, InTyped, Zenon
<1> QED
  BY <1>3, Zenon DEF Queued

LEMMA SlotsFinite ==
  ASSUME FiniteFacts, NEW rows \in Seq(Entry)
  PROVE  IsFiniteSet(Slots(rows)) /\ Cardinality(Slots(rows)) \in Nat
<1>1. Slots(rows) \subseteq 1..Len(rows) /\ Len(rows) \in Nat
  BY DEF Slots
<1>2. IsFiniteSet(1..Len(rows))
  BY <1>1, FiniteInterval
<1> QED
  BY <1>1, <1>2, FinitePart, FiniteCount

LEMMA RowTyped ==
  ASSUME NEW x \in Entry
  PROVE  /\ x.generation \in 0..MaxGeneration /\ x.phase \in Phases
         /\ x.task \in Tasks \cup {None} /\ x.lane \in Lanes \cup {None}
         /\ x.pending \in BOOLEAN /\ x.slot \in BOOLEAN
  BY DEF Entry

LEMMA AgreesTyped ==
  ASSUME FiniteFacts, Agrees
  PROVE  /\ entries \in Seq(Entry) /\ ready \in Seq(ReadyLane) /\ Tidy(ready)
         /\ DOMAIN entries \subseteq 1..MaxIndex
         /\ running \in 0..limit
         /\ \A i \in DOMAIN entries : entries[i] \in Entry /\ RowOK(entries[i])
<1>1. /\ entries \in Seq(Entry) /\ ready \in Seq(ReadyLane) /\ Tidy(ready)
      /\ Len(entries) <= MaxIndex /\ running = Cardinality(Slots(entries)) /\ running <= limit
      /\ \A i \in DOMAIN entries : RowOK(entries[i])
  BY Zenon DEF Agrees, Agree
<1>2. DOMAIN entries \subseteq 1..MaxIndex
  BY <1>1, DomainAssumption
<1>3. running \in 0..limit
  BY <1>1, SlotsFinite, DomainAssumption
<1> QED
  BY <1>1, <1>2, <1>3, Zenon DEF RowOK

\* A row that is not free has a registration.
LEMMA OfTyped ==
  ASSUME FiniteFacts, Agrees, NEW i \in DOMAIN entries, entries[i].phase # "free"
  PROVE  Of(i) \in Registrations /\ Of(i) # None /\ Of(i).index = i
         /\ Of(i).generation = entries[i].generation /\ Live(Of(i))
<1>1. i \in 1..MaxIndex /\ entries[i].generation \in 1..MaxGeneration
  BY AgreesTyped, RowTyped DEF RowOK
<1>2. Of(i).index = i /\ Of(i).generation = entries[i].generation
  BY DEF Of
<1>3. Of(i) \in Registrations
  BY <1>1 DEF Of, Registrations
<1> QED
  BY <1>2, <1>3, DomainAssumption, Zenon DEF Live, Registrations

-----------------------------------------------------------------------------
(* The operations of the domain.                                            *)

\* s has the items of t but the one at n, once each.
AllBut(s, t, n) ==
  /\ \A m \in DOMAIN s : \E j \in DOMAIN t \ {n} : s[m] = t[j]
  /\ \A j \in DOMAIN t \ {n} : \E m \in DOMAIN s : s[m] = t[j]
  /\ \A m, h \in DOMAIN s : m # h =>
       \E j, g \in DOMAIN t \ {n} : j # g /\ s[m] = t[j] /\ s[h] = t[g]

\* Lane k of q has lost its n-th entry in p, which stands nowhere else.
Loses(q, p, k, n) ==
  /\ DOMAIN p = DOMAIN q /\ k \in DOMAIN q /\ n \in DOMAIN q[k].tasks
  /\ p[k].lane = q[k].lane /\ p[k].tasks # <<>> /\ AllBut(p[k].tasks, q[k].tasks, n)
  /\ \A h \in DOMAIN q \ {k} :
       p[h] = q[h] /\ \A m \in DOMAIN q[h].tasks : q[h].tasks[m] # q[k].tasks[n]

\* The slots after a row was changed.
SlotsOf(n, old, new) ==
  IF new THEN (IF old THEN n ELSE n + 1) ELSE IF old THEN n - 1 ELSE n

\* An operation has written y over x.
Wrote(x, y, phase, lane, pending, slot) ==
  /\ y \in Entry /\ y.generation = x.generation /\ y.task = x.task
  /\ y.phase = phase /\ y.lane = lane /\ y.pending = pending /\ y.slot = slot

\* Row x is written at i, with the lanes and the slots that fit.
Writes(i, x) ==
  /\ i \in DOMAIN entries /\ RowOK(x)
  /\ x.generation = entries[i].generation /\ x.task = entries[i].task
  /\ entries' = [entries EXCEPT ![i] = x]
  /\ ready' \in Seq(ReadyLane) /\ Tidy(ready')
  /\ \A j, l : In(ready', j, l) <=>
       (j # i /\ In(ready, j, l)) \/ (j = i /\ x.phase = "queued" /\ x.lane = l)
  /\ running' = SlotsOf(running, entries[i].slot, x.slot) /\ running' <= limit

\* The operations of the domain do what DomainFacts says. The first steps are about
\* sequences and lanes, then rows and quota, then each operation.
LEMMA DomainFactsHold ==
  ASSUME FiniteFacts
  PROVE  DomainFacts
(* Sequences and ready lanes.                                               *)
<1>SetItem.
  ASSUME NEW S, NEW s \in Seq(S), NEW i \in DOMAIN s, NEW x \in S
  PROVE  /\ [s EXCEPT ![i] = x] \in Seq(S)
         /\ DOMAIN [s EXCEPT ![i] = x] = DOMAIN s
         /\ Len([s EXCEPT ![i] = x]) = Len(s)
  OBVIOUS
<1>FunctionSeq.
  ASSUME NEW S, NEW n \in Nat, NEW f \in [1..n -> S]
  PROVE  f \in Seq(S) /\ Len(f) = n
  OBVIOUS
<1>WithoutSeq.
  ASSUME NEW S, NEW s \in Seq(S), NEW n \in DOMAIN s
  PROVE  /\ Without(s, n) \in Seq(S)
         /\ Len(Without(s, n)) = Len(s) - 1
         /\ DOMAIN Without(s, n) = 1..(Len(s) - 1)
         /\ \A m \in 1..(Len(s) - 1) : Without(s, n)[m] = IF m < n THEN s[m] ELSE s[m + 1]
  BY DEF Without
<1>AppendSeq.
  ASSUME NEW S, NEW s \in Seq(S), NEW x \in S
  PROVE  /\ Append(s, x) \in Seq(S)
         /\ DOMAIN Append(s, x) = 1..(Len(s) + 1)
         /\ \A m \in DOMAIN s : Append(s, x)[m] = s[m]
         /\ Append(s, x)[Len(s) + 1] = x
         /\ DOMAIN s = 1..Len(s) /\ Len(s) \in Nat
  OBVIOUS
<1>TailSeq.
  ASSUME NEW S, NEW s \in Seq(S), s # <<>>
  PROVE  /\ Tail(s) \in Seq(S)
         /\ DOMAIN Tail(s) = 1..(Len(s) - 1) /\ Len(s) \in Nat \ {0}
         /\ Len(Tail(s)) = Len(s) - 1
         /\ \A m \in 1..(Len(s) - 1) : Tail(s)[m] = s[m + 1]
         /\ Head(s) = s[1] /\ Head(s) \in S
         /\ DOMAIN s = 1..Len(s)
  BY <1>TailSeq
<1>LaneChange.
  ASSUME NEW x \in ReadyLane, NEW s \in Seq(1..MaxIndex)
  PROVE  /\ [x EXCEPT !.tasks = s] \in ReadyLane
         /\ [x EXCEPT !.tasks = s].lane = x.lane
         /\ [x EXCEPT !.tasks = s].tasks = s
  BY DEF ReadyLane
\* A lane that was not active joins at the end.
<1>AppendLane.
  ASSUME NEW q \in Seq(ReadyLane), Tidy(q), NEW row \in ReadyLane, row.tasks # <<>>,
         \A n, m \in DOMAIN row.tasks : row.tasks[m] = row.tasks[n] => m = n,
         \A h \in DOMAIN q : q[h].lane # row.lane
  PROVE  /\ Append(q, row) \in Seq(ReadyLane)
         /\ Tidy(Append(q, row))
         /\ \A j, m : In(Append(q, row), j, m) <=>
              In(q, j, m) \/ (m = row.lane /\ \E n \in DOMAIN row.tasks : row.tasks[n] = j)
  <2> USE <1>AppendLane
  <2> DEFINE p == Append(q, row)
  <2>1. /\ p \in Seq(ReadyLane) /\ DOMAIN p = 1..(Len(q) + 1)
        /\ \A j \in DOMAIN q : p[j] = q[j]
        /\ p[Len(q) + 1] = row
        /\ DOMAIN q = 1..Len(q) /\ Len(q) \in Nat
    BY <1>AppendSeq
  <2> HIDE DEF p
  <2>2. /\ \A j \in DOMAIN p : j \in DOMAIN q \/ j = Len(q) + 1
        /\ \A j \in DOMAIN q : j \in DOMAIN p
        /\ Len(q) + 1 \in DOMAIN p
    BY <2>1
  <2>3. Tidy(p)
    <3>1. ASSUME NEW j \in DOMAIN p
          PROVE  /\ p[j].tasks # <<>>
                 /\ \A n, m \in DOMAIN p[j].tasks : p[j].tasks[m] = p[j].tasks[n] => m = n
                 /\ \A h \in DOMAIN p : p[h].lane = p[j].lane => h = j
      <4>1. CASE j \in DOMAIN q
        <5>1. \A h \in DOMAIN p : p[h].lane = p[j].lane => h = j
          BY <2>1, <2>2, <4>1, Zenon DEF Tidy
        <5> QED
          BY <2>1, <4>1, <5>1, Zenon DEF Tidy
      <4>2. CASE j = Len(q) + 1
        BY <2>1, <2>2, <4>2, Zenon
      <4> QED
        BY <2>2, <4>1, <4>2
    <3> QED
      BY <3>1, Zenon DEF Tidy
  <2>4. ASSUME NEW j, NEW m
        PROVE  In(p, j, m) <=>
                 In(q, j, m) \/ (m = row.lane /\ \E n \in DOMAIN row.tasks : row.tasks[n] = j)
    <3>1. ASSUME In(p, j, m)
          PROVE  In(q, j, m) \/ (m = row.lane /\ \E n \in DOMAIN row.tasks : row.tasks[n] = j)
      BY <2>1, <2>2, <3>1 DEF In
    <3>2. ASSUME In(q, j, m) PROVE In(p, j, m)
      BY <2>1, <2>2, <3>2 DEF In
    <3>3. ASSUME m = row.lane, \E n \in DOMAIN row.tasks : row.tasks[n] = j PROVE In(p, j, m)
      BY <2>1, <2>2, <3>3 DEF In
    <3> QED
      BY <3>1, <3>2, <3>3, Zenon
  <2> QED
    BY <2>1, <2>3, <2>4, Zenon DEF p
<1>EnqueuedLanes.
  ASSUME NEW q \in Seq(ReadyLane), Tidy(q), NEW i \in 1..MaxIndex, NEW l \in Lanes,
         \A m : ~In(q, i, m)
  PROVE  /\ Enqueued(q, i, l) \in Seq(ReadyLane)
         /\ Tidy(Enqueued(q, i, l))
         /\ \A j, m : In(Enqueued(q, i, l), j, m) <=> In(q, j, m) \/ (j = i /\ m = l)
  <2> USE <1>EnqueuedLanes
  <2> DEFINE p == Enqueued(q, i, l)
  <2>1. CASE \E k \in DOMAIN q : q[k].lane = l
    <3>1. PICK k \in DOMAIN q : q[k].lane = l
      BY <2>1
    <3> DEFINE row == [q[k] EXCEPT !.tasks = Append(@, i)]
    <3>2. \A j \in DOMAIN q : q[j].lane = l <=> j = k
      BY <3>1, Zenon DEF Tidy
    <3>3. p = [j \in DOMAIN q |->
                 IF q[j].lane = l THEN [q[j] EXCEPT !.tasks = Append(@, i)] ELSE q[j]]
      BY <2>1, Zenon DEF Enqueued
    <3>4. row \in ReadyLane /\ row.lane = l /\ row.tasks = Append(q[k].tasks, i)
      <4>1. q[k] \in ReadyLane /\ Append(q[k].tasks, i) \in Seq(1..MaxIndex)
        BY <3>1, LaneOf, <1>AppendSeq
      <4> QED
        BY <3>1, <4>1, <1>LaneChange, Zenon
    <3>10. p[k] = row /\ \A j \in DOMAIN q \ {k} : p[j] = q[j]
      BY <3>1, <3>2, <3>3, Zenon
    <3>11. DOMAIN p = DOMAIN q /\ p = [j \in DOMAIN q |-> p[j]]
      BY <3>3, Zenon
    <3> HIDE DEF row, p
    <3>5. /\ p \in Seq(ReadyLane) /\ DOMAIN p = DOMAIN q
          /\ p[k] = row /\ \A j \in DOMAIN q \ {k} : p[j] = q[j]
      <4>1. \A j \in DOMAIN q : p[j] \in ReadyLane
        BY <3>4, <3>10, LaneOf, Zenon
      <4>2. p \in [1..Len(q) -> ReadyLane] /\ Len(q) \in Nat
        BY <3>1, <3>11, <4>1, LaneOf, Zenon
      <4> QED
        BY <3>10, <3>11, <4>2, <1>FunctionSeq, Zenon
    <3>6. /\ DOMAIN row.tasks = 1..(Len(q[k].tasks) + 1) /\ row.tasks # <<>>
          /\ \A n \in DOMAIN q[k].tasks : row.tasks[n] = q[k].tasks[n]
          /\ row.tasks[Len(q[k].tasks) + 1] = i
          /\ DOMAIN q[k].tasks = 1..Len(q[k].tasks) /\ Len(q[k].tasks) \in Nat
      BY <3>1, <3>4, LaneOf, <1>AppendSeq
    <3>7. \A n \in DOMAIN q[k].tasks : q[k].tasks[n] # i
      BY <3>1, Zenon DEF In
    <3>12. /\ \A n \in DOMAIN row.tasks : n \in DOMAIN q[k].tasks \/ n = Len(q[k].tasks) + 1
           /\ \A n \in DOMAIN q[k].tasks : n \in DOMAIN row.tasks
           /\ Len(q[k].tasks) + 1 \in DOMAIN row.tasks
      BY <3>6
    <3>8. Tidy(p)
      <4>1. ASSUME NEW j \in DOMAIN p
            PROVE  /\ p[j].tasks # <<>> /\ p[j].lane = q[j].lane
                   /\ \A n, m \in DOMAIN p[j].tasks : p[j].tasks[m] = p[j].tasks[n] => m = n
        <5>1. CASE j = k
          <6>1. ASSUME NEW n \in DOMAIN row.tasks, NEW m \in DOMAIN row.tasks,
                       row.tasks[m] = row.tasks[n]
                PROVE  m = n
            <7>1. CASE n \in DOMAIN q[k].tasks /\ m \in DOMAIN q[k].tasks
              BY <3>1, <3>6, <6>1, <7>1, Zenon DEF Tidy
            <7>2. CASE ~(n \in DOMAIN q[k].tasks /\ m \in DOMAIN q[k].tasks)
              BY <3>6, <3>7, <3>12, <6>1, <7>2, Zenon
            <7> QED
              BY <7>1, <7>2
          <6> QED
            BY <3>1, <3>4, <3>5, <3>6, <5>1, <6>1, Zenon
        <5>2. CASE j # k
          BY <3>5, <4>1, <5>2, Zenon DEF Tidy
        <5> QED
          BY <5>1, <5>2
      <4> QED
        BY <3>5, <4>1, Zenon DEF Tidy
    <3>9. ASSUME NEW j, NEW m
          PROVE  In(p, j, m) <=> In(q, j, m) \/ (j = i /\ m = l)
      <4>1. ASSUME In(p, j, m) PROVE In(q, j, m) \/ (j = i /\ m = l)
        <5>1. PICK h \in DOMAIN p : p[h].lane = m /\ \E n \in DOMAIN p[h].tasks : p[h].tasks[n] = j
          BY <4>1, Zenon DEF In
        <5>2. CASE h = k
          BY <3>1, <3>4, <3>5, <3>6, <3>12, <5>1, <5>2, Zenon DEF In
        <5>3. CASE h # k
          BY <3>5, <5>1, <5>3, Zenon DEF In
        <5> QED
          BY <5>2, <5>3
      <4>2. ASSUME In(q, j, m) PROVE In(p, j, m)
        <5>1. PICK h \in DOMAIN q : q[h].lane = m /\ \E n \in DOMAIN q[h].tasks : q[h].tasks[n] = j
          BY <4>2, Zenon DEF In
        <5>2. CASE h = k
          <6>1. PICK n \in DOMAIN q[h].tasks : q[h].tasks[n] = j
            BY <5>1
          <6>2. n \in DOMAIN p[h].tasks /\ p[h].tasks[n] = j /\ p[h].lane = m
            BY <3>1, <3>4, <3>5, <3>6, <3>12, <5>1, <5>2, <6>1, Zenon
          <6> QED
            BY <3>5, <5>1, <6>2, Zenon DEF In
        <5>3. CASE h # k
          BY <3>5, <5>1, <5>3, Zenon DEF In
        <5> QED
          BY <5>2, <5>3
      <4>3. In(p, i, l)
        BY <3>1, <3>4, <3>5, <3>6 DEF In
      <4> QED
        BY <4>1, <4>2, <4>3, Zenon
    <3> QED
      BY <3>5, <3>8, <3>9, Zenon DEF p
  <2>2. CASE ~\E k \in DOMAIN q : q[k].lane = l
    <3> DEFINE row == [lane |-> l, tasks |-> <<i>>]
    <3>1. p = Append(q, row)
      BY <2>2 DEF Enqueued
    <3>2. row \in ReadyLane /\ row.lane = l /\ row.tasks = <<i>>
      BY DEF ReadyLane
    <3> HIDE DEF row, p
    <3>3. DOMAIN row.tasks = {1} /\ row.tasks # <<>> /\ row.tasks[1] = i
      BY <3>2
    <3>4. \A h \in DOMAIN q : q[h].lane # row.lane
      BY <2>2, <3>2, Zenon
    <3>5. \A n, m \in DOMAIN row.tasks : row.tasks[m] = row.tasks[n] => m = n
      BY <3>3
    <3>6. /\ p \in Seq(ReadyLane) /\ Tidy(p)
          /\ \A j, m : In(p, j, m) <=>
               In(q, j, m) \/ (m = l /\ \E n \in DOMAIN row.tasks : row.tasks[n] = j)
      <4>1. /\ Append(q, row) \in Seq(ReadyLane) /\ Tidy(Append(q, row))
            /\ \A j, m : In(Append(q, row), j, m) <=>
                 In(q, j, m) \/ (m = row.lane /\ \E n \in DOMAIN row.tasks : row.tasks[n] = j)
        BY <3>2, <3>3, <3>4, <3>5, <1>AppendLane, Zenon
      <4> QED
        BY <3>1, <3>2, <4>1, Zenon
    <3> QED
      BY <3>3, <3>6, Zenon DEF p
  <2> QED
    BY <2>1, <2>2
<1>LaneReplaced.
  ASSUME NEW q, Tidy(q), NEW p, NEW k, NEW n, Loses(q, p, k, n)
  PROVE  /\ Tidy(p)
         /\ \A j, m : In(p, j, m) <=> In(q, j, m) /\ j # q[k].tasks[n]
  <2> USE <1>LaneReplaced
  <2> DEFINE i == q[k].tasks[n]
             s == p[k].tasks
  <2>0. /\ DOMAIN p = DOMAIN q /\ k \in DOMAIN q /\ n \in DOMAIN q[k].tasks
        /\ p[k].lane = q[k].lane /\ s # <<>> /\ AllBut(s, q[k].tasks, n)
        /\ \A h \in DOMAIN q \ {k} :
             p[h] = q[h] /\ \A m \in DOMAIN q[h].tasks : q[h].tasks[m] # i
    BY Zenon DEF Loses
  <2>1. \A h \in DOMAIN q : p[h].lane = q[h].lane
    BY <2>0, Zenon
  <2>2. \A m, h \in DOMAIN s : s[m] = s[h] => m = h
    BY <2>0 DEF Tidy, AllBut
  <2>3. \A m \in DOMAIN s : s[m] # i
    BY <2>0 DEF Tidy, AllBut
  <2>4. Tidy(p)
    <3>1. ASSUME NEW h \in DOMAIN p
          PROVE  /\ p[h].tasks # <<>>
                 /\ \A a, b \in DOMAIN p[h].tasks : p[h].tasks[b] = p[h].tasks[a] => b = a
      <4>1. CASE h = k
        BY <2>0, <2>2, <4>1, Zenon
      <4>2. CASE h # k
        BY <2>0, <3>1, <4>2 DEF Tidy
      <4> QED
        BY <4>1, <4>2
    <3> QED
      BY <2>0, <2>1, <3>1 DEF Tidy
  <2>5. ASSUME NEW j, NEW m, In(p, j, m) PROVE In(q, j, m) /\ j # i
    <3>1. PICK h \in DOMAIN p : p[h].lane = m /\ \E a \in DOMAIN p[h].tasks : p[h].tasks[a] = j
      BY <2>0, <2>5, Zenon DEF In
    <3>2. CASE h = k
      BY <2>0, <2>3, <3>1, <3>2 DEF In, AllBut
    <3>3. CASE h # k
      BY <2>0, <3>1, <3>3 DEF In
    <3> QED
      BY <3>2, <3>3
  <2>6. ASSUME NEW j, NEW m, In(q, j, m), j # i PROVE In(p, j, m)
    <3>1. PICK h \in DOMAIN q : q[h].lane = m /\ \E a \in DOMAIN q[h].tasks : q[h].tasks[a] = j
      BY <2>0, <2>6, Zenon DEF In
    <3>2. PICK a \in DOMAIN q[h].tasks : q[h].tasks[a] = j
      BY <2>0, <3>1
    <3>3. CASE h = k
      <4>1. a # n
        BY <2>0, <2>6, <3>2, <3>3
      <4>2. \E b \in DOMAIN s : s[b] = j
        BY <2>0, <3>2, <3>3, <4>1, Zenon DEF AllBut
      <4> QED
        BY <2>0, <3>1, <3>3, <4>2 DEF In
    <3>4. CASE h # k
      BY <2>0, <3>1, <3>2, <3>4, Zenon DEF In
    <3> QED
      BY <3>3, <3>4
  <2> QED
    BY <2>0, <2>4, <2>5, <2>6, Zenon
\* What Without keeps: all other items, once each.
<1>WithoutItems.
  ASSUME NEW S, NEW s \in Seq(S), NEW n \in DOMAIN s
  PROVE  AllBut(Without(s, n), s, n)
  <2> DEFINE p == Without(s, n)
             At(m) == IF m < n THEN m ELSE m + 1
  <2>1. /\ DOMAIN p = 1..(Len(s) - 1) /\ DOMAIN s = 1..Len(s) /\ Len(s) \in Nat
        /\ \A m \in 1..(Len(s) - 1) : p[m] = IF m < n THEN s[m] ELSE s[m + 1]
    <3>1. DOMAIN s = 1..Len(s) /\ Len(s) \in Nat
      OBVIOUS
    <3> QED
      BY <3>1, <1>WithoutSeq, Zenon
  <2> HIDE DEF p
  <2>2. ASSUME NEW m \in DOMAIN p
        PROVE  At(m) \in DOMAIN s \ {n} /\ p[m] = s[At(m)]
    BY <2>1
  <2>3. \A j \in DOMAIN s \ {n} : \E m \in DOMAIN p : p[m] = s[j]
    <3> SUFFICES ASSUME NEW j \in DOMAIN s \ {n} PROVE \E m \in DOMAIN p : p[m] = s[j]
      OBVIOUS
    <3>1. CASE j < n
      <4>1. j \in DOMAIN p /\ p[j] = s[j]
        BY <2>1, <3>1
      <4> QED
        BY <4>1, Zenon
    <3>2. CASE ~(j < n)
      <4>1. j - 1 \in DOMAIN p /\ p[j - 1] = s[j]
        BY <2>1, <3>2
      <4> QED
        BY <4>1, Zenon
    <3> QED
      BY <3>1, <3>2
  <2>4. \A m, h \in DOMAIN p : m # h => At(m) # At(h)
    BY <2>1
  <2> HIDE DEF At
  <2>5. AllBut(p, s, n)
    BY <2>2, <2>3, <2>4, Zenon DEF AllBut
  <2> QED
    BY <2>5, Zenon DEF p
<1>WithoutLane.
  ASSUME NEW q \in Seq(ReadyLane), Tidy(q), NEW k \in DOMAIN q
  PROVE  /\ Without(q, k) \in Seq(ReadyLane)
         /\ Tidy(Without(q, k))
         /\ \A j, l : In(Without(q, k), j, l) <=> In(q, j, l) /\ l # q[k].lane
         /\ \A h \in DOMAIN Without(q, k) : \E g \in DOMAIN q : Without(q, k)[h] = q[g]
         /\ \A h \in DOMAIN Without(q, k) : Without(q, k)[h].lane # q[k].lane
  <2> USE <1>WithoutLane
  <2> DEFINE p == Without(q, k)
  <2>1. p \in Seq(ReadyLane)
    BY <1>WithoutSeq, Zenon
  <2>2. /\ \A m \in DOMAIN p : \E j \in DOMAIN q \ {k} : p[m] = q[j]
        /\ \A j \in DOMAIN q \ {k} : \E m \in DOMAIN p : p[m] = q[j]
        /\ \A m, h \in DOMAIN p : m # h =>
             \E j, g \in DOMAIN q \ {k} : j # g /\ p[m] = q[j] /\ p[h] = q[g]
    <3>1. AllBut(p, q, k)
      BY <1>WithoutItems, Zenon
    <3> HIDE DEF p
    <3> QED
      BY <3>1, Zenon DEF AllBut
  <2> HIDE DEF p
  <2>3. Tidy(p)
    <3>1. ASSUME NEW h \in DOMAIN p
          PROVE  /\ p[h].tasks # <<>>
                 /\ \A n, m \in DOMAIN p[h].tasks : p[h].tasks[m] = p[h].tasks[n] => m = n
      BY <2>2, <3>1 DEF Tidy
    <3>2. ASSUME NEW h \in DOMAIN p, NEW m \in DOMAIN p, p[m].lane = p[h].lane
          PROVE  m = h
      <4> SUFFICES ASSUME m # h PROVE FALSE
        OBVIOUS
      <4>1. PICK j, g \in DOMAIN q \ {k} : j # g /\ p[m] = q[j] /\ p[h] = q[g]
        BY <2>2, <3>2
      <4> QED
        BY <3>2, <4>1 DEF Tidy
    <3> QED
      BY <3>1, <3>2, Zenon DEF Tidy
  <2>4. \A h \in DOMAIN p : p[h].lane # q[k].lane
    BY <2>2 DEF Tidy
  <2>5. ASSUME NEW j, NEW l
        PROVE  In(p, j, l) <=> In(q, j, l) /\ l # q[k].lane
    <3>1. ASSUME In(p, j, l) PROVE In(q, j, l) /\ l # q[k].lane
      BY <2>2, <2>4, <3>1 DEF In
    <3>2. ASSUME In(q, j, l), l # q[k].lane PROVE In(p, j, l)
      <4>1. PICK h \in DOMAIN q : q[h].lane = l /\ \E n \in DOMAIN q[h].tasks : q[h].tasks[n] = j
        BY <3>2, Zenon DEF In
      <4>2. h \in DOMAIN q \ {k}
        BY <3>2, <4>1
      <4> QED
        BY <2>2, <4>1, <4>2 DEF In
    <3> QED
      BY <3>1, <3>2, Zenon
  <2> QED
    BY <2>1, <2>2, <2>3, <2>4, <2>5, Zenon DEF p
\* Lane k has other entries now, and possibly another place: Unlinked and Served.
<1>UnlinkedLanes.
  ASSUME NEW q \in Seq(ReadyLane), Tidy(q), NEW i, NEW l, In(q, i, l),
         \A m : In(q, i, m) => m = l
  PROVE  /\ Unlinked(q, i) \in Seq(ReadyLane)
         /\ Tidy(Unlinked(q, i))
         /\ \A j, m : In(Unlinked(q, i), j, m) <=> In(q, j, m) /\ j # i
  <2> USE <1>UnlinkedLanes
  <2> DEFINE k == CHOOSE k \in DOMAIN q : \E n \in DOMAIN q[k].tasks : q[k].tasks[n] = i
             n == CHOOSE n \in DOMAIN q[k].tasks : q[k].tasks[n] = i
             s == Without(q[k].tasks, n)
             row == [q[k] EXCEPT !.tasks = s]
             p == Unlinked(q, i)
  <2>1. \E h \in DOMAIN q : \E m \in DOMAIN q[h].tasks : q[h].tasks[m] = i
    BY Zenon DEF In
  <2>2. k \in DOMAIN q /\ \E m \in DOMAIN q[k].tasks : q[k].tasks[m] = i
    BY <2>1, Zenon
  <2>3. n \in DOMAIN q[k].tasks /\ q[k].tasks[n] = i
    BY <2>2, Zenon
  <2>4. p = IF Len(q[k].tasks) = 1 THEN Without(q, k) ELSE [q EXCEPT ![k].tasks = s]
    BY Zenon DEF Unlinked
  <2>5. [q EXCEPT ![k].tasks = s] = [q EXCEPT ![k] = row]
    OBVIOUS
  <2> HIDE DEF k, n, p
  <2>6. q[k].lane = l /\ \A h \in DOMAIN q \ {k} : q[h].lane # l
    BY <2>2, <2>3, Zenon DEF In, Tidy
  <2>7. /\ q[k] \in ReadyLane /\ q[k].tasks \in Seq(1..MaxIndex)
        /\ DOMAIN q[k].tasks = 1..Len(q[k].tasks) /\ Len(q[k].tasks) \in Nat
    BY <2>2, LaneOf, Zenon
  <2>8. \A h \in DOMAIN q \ {k} : \A m \in DOMAIN q[h].tasks : q[h].tasks[m] # i
    BY <2>6, Zenon DEF In
  <2>9. CASE Len(q[k].tasks) = 1
    <3>1. p = Without(q, k)
      BY <2>4, <2>9, Zenon
    <3>2. \A m \in DOMAIN q[k].tasks : q[k].tasks[m] = i
      BY <2>3, <2>7, <2>9
    <3>3. ASSUME NEW j, NEW m
          PROVE  In(q, j, m) /\ m # q[k].lane <=> In(q, j, m) /\ j # i
      <4>1. ASSUME In(q, j, m), m = l PROVE j = i
        BY <2>6, <3>2, <4>1, Zenon DEF In
      <4>2. In(q, i, m) => m = l
        BY Zenon
      <4> QED
        BY <2>6, <4>1, <4>2, Zenon
    <3> QED
      BY <2>2, <3>1, <3>3, <1>WithoutLane DEF p
  <2>10. CASE Len(q[k].tasks) # 1
    <3>1. /\ s \in Seq(1..MaxIndex) /\ Len(s) = Len(q[k].tasks) - 1
          /\ DOMAIN s = 1..(Len(q[k].tasks) - 1)
      BY <2>3, <2>7, <1>WithoutSeq, Zenon
    <3>3. AllBut(s, q[k].tasks, n)
      BY <2>3, <2>7, <1>WithoutItems, Zenon
    <3> HIDE DEF s
    <3>2. s # <<>>
      <4>1. Len(s) # 0
        BY <2>7, <2>10, <3>1
      <4>2. Len(<<>>) = 0
        OBVIOUS
      <4> QED
        BY <4>1, <4>2, Zenon
    <3>4. row \in ReadyLane /\ row.lane = q[k].lane /\ row.tasks = s
      BY <2>7, <3>1, <1>LaneChange, Zenon
    <3>5. p = [q EXCEPT ![k] = row]
      BY <2>4, <2>5, <2>10, Zenon
    <3> HIDE DEF row
    <3>6. /\ p \in Seq(ReadyLane) /\ DOMAIN p = DOMAIN q /\ p[k] = row
          /\ \A h \in DOMAIN q \ {k} : p[h] = q[h]
      BY <2>2, <3>4, <3>5, <1>SetItem
    <3>7. p[k].lane = q[k].lane /\ p[k].tasks = s
      BY <3>4, <3>6, Zenon
    <3>8. Loses(q, p, k, n)
      BY <2>2, <2>3, <2>8, <3>2, <3>3, <3>6, <3>7, Zenon DEF Loses
    <3>9. Tidy(p) /\ \A j, m : In(p, j, m) <=> In(q, j, m) /\ j # i
      <4>1. Tidy(p) /\ \A j, m : In(p, j, m) <=> In(q, j, m) /\ j # q[k].tasks[n]
        BY <3>8, <1>LaneReplaced, Zenon
      <4> QED
        BY <2>3, <4>1
    <3> QED
      BY <3>6, <3>9, Zenon DEF p
  <2> QED
    BY <2>9, <2>10
<1>ServedLanes.
  ASSUME NEW q \in Seq(ReadyLane), Tidy(q), NEW k \in DOMAIN q,
         \A h \in DOMAIN q \ {k} :
           \A m \in DOMAIN q[h].tasks : q[h].tasks[m] # Head(q[k].tasks)
  PROVE  /\ Served(q, k) \in Seq(ReadyLane)
         /\ Tidy(Served(q, k))
         /\ \A j, m : In(Served(q, k), j, m) <=> In(q, j, m) /\ j # Head(q[k].tasks)
  <2> USE <1>ServedLanes
  <2> DEFINE t == q[k].tasks
             p == Served(q, k)
  <2>1. /\ q[k] \in ReadyLane /\ t \in Seq(1..MaxIndex) /\ t # <<>>
        /\ \A n, m \in DOMAIN t : t[m] = t[n] => m = n
    BY LaneOf, Zenon DEF Tidy
  <2> HIDE DEF t
  <2>2. /\ Tail(t) \in Seq(1..MaxIndex) /\ DOMAIN Tail(t) = 1..(Len(t) - 1)
        /\ Len(t) \in Nat \ {0} /\ Len(Tail(t)) = Len(t) - 1
        /\ \A m \in 1..(Len(t) - 1) : Tail(t)[m] = t[m + 1]
        /\ Head(t) = t[1] /\ DOMAIN t = 1..Len(t)
    BY <2>1, <1>TailSeq, Zenon
  <2>3. CASE Len(t) = 1
    <3>1. p = Without(q, k)
      BY <2>3, Zenon DEF Served, t
    <3>2. \A m \in DOMAIN t : t[m] = Head(t)
      BY <2>2, <2>3
    <3>3. Head(t) = t[1] /\ 1 \in DOMAIN t
      BY <2>2
    <3>4. ASSUME NEW j, NEW m
          PROVE  In(q, j, m) /\ m # q[k].lane <=> In(q, j, m) /\ j # Head(t)
      BY <3>2, <3>3 DEF In, Tidy, t
    <3>5. /\ p \in Seq(ReadyLane) /\ Tidy(p)
          /\ \A j, l : In(p, j, l) <=> In(q, j, l) /\ l # q[k].lane
      <4>1. /\ Without(q, k) \in Seq(ReadyLane) /\ Tidy(Without(q, k))
            /\ \A j, l : In(Without(q, k), j, l) <=> In(q, j, l) /\ l # q[k].lane
        BY <1>WithoutLane, Zenon
      <4> HIDE DEF p
      <4> QED
        BY <3>1, <4>1, Zenon
    <3> QED
      BY <3>4, <3>5, Zenon DEF p, t
  <2>4. CASE Len(t) # 1
    <3> DEFINE row == [q[k] EXCEPT !.tasks = Tail(t)]
               o == [q EXCEPT ![k] = row]
    <3>1. p = Append(Without(q, k), row)
      BY <2>4, Zenon DEF Served, t
    <3>2. row \in ReadyLane /\ row.lane = q[k].lane /\ row.tasks = Tail(t)
      BY <2>1, <2>2, <1>LaneChange, Zenon
    <3> HIDE DEF row
    <3>3. /\ o \in Seq(ReadyLane) /\ DOMAIN o = DOMAIN q /\ o[k] = row /\ Len(o) = Len(q)
          /\ \A h \in DOMAIN q \ {k} : o[h] = q[h]
      BY <3>2, <1>SetItem
    <3>4. Without(o, k) = Without(q, k)
      BY <3>3 DEF Without
    <3> HIDE DEF o, p
    <3>5. AllBut(Tail(t), t, 1) /\ Tail(t) # <<>> /\ 1 \in DOMAIN t
      <4>1. Tail(t) # <<>>
        <5>1. Len(Tail(t)) # 0 /\ Len(<<>>) = 0
          BY <2>2, <2>4
        <5> QED
          BY <5>1, Zenon
      <4>2. \A m \in DOMAIN Tail(t) : m + 1 \in DOMAIN t \ {1} /\ Tail(t)[m] = t[m + 1]
        BY <2>2
      <4>3. \A j \in DOMAIN t \ {1} : j - 1 \in DOMAIN Tail(t) /\ Tail(t)[j - 1] = t[j]
        BY <2>2
      <4>4. \A m, h \in DOMAIN Tail(t) : m # h => m + 1 # h + 1
        BY <2>2
      <4>5. 1 \in DOMAIN t
        BY <2>2
      <4> QED
        BY <4>1, <4>2, <4>3, <4>4, <4>5, Zenon DEF AllBut
    <3>6. Loses(q, o, k, 1)
      BY <2>2, <3>2, <3>3, <3>5, Zenon DEF Loses, t
    <3>7. Tidy(o) /\ \A j, m : In(o, j, m) <=> In(q, j, m) /\ j # q[k].tasks[1]
      BY <3>6, <1>LaneReplaced, Zenon
    <3>8. /\ Without(o, k) \in Seq(ReadyLane) /\ Tidy(Without(o, k))
          /\ \A j, l : In(Without(o, k), j, l) <=> In(o, j, l) /\ l # row.lane
          /\ \A h \in DOMAIN Without(o, k) : Without(o, k)[h].lane # row.lane
      <4>1. /\ Without(o, k) \in Seq(ReadyLane) /\ Tidy(Without(o, k))
            /\ \A j, l : In(Without(o, k), j, l) <=> In(o, j, l) /\ l # o[k].lane
            /\ \A h \in DOMAIN Without(o, k) : Without(o, k)[h].lane # o[k].lane
        BY <3>3, <3>7, <1>WithoutLane, Zenon
      <4> QED
        BY <3>3, <4>1
    <3>9. row.tasks # <<>> /\ \A n, m \in DOMAIN row.tasks : row.tasks[m] = row.tasks[n] => m = n
      BY <3>3, <3>7 DEF Tidy
    <3> DEFINE r == Append(Without(o, k), row)
    <3>10. /\ r \in Seq(ReadyLane) /\ Tidy(r)
           /\ \A j, m : In(r, j, m) <=>
                In(Without(o, k), j, m)
                \/ (m = row.lane /\ \E n \in DOMAIN row.tasks : row.tasks[n] = j)
      BY <3>2, <3>8, <3>9, <1>AppendLane, Zenon
    <3>11. p = r
      BY <3>1, <3>4, Zenon
    <3> HIDE DEF r
    <3>12. ASSUME NEW j, NEW m
           PROVE  In(o, j, m) <=>
                    \/ In(o, j, m) /\ m # row.lane
                    \/ m = row.lane /\ \E n \in DOMAIN row.tasks : row.tasks[n] = j
      <4>1. \A h \in DOMAIN o : o[h].lane = row.lane <=> h = k
        BY <3>3, <3>7, Zenon DEF Tidy
      <4> QED
        BY <3>3, <4>1 DEF In
    <3>13. \A j, m : In(p, j, m) <=> In(o, j, m)
      BY <3>8, <3>10, <3>11, <3>12, Zenon
    <3>14. Head(q[k].tasks) = q[k].tasks[1]
      BY <2>2, Zenon DEF t
    <3>15. p \in Seq(ReadyLane) /\ Tidy(p)
      BY <3>10, <3>11, Zenon
    <3> QED
      BY <3>7, <3>13, <3>14, <3>15, Zenon DEF p
  <2> QED
    BY <2>3, <2>4
(* The domain: rows, lanes and quota.                                       *)
<1>SlotsChange.
  ASSUME NEW rows \in Seq(Entry), NEW i \in DOMAIN rows, NEW x \in Entry
  PROVE  Cardinality(Slots([rows EXCEPT ![i] = x]))
           = SlotsOf(Cardinality(Slots(rows)), rows[i].slot, x.slot)
  <2> DEFINE new == [rows EXCEPT ![i] = x]
  <2>1. /\ DOMAIN new = DOMAIN rows /\ new[i] = x
        /\ \A j \in DOMAIN rows \ {i} : new[j] = rows[j]
    OBVIOUS
  <2>2. IsFiniteSet(Slots(rows)) /\ Cardinality(Slots(rows)) \in Nat
    BY SlotsFinite
  <2> HIDE DEF new
  <2>4. CASE (rows[i].slot /\ x.slot) \/ (~rows[i].slot /\ ~x.slot)
    <3>1. Slots(new) = Slots(rows)
      BY <2>1, <2>4 DEF Slots
    <3> QED
      BY <2>4, <3>1, Zenon DEF SlotsOf, new
  <2>5. CASE x.slot /\ ~rows[i].slot
    <3>1. Slots(new) = Slots(rows) \cup {i} /\ i \notin Slots(rows)
      BY <2>1, <2>5 DEF Slots
    <3>2. Cardinality(Slots(rows) \cup {i}) = Cardinality(Slots(rows)) + 1
      BY <2>2, <3>1, FiniteAdd, Zenon
    <3> QED
      BY <2>5, <3>1, <3>2, Zenon DEF SlotsOf, new
  <2>6. CASE ~x.slot /\ rows[i].slot
    <3>1. Slots(new) = Slots(rows) \ {i} /\ i \in Slots(rows)
      BY <2>1, <2>6 DEF Slots
    <3>2. Cardinality(Slots(rows) \ {i}) = Cardinality(Slots(rows)) - 1
      BY <2>2, <3>1, FiniteRemove, Zenon
    <3> QED
      BY <2>6, <3>1, <3>2, Zenon DEF SlotsOf, new
  <2> QED
    BY <2>4, <2>5, <2>6, Zenon
\* One row changes, and the lanes and the count with it.
<1>AgreeChange.
  ASSUME NEW rows, NEW q, NEW n, Agree(rows, q, n), NEW i \in DOMAIN rows, NEW x, RowOK(x),
         NEW p, p \in Seq(ReadyLane), Tidy(p),
         \A j, l : In(p, j, l) <=>
           (j # i /\ In(q, j, l)) \/ (j = i /\ x.phase = "queued" /\ x.lane = l),
         SlotsOf(n, rows[i].slot, x.slot) <= limit
  PROVE  Agree([rows EXCEPT ![i] = x], p, SlotsOf(n, rows[i].slot, x.slot))
  <2> USE <1>AgreeChange
  <2> DEFINE new == [rows EXCEPT ![i] = x]
  <2>1. /\ rows \in Seq(Entry) /\ Len(rows) <= MaxIndex /\ n = Cardinality(Slots(rows))
        /\ \A j \in DOMAIN rows : RowOK(rows[j])
    BY Zenon DEF Agree
  <2>2. x \in Entry
    BY Zenon DEF RowOK
  <2>3. /\ new \in Seq(Entry) /\ DOMAIN new = DOMAIN rows /\ Len(new) = Len(rows)
    BY <2>1, <2>2, <1>SetItem
  <2>4. new[i] = x /\ \A j \in DOMAIN rows \ {i} : new[j] = rows[j]
    BY <2>1
  <2>5. Cardinality(Slots(new)) = SlotsOf(n, rows[i].slot, x.slot)
    BY <2>1, <2>2, <1>SlotsChange, Zenon
  <2>6. \A j, l : In(q, j, l) <=> Queued(rows, j, l)
    BY AgreeIn, Zenon
  <2> HIDE DEF new
  <2>7. \A j \in DOMAIN new : RowOK(new[j])
    BY <2>1, <2>3, <2>4, Zenon
  <2>8. \A j, l : In(p, j, l) <=> Queued(new, j, l)
    <3> SUFFICES ASSUME NEW j, NEW l PROVE In(p, j, l) <=> Queued(new, j, l)
      OBVIOUS
    <3>1. CASE j = i
      BY <2>3, <2>4, <3>1, Zenon DEF Queued
    <3>2. CASE j # i
      BY <2>3, <2>4, <2>6, <3>2, SMTT(30) DEF Queued
    <3> QED
      BY <3>1, <3>2
  <2>9. Agree(new, p, SlotsOf(n, rows[i].slot, x.slot))
    BY <2>1, <2>3, <2>5, <2>7, <2>8 DEF Agree
  <2> QED
    BY <2>9, Zenon DEF new
(* What the operations of the domain do to the rows.                        *)
<1>PhaseTyped.
  ASSUME NEW x \in Entry, NEW p \in Phases
  PROVE  [x EXCEPT !.phase = p] \in Entry
  BY ZenonT(30) DEF Entry
<1>PhaseRow.
  ASSUME NEW x \in Entry, NEW p \in Phases
  PROVE  Wrote(x, [x EXCEPT !.phase = p],
               p, x.lane, x.pending, x.slot)
  BY <1>PhaseTyped DEF Entry, Wrote
<1>PendingTyped.
  ASSUME NEW x \in Entry, NEW b \in BOOLEAN
  PROVE  [x EXCEPT !.pending = b] \in Entry
  BY ZenonT(30) DEF Entry
<1>PendingRow.
  ASSUME NEW x \in Entry, NEW b \in BOOLEAN
  PROVE  Wrote(x, [x EXCEPT !.pending = b],
               x.phase, x.lane, b, x.slot)
  BY <1>PendingTyped DEF Entry, Wrote
<1>SlotTyped.
  ASSUME NEW x \in Entry, NEW b \in BOOLEAN
  PROVE  [x EXCEPT !.slot = b] \in Entry
  BY ZenonT(30) DEF Entry
<1>SlotRow.
  ASSUME NEW x \in Entry, NEW b \in BOOLEAN
  PROVE  Wrote(x, [x EXCEPT !.slot = b],
               x.phase, x.lane, x.pending, b)
  BY <1>SlotTyped DEF Entry, Wrote
<1>MovedTyped.
  ASSUME NEW x \in Entry, NEW p \in Phases, NEW b \in BOOLEAN
  PROVE  [x EXCEPT !.phase = p, !.pending = FALSE, !.slot = b] \in Entry
  BY ZenonT(30) DEF Entry
<1>MovedRow.
  ASSUME NEW x \in Entry, NEW p \in Phases, NEW b \in BOOLEAN
  PROVE  Wrote(x, [x EXCEPT !.phase = p, !.pending = FALSE, !.slot = b],
               p, x.lane, FALSE, b)
  <2>1. [x EXCEPT !.phase = p, !.pending = FALSE, !.slot = b] \in Entry
    BY <1>MovedTyped, Zenon
  <2> QED
    BY <2>1 DEF Entry, Wrote
<1>ReleasedTyped.
  ASSUME NEW x \in Entry, NEW p \in Phases, NEW l \in Lanes
  PROVE  [x EXCEPT !.phase = p, !.slot = FALSE, !.pending = FALSE, !.lane = l] \in Entry
  BY ZenonT(30) DEF Entry
<1>ReleasedRow.
  ASSUME NEW x \in Entry, NEW p \in Phases, NEW l \in Lanes
  PROVE  Wrote(x, [x EXCEPT !.phase = p, !.slot = FALSE, !.pending = FALSE, !.lane = l],
               p, l, FALSE, FALSE)
  <2>1. [x EXCEPT !.phase = p, !.slot = FALSE, !.pending = FALSE, !.lane = l] \in Entry
    BY <1>ReleasedTyped, Zenon
  <2> QED
    BY <2>1 DEF Entry, Wrote
<1>RowMoves.
  ASSUME entries \in Seq(Entry), NEW i \in DOMAIN entries, NEW x,
         x.generation = entries[i].generation, x.task = entries[i].task,
         entries' = [entries EXCEPT ![i] = x]
  PROVE  Moves(i) /\ entries'[i] = x
  <2> USE <1>RowMoves
  <2>1. DOMAIN entries' = DOMAIN entries /\ entries'[i] = x
    OBVIOUS
  <2>2. \A j \in DOMAIN entries \ {i} : entries'[j] = entries[j]
    OBVIOUS
  <2> QED
    BY <2>1, <2>2, Zenon DEF Moves
<1>Edit.
  ASSUME Agrees, NEW i, NEW x, Writes(i, x)
  PROVE  Agrees' /\ Moves(i) /\ entries'[i] = x
  <2> USE <1>Edit
  <2>1. /\ i \in DOMAIN entries /\ RowOK(x)
        /\ x.generation = entries[i].generation /\ x.task = entries[i].task
        /\ entries' = [entries EXCEPT ![i] = x]
        /\ ready' \in Seq(ReadyLane) /\ Tidy(ready')
        /\ \A j, l : In(ready', j, l) <=>
             (j # i /\ In(ready, j, l)) \/ (j = i /\ x.phase = "queued" /\ x.lane = l)
        /\ running' = SlotsOf(running, entries[i].slot, x.slot) /\ running' <= limit
    BY Zenon DEF Writes
  <2>2. Agree([entries EXCEPT ![i] = x], ready', SlotsOf(running, entries[i].slot, x.slot))
    BY <2>1, <1>AgreeChange, Zenon DEF Agrees
  <2>3. Agrees'
    BY <2>1, <2>2, Zenon DEF Agrees
  <2>4. entries \in Seq(Entry)
    BY AgreesTyped, Zenon
  <2>5. Moves(i) /\ entries'[i] = x
    BY <2>1, <2>4, <1>RowMoves, Zenon
  <2> QED
    BY <2>3, <2>5, Zenon
<1>WakeRows.
  ASSUME Agrees, NEW r, Wake(r)
  PROVE  WakeDoes(r)
  <2> USE <1>WakeRows
  <2> USE DEF WakeDoes
  <2> DEFINE i == r.index
             x == entries[i]
  <2>1. /\ ready \in Seq(ReadyLane) /\ Tidy(ready) /\ running \in 0..limit
        /\ entries \in Seq(Entry)
        /\ i \in DOMAIN entries => x \in Entry /\ RowOK(x) /\ i \in 1..MaxIndex
    BY AgreesTyped, Zenon
  <2>3. running' = running /\ aborted' = aborted
    BY Zenon DEF Wake
  <2>4. \A l : In(ready, i, l) => i \in DOMAIN entries /\ x.phase = "queued" /\ x.lane = l
    BY AgreeIn, Zenon DEF Agrees
  <2>5. CASE WakeEnqueues(r)
    <3>1. i \in DOMAIN entries /\ x.phase = "idle" /\ Live(r)
      BY <2>5, Zenon DEF WakeEnqueues, Live, Row
    <3>2. /\ entries' = [entries EXCEPT ![i].phase = "queued"]
          /\ ready' = Enqueued(ready, i, x.lane)
      BY <2>5, Zenon DEF Wake, Row
    <3>3. x \in Entry /\ x.lane \in Lanes /\ ~x.slot /\ i \in 1..MaxIndex
      BY <2>1, <3>1 DEF RowOK
    <3> DEFINE y == [x EXCEPT !.phase = "queued"]
    <3>4. entries' = [entries EXCEPT ![i] = y]
      BY <2>1, <3>2
    <3>10. Wrote(x, y, "queued", x.lane, x.pending, x.slot)
      <4>1. "queued" \in Phases
        BY DEF Phases
      <4> QED
        BY <3>3, <4>1, <1>PhaseRow, Zenon
    <3> HIDE DEF y
    <3>11. RowOK(y) /\ y.phase = "queued" /\ y.lane = x.lane /\ y.slot = x.slot
           /\ y.generation = x.generation /\ y.task = x.task
      BY <2>1, <3>1, <3>3, <3>10 DEF RowOK, Wrote
    <3>5. \A l : ~In(ready, i, l)
      BY <2>4, <3>1
    <3>6. /\ ready' \in Seq(ReadyLane) /\ Tidy(ready')
          /\ \A j, l : In(ready', j, l) <=> In(ready, j, l) \/ (j = i /\ l = x.lane)
      BY <2>1, <3>2, <3>3, <3>5, <1>EnqueuedLanes
    <3>7. \A j, l : In(ready', j, l) <=>
            (j # i /\ In(ready, j, l)) \/ (j = i /\ y.phase = "queued" /\ y.lane = l)
      BY <3>5, <3>6, <3>11, Zenon
    <3>8. running' = SlotsOf(running, x.slot, y.slot) /\ running' <= limit
      BY <2>1, <2>3, <3>11 DEF SlotsOf
    <3>9. Writes(i, y)
      BY <3>1, <3>4, <3>6, <3>7, <3>8, <3>11, Zenon DEF Writes
    <3>12. Agrees' /\ Moves(i) /\ entries'[i] = y
      BY <3>9, <1>Edit, Zenon
    <3> QED
      BY <2>3, <2>5, <3>1, <3>11, <3>12
  <2>6. CASE ~WakeEnqueues(r) /\ Live(r) /\ x.phase = "running"
    <3>1. i \in DOMAIN entries
      BY <2>6, Zenon DEF Live
    <3>2. entries' = [entries EXCEPT ![i].pending = TRUE] /\ ready' = ready
      BY <2>6, Zenon DEF Wake, Row
    <3>3. x \in Entry /\ x.lane \in Lanes
      BY <2>1, <2>6, <3>1 DEF RowOK
    <3> DEFINE y == [x EXCEPT !.pending = TRUE]
    <3>4. entries' = [entries EXCEPT ![i] = y]
      BY <2>1, <3>2
    <3>8. Wrote(x, y, x.phase, x.lane, TRUE, x.slot)
      BY <3>3, <1>PendingRow, Zenon
    <3> HIDE DEF y
    <3>9. RowOK(y) /\ y.phase = x.phase /\ y.lane = x.lane /\ y.slot = x.slot /\ y.pending
          /\ y.generation = x.generation /\ y.task = x.task
      BY <2>1, <3>1, <3>3, <3>8 DEF RowOK, Wrote
    <3>5. \A j, l : In(ready', j, l) <=>
            (j # i /\ In(ready, j, l)) \/ (j = i /\ y.phase = "queued" /\ y.lane = l)
      BY <2>4, <2>6, <3>2, <3>9
    <3>6. running' = SlotsOf(running, x.slot, y.slot) /\ running' <= limit
      BY <2>1, <2>3, <3>9 DEF SlotsOf
    <3>7. Writes(i, y)
      <4>1. ready' \in Seq(ReadyLane) /\ Tidy(ready')
        BY <2>1, <3>2, Zenon
      <4> QED
        BY <3>1, <3>4, <3>5, <3>6, <3>9, <4>1, Zenon DEF Writes
    <3>10. Agrees' /\ Moves(i) /\ entries'[i] = y
      BY <3>7, <1>Edit, Zenon
    <3> QED
      BY <2>3, <2>6, <3>2, <3>9, <3>10
  <2>7. CASE ~WakeEnqueues(r) /\ ~(Live(r) /\ x.phase = "running")
    <3>1. entries' = entries /\ ready' = ready
      BY <2>7, Zenon DEF Wake, Row
    <3>2. Agrees'
      BY <2>3, <3>1, Zenon DEF Agrees
    <3>3. Live(r) => Moves(i) /\ x.phase # "idle"
      BY <2>7, <3>1, Zenon DEF Moves, Live, WakeEnqueues, Row
    <3> QED
      BY <2>3, <2>7, <3>1, <3>2, <3>3
  <2> QED
    BY <2>5, <2>6, <2>7
<1>WithdrawalRows.
  ASSUME Agrees, NEW r, Withdrawal(r)
  PROVE  WithdrawalDoes(r)
  <2> USE <1>WithdrawalRows
  <2> USE DEF WithdrawalDoes
  <2> DEFINE i == r.index
             x == entries[i]
  <2>1. aborted' = aborted
    BY Zenon DEF Withdrawal
  <2>2. CASE ~Live(r)
    <3>1. entries' = entries /\ ready' = ready /\ running' = running
      BY <2>2, Zenon DEF Withdrawal
    <3>2. Agrees'
      BY <3>1, Zenon DEF Agrees
    <3> QED
      BY <2>1, <2>2, <3>1, <3>2
  <2>3. CASE Live(r)
    <3> DEFINE y == [x EXCEPT !.phase = "free", !.pending = FALSE, !.slot = FALSE]
    <3>1. i \in DOMAIN entries
      BY <2>3, Zenon DEF Live
    <3>2. /\ ready \in Seq(ReadyLane) /\ Tidy(ready) /\ running \in 0..limit
          /\ entries \in Seq(Entry) /\ x \in Entry /\ RowOK(x)
      BY <3>1, AgreesTyped, Zenon
    <3>3. /\ entries' = [entries EXCEPT ![i].phase = "free", ![i].pending = FALSE,
                                        ![i].slot = FALSE]
          /\ ready' = IF x.phase = "queued" THEN Unlinked(ready, i) ELSE ready
          /\ running' = IF x.slot THEN running - 1 ELSE running
      BY <2>3, Zenon DEF Withdrawal, Row
    <3>4. entries' = [entries EXCEPT ![i] = y]
      BY <3>3, Zenon
    <3>5. Wrote(x, y, "free", x.lane, FALSE, FALSE)
      <4>1. "free" \in Phases
        BY DEF Phases
      <4> QED
        BY <3>2, <4>1, <1>MovedRow, Zenon
    <3> HIDE DEF y
    <3>6. RowOK(y) /\ y.phase = "free" /\ ~y.slot /\ y.generation = x.generation
          /\ y.task = x.task
      BY <3>5 DEF RowOK, Wrote
    <3>7. \A j, l : In(ready, j, l) <=> Queued(entries, j, l)
      BY AgreeIn, Zenon DEF Agrees
    <3>8. /\ ready' \in Seq(ReadyLane) /\ Tidy(ready')
          /\ \A j, l : In(ready', j, l) <=> j # i /\ In(ready, j, l)
      <4>1. CASE x.phase = "queued"
        <5>1. In(ready, i, x.lane) /\ \A m : In(ready, i, m) => m = x.lane
          BY <3>1, <3>7, <4>1, Zenon DEF Queued
        <5>2. ready' = Unlinked(ready, i)
          BY <3>3, <4>1, Zenon
        <5>3. /\ Unlinked(ready, i) \in Seq(ReadyLane) /\ Tidy(Unlinked(ready, i))
              /\ \A j, m : In(Unlinked(ready, i), j, m) <=> In(ready, j, m) /\ j # i
          <6> HIDE DEF i, x
          <6> QED
            BY <3>2, <5>1, <1>UnlinkedLanes, Zenon
        <5> QED
          BY <5>2, <5>3, Zenon
      <4>2. CASE x.phase # "queued"
        <5>1. \A m : ~In(ready, i, m)
          BY <3>7, <4>2, Zenon DEF Queued
        <5>2. ready' = ready
          BY <3>3, <4>2, Zenon
        <5> QED
          BY <3>2, <5>1, <5>2, Zenon
      <4> QED
        BY <4>1, <4>2
    <3>9. running' = SlotsOf(running, x.slot, y.slot) /\ running' <= limit
      <4>1. running' = IF x.slot THEN running - 1 ELSE running
        BY <3>3, Zenon
      <4>2. running' <= limit
        BY <3>2, <4>1, DomainAssumption
      <4> QED
        BY <3>6, <4>1, <4>2, Zenon DEF SlotsOf
    <3>10. \A j, l : In(ready', j, l) <=>
             (j # i /\ In(ready, j, l)) \/ (j = i /\ y.phase = "queued" /\ y.lane = l)
      BY <3>6, <3>8
    <3>11. Writes(i, y)
      BY <3>1, <3>4, <3>6, <3>8, <3>9, <3>10, Zenon DEF Writes
    <3>12. Agrees' /\ Moves(i) /\ entries'[i] = y
      BY <3>11, <1>Edit, Zenon
    <3> QED
      BY <2>1, <2>3, <3>6, <3>12, Zenon
  <2> QED
    BY <2>2, <2>3
\* An active lane has an entry.
<1>ActiveLane.
  ASSUME NEW q \in Seq(ReadyLane), Tidy(q), NEW k \in DOMAIN q
  PROVE  /\ Head(q[k].tasks) = q[k].tasks[1] /\ 1 \in DOMAIN q[k].tasks
         /\ In(q, Head(q[k].tasks), q[k].lane)
  <2> USE <1>ActiveLane
  <2>1. q[k].tasks \in Seq(1..MaxIndex) /\ q[k].tasks # <<>>
    BY LaneOf, Zenon DEF Tidy
  <2>2. Head(q[k].tasks) = q[k].tasks[1] /\ 1 \in DOMAIN q[k].tasks
    BY <2>1
  <2> QED
    BY <2>2, Zenon DEF In
<1>Least.
  ASSUME NEW T, T \subseteq Nat, T # {}
  PROVE  \E x \in T : \A y \in T : x <= y
  BY <1>Least, Zenon DEF FiniteFacts, WellOrdered
<1>FirstServedIs.
  ASSUME NEW q \in Seq(ReadyLane), NEW served, \E k \in DOMAIN q : q[k].lane \in served
  PROVE  FirstServed(q, served) \in DOMAIN q /\ FirstServed(q, served) # 0
         /\ q[FirstServed(q, served)].lane \in served
  <2> USE <1>FirstServedIs
  <2> DEFINE T == {k \in DOMAIN q : q[k].lane \in served}
  <2>1. DOMAIN q = 1..Len(q) /\ \A k \in DOMAIN q : k \in Nat \ {0}
    OBVIOUS
  <2>2. PICK k \in T : \A j \in T : k <= j
    <3>1. T \subseteq Nat /\ T # {}
      BY <2>1
    <3> HIDE DEF T
    <3> QED
      BY <3>1, <1>Least, Zenon
  <2>3. \A j \in 1..(k - 1) : q[j].lane \notin served
    <3> SUFFICES ASSUME NEW j \in 1..(k - 1), q[j].lane \in served PROVE FALSE
      OBVIOUS
    <3>1. j \in DOMAIN q /\ ~(k <= j)
      BY <2>1, <2>2
    <3> QED
      BY <2>2, <3>1
  <2>4. k \in DOMAIN q /\ q[k].lane \in served
    BY <2>2
  <2>5. \E h \in DOMAIN q : q[h].lane \in served /\ \A j \in 1..(h - 1) : q[j].lane \notin served
    BY <2>3, <2>4, Zenon
  <2>6. FirstServed(q, served) \in DOMAIN q /\ q[FirstServed(q, served)].lane \in served
    BY <2>4, <2>5, Zenon DEF FirstServed
  <2> QED
    BY <2>1, <2>6
\* What acquisition finds.
<1>SelectedRow.
  ASSUME Agrees, NEW served, Selected(served) # None
  PROVE  LET k == FirstServed(ready, served)
             i == Selected(served).index
         IN /\ running # limit /\ k \in DOMAIN ready /\ ~NoWork(served)
            /\ i = Head(ready[k].tasks) /\ i \in DOMAIN entries
            /\ entries[i].phase = "queued" /\ Selected(served) = Of(i)
            /\ In(ready, i, ready[k].lane)
  <2> USE <1>SelectedRow
  <2> DEFINE k == FirstServed(ready, served)
             i == Head(ready[k].tasks)
  <2>1. running # limit /\ k # 0 /\ Selected(served) = Of(i)
    BY Zenon DEF Selected, Of
  <2>2. \E h \in DOMAIN ready : ready[h].lane \in served
    BY <2>1, Zenon DEF FirstServed
  <2>3. k \in DOMAIN ready /\ ready[k].lane \in served
    BY <2>2, AgreesTyped, <1>FirstServedIs, Zenon
  <2> HIDE DEF k
  <2>4. In(ready, i, ready[k].lane)
    BY <2>3, AgreesTyped, <1>ActiveLane, Zenon
  <2>5. i \in DOMAIN entries /\ entries[i].phase = "queued"
    <3> HIDE DEF i
    <3> QED
      BY <2>4, AgreeIn, Zenon DEF Agrees
  <2>6. Selected(served).index = i
    BY <2>1 DEF Of
  <2>7. ~NoWork(served)
    BY <2>1, <2>2, Zenon DEF NoWork
  <2> QED
    BY <2>1, <2>3, <2>4, <2>5, <2>6, <2>7, Zenon DEF k
<1>SelectedNone.
  ASSUME Agrees, NEW served, Selected(served) = None
  PROVE  NoWork(served)
  <2> USE <1>SelectedNone
  <2> SUFFICES ASSUME ~NoWork(served) PROVE FALSE
    OBVIOUS
  <2> DEFINE k == FirstServed(ready, served)
             i == Head(ready[k].tasks)
  <2>1. running # limit /\ \E h \in DOMAIN ready : ready[h].lane \in served
    BY Zenon DEF NoWork
  <2>2. k \in DOMAIN ready /\ k # 0
    BY <2>1, AgreesTyped, <1>FirstServedIs, Zenon
  <2>3. Selected(served) = Of(i)
    BY <2>1, <2>2, Zenon DEF Selected, Of
  <2> HIDE DEF k
  <2>4. In(ready, i, ready[k].lane)
    BY <2>2, AgreesTyped, <1>ActiveLane, Zenon
  <2>5. i \in DOMAIN entries /\ entries[i].phase = "queued"
    <3> HIDE DEF i
    <3> QED
      BY <2>4, AgreeIn, Zenon DEF Agrees
  <2>6. Of(i) # None
    BY <2>5, OfTyped
  <2> QED
    BY <2>3, <2>6
<1>AcquisitionRows.
  ASSUME Agrees, NEW served, Acquisition(served)
  PROVE  AcquisitionDoes(served)
  <2> USE <1>AcquisitionRows
  <2> USE DEF AcquisitionDoes
  <2>1. aborted' = aborted
    BY Zenon DEF Acquisition
  <2>2. CASE Selected(served) = None
    <3>1. entries' = entries /\ ready' = ready /\ running' = running
      BY <2>2, Zenon DEF Acquisition
    <3>2. Agrees'
      BY <3>1, Zenon DEF Agrees
    <3> QED
      BY <2>1, <2>2, <3>1, <3>2
  <2>3. CASE Selected(served) # None
    <3> DEFINE k == FirstServed(ready, served)
               i == Selected(served).index
               x == entries[i]
               y == [x EXCEPT !.phase = "running", !.pending = FALSE, !.slot = TRUE]
    <3>1. /\ running # limit /\ k \in DOMAIN ready /\ i = Head(ready[k].tasks)
          /\ i \in DOMAIN entries /\ x.phase = "queued" /\ Selected(served) = Of(i)
          /\ In(ready, i, ready[k].lane)
      BY <2>3, <1>SelectedRow, Zenon
    <3>2. /\ entries' = [entries EXCEPT ![i].phase = "running", ![i].pending = FALSE,
                                        ![i].slot = TRUE]
          /\ ready' = Served(ready, k) /\ running' = running + 1
      BY <2>3, Zenon DEF Acquisition
    <3>3. entries' = [entries EXCEPT ![i] = y]
      BY <3>2, Zenon
    <3> HIDE DEF k, i
    <3>4. /\ ready \in Seq(ReadyLane) /\ Tidy(ready) /\ running \in 0..limit
          /\ entries \in Seq(Entry) /\ x \in Entry /\ RowOK(x)
      BY <3>1, AgreesTyped, Zenon
    <3>5. Wrote(x, y, "running", x.lane, FALSE, TRUE)
      <4>1. "running" \in Phases
        BY SMTT(30) DEF Phases
      <4> QED
        BY <3>4, <4>1, <1>MovedRow, Zenon
    <3> HIDE DEF y
    <3>6. RowOK(y) /\ y.phase = "running" /\ y.slot /\ y.generation = x.generation
          /\ y.task = x.task /\ ~x.slot
      BY <3>1, <3>4, <3>5 DEF RowOK, Wrote
    <3>7. \A j, l : In(ready, j, l) <=> Queued(entries, j, l)
      BY AgreeIn, Zenon DEF Agrees
    <3>8. \A h \in DOMAIN ready \ {k} :
            \A m \in DOMAIN ready[h].tasks : ready[h].tasks[m] # Head(ready[k].tasks)
      <4> SUFFICES ASSUME NEW h \in DOMAIN ready \ {k}, NEW m \in DOMAIN ready[h].tasks,
                          ready[h].tasks[m] = i
                   PROVE  FALSE
        BY <3>1, Zenon
      <4>1. In(ready, i, ready[h].lane)
        BY Zenon DEF In
      <4>2. ready[h].lane = ready[k].lane
        BY <3>1, <3>7, <4>1, Zenon DEF Queued
      <4> QED
        BY <3>1, <3>4, <4>2, Zenon DEF Tidy
    <3>9. /\ ready' \in Seq(ReadyLane) /\ Tidy(ready')
          /\ \A j, l : In(ready', j, l) <=> In(ready, j, l) /\ j # i
      <4>1. /\ Served(ready, k) \in Seq(ReadyLane) /\ Tidy(Served(ready, k))
            /\ \A j, m : In(Served(ready, k), j, m)
                           <=> In(ready, j, m) /\ j # Head(ready[k].tasks)
        BY <3>1, <3>4, <3>8, <1>ServedLanes, Zenon
      <4> QED
        BY <3>1, <3>2, <4>1
    <3>10. running' = SlotsOf(running, x.slot, y.slot) /\ running' <= limit
      <4>1. running' <= limit
        BY <3>1, <3>2, <3>4, DomainAssumption
      <4> QED
        BY <3>2, <3>6, <4>1, Zenon DEF SlotsOf
    <3>11. \A j, l : In(ready', j, l) <=>
             (j # i /\ In(ready, j, l)) \/ (j = i /\ y.phase = "queued" /\ y.lane = l)
      BY <3>6, <3>9
    <3>12. Writes(i, y)
      BY <3>1, <3>3, <3>6, <3>9, <3>10, <3>11, Zenon DEF Writes
    <3>13. Agrees' /\ Moves(i) /\ entries'[i] = y
      BY <3>12, <1>Edit, Zenon
    <3>14. ASSUME NEW h \in DOMAIN ready'
           PROVE  \E g \in DOMAIN ready : ready'[h].lane = ready[g].lane
      <4>1. In(ready', Head(ready'[h].tasks), ready'[h].lane)
        BY <3>9, <1>ActiveLane, Zenon
      <4>2. In(ready, Head(ready'[h].tasks), ready'[h].lane)
        BY <3>9, <4>1, Zenon
      <4> QED
        BY <4>2, Zenon DEF In
    <3> QED
      BY <2>1, <2>3, <3>1, <3>6, <3>13, <3>14, Zenon DEF i
  <2> QED
    BY <2>2, <2>3
<1>ReleaseRows.
  ASSUME Agrees, NEW r, NEW lane \in Lanes, NEW cancellation, Release(r, lane, cancellation),
         Live(r), Row(r).phase = "running", Row(r).slot
  PROVE  ReleaseDoes(r)
  <2> USE <1>ReleaseRows
  <2> USE DEF ReleaseDoes
  <2> DEFINE i == r.index
             x == entries[i]
             again == x.pending \/ cancellation
             p == IF again THEN "queued" ELSE "idle"
             y == [x EXCEPT !.phase = p, !.slot = FALSE, !.pending = FALSE, !.lane = lane]
  <2>1. i \in DOMAIN entries /\ x.phase = "running" /\ x.slot
    BY Zenon DEF Live, Row
  <2>2. /\ ready \in Seq(ReadyLane) /\ Tidy(ready) /\ running \in 0..limit
        /\ entries \in Seq(Entry) /\ x \in Entry /\ RowOK(x) /\ i \in 1..MaxIndex
    BY <2>1, AgreesTyped, Zenon
  <2>3. /\ entries' = [entries EXCEPT ![i].phase = p, ![i].slot = FALSE, ![i].pending = FALSE,
                                      ![i].lane = lane]
        /\ ready' = IF again THEN Enqueued(ready, i, lane) ELSE ready
        /\ running' = running - 1 /\ aborted' = aborted
    BY <2>1, Zenon DEF Release, Row
  <2>4. entries' = [entries EXCEPT ![i] = y]
    BY <2>3, Zenon
  <2>5. p \in Phases /\ p \in {"queued", "idle"} /\ (p = "queued" <=> again)
    BY DEF Phases
  <2> HIDE DEF p
  <2>6. Wrote(x, y, p, lane, FALSE, FALSE)
    BY <2>2, <2>5, <1>ReleasedRow, Zenon
  <2> HIDE DEF y
  <2>7. RowOK(y) /\ y.phase = p /\ ~y.slot /\ y.lane = lane /\ y.generation = x.generation
        /\ y.task = x.task
    BY <2>1, <2>2, <2>6 DEF RowOK, Wrote
  <2>8. \A l : ~In(ready, i, l)
    <3>1. \A j, l : In(ready, j, l) <=> Queued(entries, j, l)
      BY AgreeIn, Zenon DEF Agrees
    <3> QED
      BY <2>1, <3>1, Zenon DEF Queued
  <2> HIDE DEF again
  <2>9. /\ ready' \in Seq(ReadyLane) /\ Tidy(ready')
        /\ \A j, l : In(ready', j, l) <=> In(ready, j, l) \/ (j = i /\ again /\ l = lane)
    <3>1. CASE again
      <4>1. /\ Enqueued(ready, i, lane) \in Seq(ReadyLane) /\ Tidy(Enqueued(ready, i, lane))
            /\ \A j, m : In(Enqueued(ready, i, lane), j, m)
                           <=> In(ready, j, m) \/ (j = i /\ m = lane)
        BY <2>2, <2>8, <1>EnqueuedLanes
      <4> QED
        BY <2>3, <3>1, <4>1, Zenon
    <3>2. CASE ~again
      BY <2>2, <2>3, <3>2, Zenon
    <3> QED
      BY <3>1, <3>2
  <2>10. \A j, l : In(ready', j, l) <=>
           (j # i /\ In(ready, j, l)) \/ (j = i /\ y.phase = "queued" /\ y.lane = l)
    BY <2>5, <2>7, <2>8, <2>9, Zenon
  <2>11. running' = SlotsOf(running, x.slot, y.slot) /\ running' <= limit
    <3>1. running' <= limit
      BY <2>2, <2>3, DomainAssumption
    <3> QED
      BY <2>1, <2>3, <2>7, <3>1, Zenon DEF SlotsOf
  <2>12. Writes(i, y)
    BY <2>1, <2>4, <2>7, <2>9, <2>10, <2>11, Zenon DEF Writes
  <2>13. Agrees' /\ Moves(i) /\ entries'[i] = y
    BY <2>12, <1>Edit, Zenon
  <2>14. x.pending => again
    BY Zenon DEF again
  <2> QED
    BY <2>3, <2>5, <2>7, <2>13, <2>14, Zenon
\* slot_release and slot_acquisition write only the slot of a running row.
<1>SlotRows.
  ASSUME Agrees, NEW i, NEW b \in BOOLEAN, i \in DOMAIN entries, entries[i].phase = "running",
         entries' = [entries EXCEPT ![i].slot = b], ready' = ready,
         running' = SlotsOf(running, entries[i].slot, b), running' <= limit
  PROVE  /\ Agrees' /\ Moves(i) /\ entries'[i].phase = "running" /\ entries'[i].slot = b
         /\ entries'[i].pending = entries[i].pending
  <2> USE <1>SlotRows
  <2> DEFINE x == entries[i]
             y == [x EXCEPT !.slot = b]
  <2>1. /\ ready \in Seq(ReadyLane) /\ Tidy(ready) /\ entries \in Seq(Entry)
        /\ x \in Entry /\ RowOK(x)
    BY AgreesTyped, Zenon
  <2>2. entries' = [entries EXCEPT ![i] = y]
    BY Zenon
  <2>3. Wrote(x, y, x.phase, x.lane, x.pending, b)
    BY <2>1, <1>SlotRow, Zenon
  <2> HIDE DEF y
  <2>4. RowOK(y) /\ y.phase = "running" /\ y.slot = b /\ y.pending = x.pending
        /\ y.lane = x.lane /\ y.generation = x.generation /\ y.task = x.task
    BY <2>1, <2>3 DEF RowOK, Wrote
  <2>5. \A l : ~In(ready, i, l)
    <3>1. \A j, l : In(ready, j, l) <=> Queued(entries, j, l)
      BY AgreeIn, Zenon DEF Agrees
    <3> QED
      BY <3>1, Zenon DEF Queued
  <2>6. \A j, l : In(ready', j, l) <=>
          (j # i /\ In(ready, j, l)) \/ (j = i /\ y.phase = "queued" /\ y.lane = l)
    BY <2>4, <2>5
  <2>7. Writes(i, y)
    BY <2>1, <2>2, <2>4, <2>6, Zenon DEF Writes
  <2>8. Agrees' /\ Moves(i) /\ entries'[i] = y
    BY <2>7, <1>Edit, Zenon
  <2> QED
    BY <2>4, <2>8, Zenon
<1>SlotReleaseRows.
  ASSUME Agrees, NEW r, Lends(r), SlotRelease(r)
  PROVE  SlotReleaseDoes(r)
  <2> USE <1>SlotReleaseRows
  <2> USE DEF SlotReleaseDoes
  <2>1. r.index \in DOMAIN entries /\ entries[r.index].slot
    BY Zenon DEF Lends, Live, Row
  <2>2. entries[r.index].phase = "running" /\ running \in 0..limit
    BY <2>1, AgreesTyped, Zenon DEF RowOK
  <2>3. /\ entries' = [entries EXCEPT ![r.index].slot = FALSE] /\ running' = running - 1
        /\ ready' = ready /\ aborted' = aborted
    BY <2>2, Zenon DEF SlotRelease, Row
  <2>4. running' = SlotsOf(running, entries[r.index].slot, FALSE) /\ running' <= limit
    BY <2>1, <2>2, <2>3, DomainAssumption DEF SlotsOf
  <2>5. /\ Agrees' /\ Moves(r.index) /\ entries'[r.index].phase = "running"
        /\ entries'[r.index].slot = FALSE /\ entries'[r.index].pending = entries[r.index].pending
    BY <2>1, <2>2, <2>3, <2>4, <1>SlotRows, Zenon
  <2> QED
    BY <2>2, <2>3, <2>5, Zenon
<1>SlotAcquisitionRows.
  ASSUME Agrees, NEW r, SlotAcquisition(r),
         Live(r) => Row(r).phase = "running" /\ ~Row(r).slot
  PROVE  SlotAcquisitionDoes(r)
  <2> USE <1>SlotAcquisitionRows
  <2> USE DEF SlotAcquisitionDoes
  <2>1. CASE SlotStatus(r) # 1
    <3>1. entries' = entries /\ running' = running /\ ready' = ready /\ aborted' = aborted
      BY <2>1, Zenon DEF SlotAcquisition, domain
    <3>2. Agrees'
      BY <3>1, Zenon DEF Agrees
    <3> QED
      BY <2>1, <3>1, <3>2
  <2>2. CASE SlotStatus(r) = 1
    <3>1. Live(r) /\ running # limit
      BY <2>2 DEF SlotStatus
    <3>2. r.index \in DOMAIN entries /\ entries[r.index].phase = "running"
          /\ ~entries[r.index].slot
      BY <3>1, Zenon DEF Live, Row
    <3>3. /\ entries' = [entries EXCEPT ![r.index].slot = TRUE] /\ running' = running + 1
          /\ ready' = ready /\ aborted' = aborted
      BY <2>2, <3>2, Zenon DEF SlotAcquisition, Row
    <3>4. running \in 0..limit
      BY AgreesTyped, Zenon
    <3>5. running' = SlotsOf(running, entries[r.index].slot, TRUE) /\ running' <= limit
      BY <3>1, <3>2, <3>3, <3>4, DomainAssumption DEF SlotsOf
    <3>6. /\ Agrees' /\ Moves(r.index) /\ entries'[r.index].phase = "running"
          /\ entries'[r.index].slot = TRUE
          /\ entries'[r.index].pending = entries[r.index].pending
      BY <3>2, <3>3, <3>5, <1>SlotRows, Zenon
    <3> QED
      BY <2>2, <3>1, <3>3, <3>6, Zenon
  <2> QED
    BY <2>1, <2>2, SMTT(30)
<1>GrownRows.
  ASSUME NEW rows, NEW q, NEW n, Agree(rows, q, n)
  PROVE  /\ Agree(Grown(rows), q, n)
         /\ DOMAIN rows \subseteq DOMAIN Grown(rows)
         /\ \A i \in DOMAIN rows : Grown(rows)[i] = rows[i]
         /\ \A i \in DOMAIN Grown(rows) \ DOMAIN rows : Grown(rows)[i] = EmptyEntry
  <2> USE <1>GrownRows
  <2>1. /\ rows \in Seq(Entry) /\ Len(rows) <= MaxIndex
        /\ \A i \in DOMAIN rows : RowOK(rows[i])
        /\ q \in Seq(ReadyLane) /\ Tidy(q) /\ n = Cardinality(Slots(rows)) /\ n <= limit
    BY Zenon DEF Agree
  <2>2. CASE Usable(rows) # {}
    <3>1. Grown(rows) = rows
      BY <2>2, Zenon DEF Grown
    <3> QED
      BY <3>1, Zenon
  <2>3. CASE Usable(rows) = {}
    <3> DEFINE wanted == IF Len(rows) = 0 THEN 1 ELSE 2 * Len(rows)
               size == IF wanted > MaxIndex THEN MaxIndex ELSE wanted
               new == Grown(rows)
    <3>1. new = [i \in 1..size |-> IF i \in DOMAIN rows THEN rows[i] ELSE EmptyEntry]
      BY <2>3, Zenon DEF Grown
    <3>2. size \in Nat /\ Len(rows) <= size /\ size <= MaxIndex /\ DOMAIN rows = 1..Len(rows)
          /\ Len(rows) \in Nat
      BY <2>1, DomainAssumption, SMTT(30)
    <3> HIDE DEF size
    <3>3. /\ EmptyEntry \in Entry /\ EmptyEntry.phase = "free" /\ ~EmptyEntry.slot
          /\ RowOK(EmptyEntry)
      BY DomainAssumption DEF EmptyEntry, Entry, Phases, RowOK
    <3>4. DOMAIN new = 1..size /\ DOMAIN rows \subseteq DOMAIN new
      BY <3>1, <3>2
    <3>5. /\ \A i \in DOMAIN rows : new[i] = rows[i]
          /\ \A i \in DOMAIN new \ DOMAIN rows : new[i] = EmptyEntry
      BY <3>1, <3>4, Zenon
    <3>10. new \in [1..size -> Entry]
      <4>1. \A i \in 1..size : new[i] \in Entry
        BY <2>1, <3>3, <3>4, <3>5, Zenon DEF RowOK
      <4> QED
        BY <3>1, <4>1, Zenon
    <3> HIDE DEF new
    <3>6. new \in Seq(Entry) /\ Len(new) = size
      BY <3>2, <3>10, <1>FunctionSeq, Zenon
    <3>7. \A i \in DOMAIN new : RowOK(new[i])
      BY <2>1, <3>3, <3>5, Zenon
    <3>8. Slots(new) = Slots(rows)
      BY <3>3, <3>4, <3>5 DEF Slots
    <3>9. ASSUME NEW i, NEW l PROVE Queued(new, i, l) <=> Queued(rows, i, l)
      BY <3>3, <3>4, <3>5 DEF Queued
    <3>11. \A i \in 1..MaxIndex, l \in Lanes : In(q, i, l) <=> Queued(new, i, l)
      BY <3>9, AgreeIn, Zenon
    <3>12. Agree(new, q, n)
      BY <2>1, <3>2, <3>6, <3>7, <3>8, <3>11, Zenon DEF Agree
    <3> QED
      BY <3>4, <3>5, <3>12, Zenon DEF new
  <2> QED
    BY <2>2, <2>3
<1>AdmissionRows.
  ASSUME Agrees, NEW t \in Tasks, NEW lane \in Lanes, NEW r \in Registrations,
         Admission(t, lane, r)
  PROVE  AdmissionDoes(t, r)
  <2> USE <1>AdmissionRows
  <2> USE DEF AdmissionDoes
  <2> DEFINE i == r.index
             rows == Grown(entries)
             x == [generation |-> r.generation, phase |-> "idle", task |-> t, lane |-> lane,
                   pending |-> FALSE, slot |-> FALSE]
  <2>1. /\ i \in Usable(rows) /\ r.generation = rows[i].generation + 1
        /\ entries' = [rows EXCEPT ![i] = x]
        /\ ready' = ready /\ running' = running /\ aborted' = aborted
    BY Zenon DEF Admission
  <2>2. /\ Agree(rows, ready, running) /\ DOMAIN entries \subseteq DOMAIN rows
        /\ \A j \in DOMAIN entries : rows[j] = entries[j]
        /\ \A j \in DOMAIN rows \ DOMAIN entries : rows[j] = EmptyEntry
    BY <1>GrownRows, Zenon DEF Agrees
  <2>3. r.generation \in 1..MaxGeneration
    BY DEF Registrations
  <2>4. x \in Entry
    BY <2>3 DEF Entry, Phases
  <2>5. x.generation = r.generation /\ x.phase = "idle" /\ x.task = t /\ x.lane = lane /\ ~x.slot
    OBVIOUS
  <2> HIDE DEF rows, x
  <2>6. RowOK(x)
    BY <2>3, <2>4, <2>5 DEF RowOK
  <2>7. i \in DOMAIN rows /\ rows[i].phase = "free"
    BY <2>1, Zenon DEF Usable
  <2>8. rows \in Seq(Entry) /\ RowOK(rows[i]) /\ ready \in Seq(ReadyLane) /\ Tidy(ready)
    BY <2>2, <2>7, Zenon DEF Agree
  <2>9. ~rows[i].slot /\ rows[i].generation \in Nat
    BY <2>7, <2>8, RowTyped, SMTT(30) DEF RowOK
  <2>10. \A j, l : In(ready, j, l) <=>
           (j # i /\ In(ready, j, l)) \/ (j = i /\ x.phase = "queued" /\ x.lane = l)
    <3>1. \A l : ~In(ready, i, l)
      <4>1. \A j, l : In(ready, j, l) <=> Queued(rows, j, l)
        BY <2>2, AgreeIn, Zenon
      <4> QED
        BY <2>7, <4>1, Zenon DEF Queued
    <3> QED
      BY <2>5, <3>1
  <2>11. SlotsOf(running, rows[i].slot, x.slot) = running /\ running <= limit
    BY <2>2, <2>5, <2>9, Zenon DEF SlotsOf, Agree
  <2>12. Agree([rows EXCEPT ![i] = x], ready, SlotsOf(running, rows[i].slot, x.slot))
    <3>1. SlotsOf(running, rows[i].slot, x.slot) <= limit
      BY <2>11, Zenon
    <3> QED
      BY <2>2, <2>6, <2>7, <2>8, <2>10, <3>1, <1>AgreeChange, Zenon
  <2>13. Agrees'
    BY <2>1, <2>11, <2>12, Zenon DEF Agrees
  <2>14. /\ DOMAIN entries' = DOMAIN rows /\ entries'[i] = x
         /\ \A j \in DOMAIN rows \ {i} : entries'[j] = rows[j]
    BY <2>1, <2>7, <2>8, SMTT(30)
  <2>15. \A j \in DOMAIN entries' \ DOMAIN entries : j # i => entries'[j].phase = "free"
    BY <2>2, <2>14, SMTT(30) DEF EmptyEntry
  <2>16. i \in DOMAIN entries => entries[i].phase = "free" /\ entries[i].generation < r.generation
    BY <2>1, <2>2, <2>7, <2>9, SMTT(30)
  <2>17. \A j \in DOMAIN entries \ {i} : entries'[j] = entries[j]
    BY <2>2, <2>14
  <2> QED
    BY <2>1, <2>2, <2>5, <2>7, <2>13, <2>14, <2>15, <2>16, <2>17, Zenon
<1> QED
  BY <1>WakeRows, <1>WithdrawalRows, <1>AcquisitionRows, <1>SelectedNone, <1>ReleaseRows,
     <1>SlotReleaseRows, <1>SlotAcquisitionRows, <1>AdmissionRows, Zenon DEF DomainFacts

-----------------------------------------------------------------------------
(* The inductive invariant.                                                 *)

\* The admissions that are still to be bound or withdrawn.
Binds == {c \in calls : c.op \in {"bind", "withdraw"}}

\* A registration that was bound once: no later admission has it again.
Handed(r) ==
  /\ r \in Registrations
  /\ r.index \in DOMAIN entries /\ r.generation <= entries[r.index].generation
  /\ \A c \in Binds : c.registration # r

NativeOK ==
  /\ bindings \in [Tasks -> MaybeRegistration] /\ requested \subseteq Tasks
  /\ timers \subseteq Timer /\ IsFiniteSet(timers) /\ Cardinality(timers) <= MaxTimers
  /\ now \in 0..MaxTime /\ stimuli \in 0..MaxStimuli /\ due \subseteq Registrations
  /\ calls \subseteq Call
  /\ \A c \in calls : IF c.op = "signal" THEN c = Called("signal", None, None)
                      ELSE c.task \in Tasks /\ c.registration \in Registrations

\* Where a thread is says whether it is registered, has a dispatch and comes
\* for work or for its slot.
Place(th) ==
  /\ th.pc \in {"off", "start", "promote", "fire", "pop", "deadline"} => th.dispatch = None
  /\ th.pc \in {"run", "reclaim", "slot"} => th.dispatch # None
  /\ th.pc \in {"wait", "asleep", "leave"} => (th.dispatch = None <=> th.after = "start")
  /\ th.pc \in {"wait", "asleep"} => th.after # "run"
  /\ th.pc \in {"promote", "fire", "pop", "deadline"} => th.after = "start"
  /\ th.pc = "slot" => th.after = "reclaim"
  /\ th.pc \in {"off", "start", "run", "reclaim"} => th.group = 2
  /\ th.pc = "fire" => th.timer \in Registrations

ThreadsOK == threads \in [Workers -> Thread] /\ \A w \in Workers : Place(threads[w])

Members(g) == {w \in Workers : threads[w].group = g}

ParkingOK ==
  /\ signals \subseteq Groups /\ notices \subseteq Groups /\ waiters \in [Groups -> Nat]
  /\ \A g \in Groups : waiters[g] = Cardinality(Members(g)) /\ (g \in signals => waiters[g] # 0)

\* A dispatch has one holder, which has the slot unless it lent it.
Holding(th) == th.pc = "run" \/ (th.pc = "leave" /\ th.after = "run")

HasDispatch(w) ==
  \A r \in Registrations : threads[w].dispatch = r =>
    /\ Handed(r)
    /\ Live(r) => /\ entries[r.index].phase = "running"
                  /\ entries[r.index].slot <=> Holding(threads[w])
    /\ \A v \in Workers : threads[v].dispatch = r => v = w

Dispatches ==
  /\ \A w \in Workers : HasDispatch(w)
  /\ \A i \in DOMAIN entries : entries[i].phase = "running" =>
       \E w \in Workers : threads[w].dispatch = Of(i)

\* An entry is bound, or about to be bound or withdrawn and not woken yet.
Bindings ==
  /\ \A t \in Tasks, r \in Registrations : bindings[t] = r =>
       Handed(r) /\ Live(r) /\ entries[r.index].task = t
  /\ \A i \in DOMAIN entries : entries[i].phase # "free" =>
       \/ bindings[entries[i].task] = Of(i)
       \/ \E c \in Binds : c.registration = Of(i)
  /\ \A c \in Binds :
       /\ Live(c.registration) /\ entries[c.registration.index].phase = "idle"
       /\ entries[c.registration.index].task = c.task
       /\ \A d \in Binds : d.registration = c.registration => d = c

\* Wakes under way are for registrations that were bound.
References ==
  /\ \A c \in calls : c.op \in {"wake", "observe"} => Handed(c.registration)
  /\ \A u \in timers : Handed(u.registration)
  /\ \A w \in Workers, r \in Registrations :
       threads[w].pc = "fire" /\ threads[w].timer = r => Handed(r)

Woken(x) == x.phase = "queued" \/ (x.phase = "running" /\ x.pending)

Wakes == \A r \in due : Live(r) /\ Woken(entries[r.index])

\* A thread that found nothing is signalled before there is something.
Nothing(w) ==
  IF Reclaims(w)
  THEN \A r \in Registrations : threads[w].dispatch = r => Live(r) /\ running = limit
  ELSE /\ NoWork(Serves[w])
       /\ threads[w].pc # "deadline" =>
            \/ \A u \in timers : threads[w].until <= u.deadline
            \/ Called("signal", None, None) \in calls

LooksAt(w) ==
  /\ (threads[w].pc \in {"deadline", "wait", "asleep"}
      /\ threads[w].group \notin signals \cup {2}) => Nothing(w)
  /\ (threads[w].pc = "asleep" /\ threads[w].group \in signals) =>
       threads[w].group \in notices

Looks == \A w \in Workers : LooksAt(w)

Registered == Agrees /\ NativeOK /\ Bindings

Core == /\ Agrees /\ ~aborted /\ NativeOK
        /\ Dispatches /\ Bindings /\ References /\ Wakes

SchedInv == Core /\ ThreadsOK /\ ParkingOK /\ Looks

-----------------------------------------------------------------------------
(* What a step may do.                                                      *)

\* A row that moves between the phases of a live entry.
MovesLive(i) == Moves(i) /\ entries[i].phase # "free" /\ entries'[i].phase # "free"

\* Generations only grow, and no admission that is still to be bound is new.
Steady ==
  /\ DOMAIN entries \subseteq DOMAIN entries'
  /\ \A j \in DOMAIN entries : entries'[j].generation = entries[j].generation
  /\ Binds' \subseteq Binds

\* No step of the domain starts, ends or lends a dispatch.
RunsKept ==
  /\ \A r \in Registrations : Handed(r) =>
       /\ Handed(r)'
       /\ Live(r)' => /\ Live(r)
                      /\ entries[r.index].phase = "running" =>
                           /\ entries'[r.index].phase = "running"
                           /\ entries'[r.index].slot <=> entries[r.index].slot
  /\ \A j \in DOMAIN entries' : entries'[j].phase = "running" =>
       j \in DOMAIN entries /\ entries[j].phase = "running" /\ Of(j)' = Of(j)

Keeps(v) == /\ threads'[v].dispatch = threads[v].dispatch
            /\ Holding(threads'[v]) <=> Holding(threads[v])

\* Without a signal a step makes nothing available.
Quiet ==
  /\ UNCHANGED parking
  /\ \A r \in Registrations : Live(r) /\ running = limit => Live(r)' /\ running' = limit
  /\ \A served : NoWork(served) => NoWork(served)'
  /\ timers' \subseteq timers \/ Called("signal", None, None) \in calls'
  /\ Called("signal", None, None) \in calls => Called("signal", None, None) \in calls'

Changed(x, c) == [f \in DOMAIN x |-> IF f \in DOMAIN c THEN c[f] ELSE x[f]]

\* Only thread w moves.
Alone(w) == \A v \in Workers \ {w} : threads'[v] = threads[v]

\* A step that only moves threads; Walks(w) only moves thread w.
Rests ==
  /\ \A v \in Workers : Keeps(v) /\ (threads'[v].pc = "fire" => threads'[v] = threads[v])
  /\ UNCHANGED <<domain, native, outside, calls, due>>

Walks(w) ==
  /\ Alone(w) /\ Keeps(w) /\ threads'[w].pc # "fire"
  /\ UNCHANGED <<domain, native, outside, calls, due>>

Places == {"off", "start", "promote", "fire", "pop", "deadline", "reclaim", "slot", "wait",
           "asleep", "leave", "run"}

\* What a domain operation keeps of the invariant.
Held == Agrees /\ ~aborted /\ Dispatches /\ Bindings /\ Wakes /\ due \subseteq Registrations

HandedKept == \A q : Handed(q) => Handed(q)'

-----------------------------------------------------------------------------
(* The initial state.                                                       *)

LEMMA RegistrationNotNone == \A r \in Registrations : r # None
  BY DomainAssumption, Zenon DEF Registrations

LEMMA InitSchedInv ==
  ASSUME FiniteFacts, Init
  PROVE  SchedInv
<1>1. /\ entries = <<>> /\ ready = <<>> /\ running = 0 /\ aborted = FALSE
      /\ signals = {} /\ notices = {} /\ waiters = [g \in Groups |-> 0]
      /\ bindings = [t \in Tasks |-> None] /\ timers = {} /\ requested = {}
      /\ now = 0 /\ stimuli = 0 /\ calls = {} /\ due = {}
      /\ threads \in [Workers -> {NewThread("off"), NewThread("start")}]
  BY Zenon DEF Init, DomainInit
<1>2. DOMAIN entries = {} /\ DOMAIN ready = {} /\ Len(entries) = 0
      /\ entries \in Seq(Entry) /\ ready \in Seq(ReadyLane)
  BY <1>1
<1>3. Agrees
  <2>1. Slots(entries) = {}
    BY <1>2, Zenon DEF Slots
  <2>2. running = Cardinality(Slots(entries)) /\ running <= limit /\ Len(entries) <= MaxIndex
    <3>1. Cardinality(Slots(entries)) = 0
      BY <2>1, FiniteEmpty, Zenon
    <3>2. 0 <= limit /\ 0 <= MaxIndex
      BY DomainAssumption, SMTT(30)
    <3> QED
      BY <1>1, <1>2, <3>1, <3>2, Zenon
  <2> QED
    BY <1>2, <2>2, Zenon DEF Agrees, Agree, Tidy, In, Queued
<1>4. ASSUME NEW w \in Workers
      PROVE  /\ threads[w] \in Thread /\ Place(threads[w])
             /\ threads[w].dispatch = None /\ threads[w].group = 2
             /\ threads[w].pc \in {"off", "start"}
  <2>1. threads[w] = NewThread("off") \/ threads[w] = NewThread("start")
    BY <1>1, <1>4, Zenon
  <2> QED
    BY <2>1, RunAssumption DEF NewThread, Thread, Place, NoTime, MaybeRegistration
<1>5. ThreadsOK
  <2>1. threads \in [Workers -> Thread]
    BY <1>1, <1>4, Zenon
  <2> QED
    BY <1>4, <2>1, Zenon DEF ThreadsOK
<1>6. NativeOK
  <2>1. IsFiniteSet({}) /\ Cardinality({}) <= MaxTimers
    BY FiniteEmpty, RunAssumption
  <2>2. 0 \in 0..MaxTime /\ 0 \in 0..MaxStimuli
    BY RunAssumption
  <2>3. bindings \in [Tasks -> MaybeRegistration]
    BY <1>1, Zenon DEF MaybeRegistration
  <2> QED
    BY <1>1, <2>1, <2>2, <2>3, Zenon DEF NativeOK
<1>7. ParkingOK
  <2>1. ASSUME NEW g \in Groups PROVE Cardinality(Members(g)) = 0
    <3>1. g # 2
      BY <2>1 DEF Groups
    <3>2. Members(g) = {}
      BY <1>4, <3>1, Zenon DEF Members
    <3> QED
      BY <3>2, FiniteEmpty, Zenon
  <2>2. waiters \in [Groups -> Nat]
    BY <1>1
  <2> QED
    BY <1>1, <2>1, <2>2, Zenon DEF ParkingOK
<1>8. Dispatches
  <2>1. ASSUME NEW w \in Workers PROVE HasDispatch(w)
    BY <1>4, <2>1, RegistrationNotNone, Zenon DEF HasDispatch
  <2> QED
    BY <1>2, <2>1, Zenon DEF Dispatches
<1>9. Bindings
  <2>1. Binds = {}
    BY <1>1, Zenon DEF Binds
  <2> QED
    BY <1>1, <1>2, <2>1, RegistrationNotNone, Zenon DEF Bindings
<1>10. References
  <2>1. \A w \in Workers : threads[w].pc # "fire"
    BY <1>4
  <2> QED
    BY <1>1, <2>1, Zenon DEF References
<1>11. Wakes
  BY <1>1, Zenon DEF Wakes
<1>12. Looks
  <2>1. \A w \in Workers : threads[w].pc \notin {"deadline", "wait", "asleep"}
    BY <1>4
  <2> QED
    BY <2>1, Zenon DEF Looks, LooksAt
<1> QED
  BY <1>1, <1>3, <1>5, <1>6, <1>7, <1>8, <1>9, <1>10, <1>11, <1>12, Zenon DEF SchedInv, Core

-----------------------------------------------------------------------------
(* Steps that leave the domain alone.                                       *)

LEMMA DispatchesStay ==
  ASSUME Dispatches, RunsKept, \A v \in Workers : Keeps(v)
  PROVE  Dispatches'
<1>1. ASSUME NEW w \in Workers, NEW r \in Registrations, threads'[w].dispatch = r
      PROVE  /\ Handed(r)'
             /\ Live(r)' => /\ entries'[r.index].phase = "running"
                            /\ entries'[r.index].slot <=> Holding(threads'[w])
             /\ \A v \in Workers : threads'[v].dispatch = r => v = w
  <2>1. threads[w].dispatch = r /\ (Holding(threads'[w]) <=> Holding(threads[w]))
        /\ \A v \in Workers : threads'[v].dispatch = threads[v].dispatch
    BY <1>1, Zenon DEF Keeps
  <2>2. /\ Handed(r)
        /\ Live(r) => /\ entries[r.index].phase = "running"
                      /\ entries[r.index].slot <=> Holding(threads[w])
        /\ \A v \in Workers : threads[v].dispatch = r => v = w
    BY <2>1, Zenon DEF Dispatches, HasDispatch
  <2>3. /\ Handed(r)'
        /\ Live(r)' => /\ Live(r)
                       /\ entries[r.index].phase = "running" =>
                            /\ entries'[r.index].phase = "running"
                            /\ entries'[r.index].slot <=> entries[r.index].slot
    BY <2>2, Zenon DEF RunsKept
  <2> QED
    BY <2>1, <2>2, <2>3, Zenon
<1>2. ASSUME NEW j \in DOMAIN entries', entries'[j].phase = "running"
      PROVE  \E w \in Workers : threads'[w].dispatch = Of(j)'
  <2>1. j \in DOMAIN entries /\ entries[j].phase = "running" /\ Of(j)' = Of(j)
    BY <1>2, Zenon DEF RunsKept
  <2>2. PICK w \in Workers : threads[w].dispatch = Of(j)
    BY <2>1, Zenon DEF Dispatches
  <2> QED
    BY <2>1, <2>2, Zenon DEF Keeps
<1>3. ASSUME NEW w \in Workers PROVE HasDispatch(w)'
  BY <1>1, Zenon DEF HasDispatch
<1> QED
  BY <1>2, <1>3, Zenon DEF Dispatches

LEMMA BindingsUnchanged ==
  ASSUME Bindings, entries' = entries, bindings' = bindings, Binds' = Binds
  PROVE  Bindings'
<1>1. ASSUME NEW r PROVE (Live(r)' <=> Live(r)) /\ (Handed(r)' <=> Handed(r))
  BY Zenon DEF Live, Handed
<1>2. ASSUME NEW j PROVE Of(j)' = Of(j)
  BY Zenon DEF Of
<1> QED
  BY <1>1, <1>2, Zenon DEF Bindings

LEMMA ThreadTyped ==
  ASSUME SchedInv, NEW w \in Workers
  PROVE  threads[w] \in Thread /\ Place(threads[w])
  BY Zenon DEF SchedInv, ThreadsOK

LEMMA WakesUnchanged ==
  ASSUME Wakes, entries' = entries, due' \subseteq due
  PROVE  Wakes'
  BY Zenon DEF Wakes, Live

LEMMA ReferencesStay ==
  ASSUME References, \A r : Handed(r) => Handed(r)',
         \A c \in calls' : c.op \in {"wake", "observe"} => c \in calls \/ Handed(c.registration)',
         \A u \in timers' : u \in timers \/ Handed(u.registration)',
         \A w \in Workers, r \in Registrations : threads'[w].pc = "fire" /\ threads'[w].timer = r =>
           (threads[w].pc = "fire" /\ threads[w].timer = r) \/ Handed(r)'
  PROVE  References'
<1>1. ASSUME NEW c \in calls', c.op \in {"wake", "observe"} PROVE Handed(c.registration)'
  BY <1>1, Zenon DEF References
<1>2. ASSUME NEW u \in timers' PROVE Handed(u.registration)'
  BY <1>2, Zenon DEF References
<1>3. ASSUME NEW w \in Workers, NEW r \in Registrations, threads'[w].pc = "fire",
             threads'[w].timer = r
      PROVE  Handed(r)'
  BY <1>3, Zenon DEF References
<1> QED
  BY <1>1, <1>2, <1>3, Zenon DEF References

LEMMA HandedStays ==
  ASSUME Steady, NEW r, Handed(r)
  PROVE  Handed(r)'
  BY Zenon DEF Steady, Handed

LEMMA RunsUnchanged ==
  ASSUME entries' = entries, Binds' \subseteq Binds
  PROVE  RunsKept
<1>1. Steady
  BY Zenon DEF Steady
<1>2. ASSUME NEW r PROVE Live(r)' <=> Live(r)
  BY Zenon DEF Live
<1>3. ASSUME NEW j PROVE Of(j)' = Of(j)
  BY Zenon DEF Of
<1> QED
  BY <1>1, <1>2, <1>3, HandedStays, Zenon DEF RunsKept

LEMMA RestsCore ==
  ASSUME Core, Rests
  PROVE  Core'
<1>1. /\ entries' = entries /\ ready' = ready /\ running' = running /\ aborted' = aborted
      /\ bindings' = bindings /\ timers' = timers /\ requested' = requested
      /\ now' = now /\ stimuli' = stimuli /\ calls' = calls /\ due' = due
  BY Zenon DEF Rests, domain, native, outside
<1>2. Binds' = Binds
  BY <1>1, Zenon DEF Binds
<1>3. Agrees' /\ ~aborted' /\ NativeOK'
  BY <1>1, Zenon DEF Core, Agrees, NativeOK
<1>4. Dispatches'
  <2>1. RunsKept
    BY <1>1, <1>2, RunsUnchanged, Zenon
  <2>2. \A v \in Workers : Keeps(v)
    BY Zenon DEF Rests
  <2> QED
    BY <2>1, <2>2, DispatchesStay, Zenon DEF Core
<1>5. Bindings' /\ Wakes'
  BY <1>1, <1>2, BindingsUnchanged, WakesUnchanged, Zenon DEF Core
<1>6. ASSUME NEW r PROVE Handed(r)' <=> Handed(r)
  BY <1>1, <1>2, Zenon DEF Handed
<1>7. References'
  BY <1>1, <1>6, ReferencesStay, Zenon DEF Core, Rests
<1> QED
  BY <1>3, <1>4, <1>5, <1>7, Zenon DEF Core

LEMMA NotifyAllInv ==
  ASSUME SchedInv, NEW g, NotifyAll(g)
  PROVE  SchedInv'
<1>1. /\ notices' = notices \ {g}
      /\ UNCHANGED <<domain, signals, waiters, native, outside, calls, due>>
  BY Zenon DEF NotifyAll
<1>2. ASSUME NEW v \in Workers
      PROVE  /\ threads'[v] \in Thread /\ Place(threads'[v]) /\ Keeps(v)
             /\ threads'[v].group = threads[v].group
             /\ \/ threads'[v].pc = "leave"
                \/ /\ threads'[v] = threads[v]
                   /\ threads[v].pc = "asleep" => threads[v].group # g
  <2> DEFINE x == threads[v]
             y == [x EXCEPT !.pc = "leave"]
  <2>1. x \in Thread /\ Place(x)
    BY <1>2, ThreadTyped, Zenon
  <2>2. threads'[v] = IF x.pc = "asleep" /\ x.group = g THEN y ELSE x
    BY <1>2, Zenon DEF NotifyAll
  <2> HIDE DEF x
  <2>3. /\ y \in Thread /\ y.pc = "leave" /\ y.after = x.after /\ y.group = x.group
        /\ y.dispatch = x.dispatch /\ y.until = x.until /\ y.timer = x.timer
    BY <2>1 DEF Thread
  <2> HIDE DEF y
  <2>4. x.pc = "asleep" => Place(y) /\ (Holding(y) <=> Holding(x))
    BY <2>1, <2>3 DEF Place, Holding
  <2>5. CASE x.pc = "asleep" /\ x.group = g
    BY <2>2, <2>3, <2>4, <2>5, Zenon DEF Keeps, x
  <2>6. CASE ~(x.pc = "asleep" /\ x.group = g)
    BY <2>1, <2>2, <2>6, Zenon DEF Keeps, x
  <2> QED
    BY <2>5, <2>6, Zenon
<1>3. ThreadsOK'
  <2>1. \A v \in Workers : threads'[v] \in Thread /\ Place(threads'[v])
    BY <1>2, Zenon
  <2>2. threads' \in [Workers -> Thread]
    <3>1. threads' = [v \in Workers |-> threads'[v]]
      BY Zenon DEF NotifyAll
    <3> QED
      BY <2>1, <3>1, Zenon
  <2> QED
    BY <2>1, <2>2, Zenon DEF ThreadsOK
<1>4. Core'
  <2>1. \A v \in Workers : threads'[v].pc = "fire" => threads'[v] = threads[v]
    BY <1>2
  <2>2. Rests
    BY <1>1, <1>2, <2>1, Zenon DEF Rests
  <2> QED
    BY <2>2, RestsCore, Zenon DEF SchedInv
<1>5. ParkingOK'
  <2>1. ASSUME NEW h PROVE Members(h)' = Members(h)
    BY <1>2, Zenon DEF Members
  <2> QED
    BY <1>1, <2>1, Zenon DEF ParkingOK, SchedInv
<1>6. ASSUME NEW v \in Workers PROVE LooksAt(v)'
  <2>1. signals' = signals /\ timers' = timers /\ calls' = calls
        /\ entries' = entries /\ running' = running /\ ready' = ready
    BY <1>1, Zenon DEF native, domain
  <2>2. CASE threads'[v].pc = "leave"
    BY <2>2 DEF LooksAt
  <2>3. CASE threads'[v] = threads[v] /\ (threads[v].pc = "asleep" => threads[v].group # g)
    <3>1. LooksAt(v)
      BY <1>6, Zenon DEF SchedInv, Looks
    <3>2. Nothing(v) => Nothing(v)'
      BY <2>1, <2>3, Zenon DEF Nothing, NoWork, Live, Reclaims
    <3> QED
      BY <1>1, <2>1, <2>3, <3>1, <3>2, Zenon DEF LooksAt
  <2> QED
    BY <1>2, <1>6, <2>2, <2>3, Zenon
<1> QED
  BY <1>3, <1>4, <1>5, <1>6, Zenon DEF SchedInv, Looks

-----------------------------------------------------------------------------
(* A thread that moves on.                                                  *)

LEMMA Becomes ==
  ASSUME ThreadsOK, NEW w \in Workers, NEW c, Become(w, c)
  PROVE  /\ Alone(w) /\ threads'[w] = Changed(threads[w], c)
         /\ (threads'[w] \in Thread /\ Place(threads'[w])) => ThreadsOK'
<1>1. threads \in [Workers -> Thread] /\ \A v \in Workers : Place(threads[v])
  BY Zenon DEF ThreadsOK
<1>2. threads' = [threads EXCEPT ![w] = Changed(threads[w], c)]
  BY Zenon DEF Become, Changed
<1>3. Alone(w) /\ threads'[w] = Changed(threads[w], c)
  BY <1>1, <1>2 DEF Alone
<1>4. ASSUME threads'[w] \in Thread, Place(threads'[w]) PROVE ThreadsOK'
  <2>1. \A v \in Workers : threads'[v] \in Thread /\ Place(threads'[v])
    BY <1>1, <1>3, <1>4, Zenon DEF Alone
  <2>2. threads' \in [Workers -> Thread]
    BY <1>1, <1>2, <1>3, <1>4, Zenon
  <2> QED
    BY <2>1, <2>2, Zenon DEF ThreadsOK
<1> QED
  BY <1>3, <1>4, Zenon

LEMMA WalkCore ==
  ASSUME Core, NEW w \in Workers, Walks(w)
  PROVE  Core'
<1>1. Rests
  BY Zenon DEF Rests, Walks, Alone, Keeps
<1> QED
  BY <1>1, RestsCore, Zenon

LEMMA MembersFinite ==
  ASSUME FiniteFacts, NEW g
  PROVE  /\ IsFiniteSet(Members(g)) /\ Cardinality(Members(g)) \in Nat
         /\ Cardinality(Members(g)) = 0 <=> Members(g) = {}
         /\ Cardinality(Members(g)) <= Cardinality(Workers)
<1>1. Members(g) \subseteq Workers /\ IsFiniteSet(Workers)
  BY RunAssumption, Zenon DEF Members
<1>2. IsFiniteSet(Members(g)) /\ Cardinality(Members(g)) <= Cardinality(Workers)
  BY <1>1, FinitePart, Zenon
<1> QED
  BY <1>2, FiniteCount, Zenon

LEMMA ThreadFields ==
  ASSUME NEW x \in Thread
  PROVE  /\ DOMAIN x = {"pc", "after", "group", "dispatch", "until", "timer"}
         /\ x.group \in 0..2 /\ x.dispatch \in MaybeRegistration
         /\ x.until \in 0..NoTime /\ x.timer \in MaybeRegistration
         /\ x.after \in {"start", "reclaim", "run"}
  BY DEF Thread

-----------------------------------------------------------------------------
(* Threads that register and leave.                                         *)

\* A thread that registers with its parking group or leaves it keeps the invariant.
LEMMA ParkingSteps ==
  ASSUME FiniteFacts
  PROVE  \A w \in Workers : SchedInv /\ (RegisterParking(w) \/ LeaveParking(w)) => SchedInv'
\* Thread w joins or leaves groups; nobody else does.
<1>MembersMove.
  ASSUME NEW w \in Workers, Alone(w), NEW g
  PROVE  /\ threads'[w].group = g => Members(g)' = Members(g) \cup {w}
         /\ threads'[w].group # g => Members(g)' = Members(g) \ {w}
  <2> USE <1>MembersMove
  <2>1. ASSUME NEW v \in Workers \ {w} PROVE v \in Members(g)' <=> v \in Members(g)
    BY Zenon DEF Members, Alone
  <2>2. w \in Members(g)' <=> threads'[w].group = g
    BY Zenon DEF Members
  <2>3. Members(g) \subseteq Workers /\ Members(g)' \subseteq Workers
    BY Zenon DEF Members
  <2> QED
    BY <2>1, <2>2, <2>3, Zenon
<1>JoinCounts.
  ASSUME NEW w \in Workers, Alone(w), NEW g, threads[w].group # g
  PROVE  IF threads'[w].group = g
         THEN Cardinality(Members(g)') = Cardinality(Members(g)) + 1
         ELSE Members(g)' = Members(g)
  <2> USE <1>JoinCounts
  <2>1. w \notin Members(g)
    BY Zenon DEF Members
  <2>2. CASE threads'[w].group = g
    <3>1. Members(g)' = Members(g) \cup {w}
      BY <2>2, <1>MembersMove, Zenon
    <3> QED
      BY <2>1, <2>2, <3>1, MembersFinite, FiniteAdd, Zenon
  <2>3. CASE threads'[w].group # g
    <3>1. Members(g)' = Members(g) \ {w}
      BY <2>3, <1>MembersMove, Zenon
    <3> QED
      BY <2>1, <2>3, <3>1, Zenon
  <2> QED
    BY <2>2, <2>3, Zenon
<1>RegisterParkingInv.
  ASSUME SchedInv, NEW w \in Workers, RegisterParking(w)
  PROVE  SchedInv'
  <2> USE <1>RegisterParkingInv
  <2> DEFINE x == threads[w]
             y == threads'[w]
             free == Groups \ signals
             g == IF free = {} THEN 2 ELSE IF 0 \in free THEN 0 ELSE 1
             p == IF x.pc = "start" THEN "promote" ELSE "slot"
  <2>1. x \in Thread /\ Place(x) /\ ThreadsOK /\ ParkingOK
    BY ThreadTyped, Zenon DEF SchedInv
  <2>2. /\ x.pc \in {"start", "reclaim"}
        /\ waiters' = [h \in Groups |-> IF h = g THEN waiters[h] + 1 ELSE waiters[h]]
        /\ Become(w, [group |-> g, after |-> x.pc, pc |-> p])
        /\ UNCHANGED <<domain, signals, notices, native, outside, calls, due>>
    BY Zenon DEF RegisterParking
  <2>3. y = Changed(x, [group |-> g, after |-> x.pc, pc |-> p]) /\ Alone(w)
        /\ (y \in Thread /\ Place(y) => ThreadsOK')
    BY <2>1, <2>2, Becomes, Zenon
  <2>4. g \in 0..2 /\ g \notin signals
    BY <2>1 DEF ParkingOK, Groups
  <2>5. p \in Places /\ p \in {"promote", "slot"}
        /\ (x.pc = "start" => p = "promote") /\ (x.pc = "reclaim" => p = "slot")
    BY DEF Places
  <2>6. x.pc \in {"start", "reclaim", "run"}
    BY <2>2
  <2> HIDE DEF x, y, p, g
  <2>7. /\ y \in Thread /\ y.pc = p /\ y.after = x.pc /\ y.group = g
        /\ y.dispatch = x.dispatch /\ y.until = x.until /\ y.timer = x.timer
    <3>1. ASSUME NEW a \in {"start", "reclaim", "run"}, a = x.pc
          PROVE  /\ y \in Thread /\ y.pc = p /\ y.after = a /\ y.group = g
                 /\ y.dispatch = x.dispatch /\ y.until = x.until /\ y.timer = x.timer
      <4>1. y = Changed(x, [group |-> g, after |-> a, pc |-> p])
        BY <2>3, <3>1, Zenon
      <4> QED
        BY <2>1, <2>4, <2>5, <3>1, <4>1, ThreadFields DEF Changed, Thread, Places
    <3> QED
      BY <2>6, <3>1, Zenon
  <2>8. Place(y) /\ x.group = 2
    BY <2>1, <2>2, <2>5, <2>7, SMTT(30) DEF Place
  <2>9. Holding(y) <=> Holding(x)
    BY <2>2, <2>5, <2>7, SMTT(30) DEF Holding
  <2>10. y.pc \notin {"fire", "deadline", "wait", "asleep"}
    BY <2>5, <2>7
  <2>11. Walks(w)
    BY <2>2, <2>3, <2>7, <2>9, <2>10, Zenon DEF Walks, Keeps, x, y
  <2>12. Core'
    BY <2>11, WalkCore, Zenon DEF SchedInv
  <2>13. ParkingOK'
    <3>1. waiters \in [Groups -> Nat] /\ signals \subseteq Groups /\ notices \subseteq Groups
      BY <2>1, Zenon DEF ParkingOK
    <3>2. waiters' \in [Groups -> Nat]
      BY <2>2, <3>1
    <3>3. ASSUME NEW h \in Groups
          PROVE  waiters'[h] = Cardinality(Members(h)') /\ (h \in signals => waiters'[h] # 0)
      <4>1. waiters[h] = Cardinality(Members(h)) /\ (h \in signals => waiters[h] # 0)
            /\ waiters'[h] = IF h = g THEN waiters[h] + 1 ELSE waiters[h]
        BY <2>1, <2>2, <3>3, Zenon DEF ParkingOK
      <4>2. x.group # h
        BY <2>8, <3>3 DEF Groups
      <4>3. IF g = h THEN Cardinality(Members(h)') = Cardinality(Members(h)) + 1
            ELSE Members(h)' = Members(h)
        BY <2>3, <2>7, <4>2, <1>JoinCounts, Zenon DEF x, y
      <4> QED
        BY <2>4, <4>1, <4>3, Zenon
    <3>4. signals' = signals /\ notices' = notices
      BY <2>2, Zenon
    <3> QED
      BY <3>1, <3>2, <3>3, <3>4, Zenon DEF ParkingOK
  <2>14. Looks'
    <3>1. LooksAt(w)'
      BY <2>10, Zenon DEF LooksAt, y
    <3>2. ASSUME NEW v \in Workers \ {w} PROVE LooksAt(v)'
      <4>1. threads'[v] = threads[v] /\ LooksAt(v)
        BY <2>3, Zenon DEF Alone, SchedInv, Looks
      <4>2. signals' = signals /\ notices' = notices /\ timers' = timers /\ calls' = calls
            /\ entries' = entries /\ running' = running /\ ready' = ready
        BY <2>2, Zenon DEF native, domain
      <4>3. Nothing(v) => Nothing(v)'
        BY <4>1, <4>2, Zenon DEF Nothing, NoWork, Live, Reclaims
      <4> QED
        BY <4>1, <4>2, <4>3, Zenon DEF LooksAt
    <3> QED
      BY <3>1, <3>2, Zenon DEF Looks
  <2> QED
    BY <2>3, <2>7, <2>8, <2>12, <2>13, <2>14, Zenon DEF SchedInv
<1>LeaveCounts.
  ASSUME NEW w \in Workers, Alone(w), NEW g, threads'[w].group # g
  PROVE  IF threads[w].group = g
         THEN Cardinality(Members(g)') = Cardinality(Members(g)) - 1
         ELSE Members(g)' = Members(g)
  <2> USE <1>LeaveCounts
  <2>1. w \in Members(g) <=> threads[w].group = g
    BY Zenon DEF Members
  <2>2. Members(g)' = Members(g) \ {w}
    BY <1>MembersMove, Zenon
  <2>3. CASE threads[w].group = g
    BY <2>1, <2>2, <2>3, MembersFinite, FiniteRemove, Zenon
  <2>4. CASE threads[w].group # g
    BY <2>1, <2>2, <2>4, Zenon
  <2> QED
    BY <2>3, <2>4, Zenon
<1>ChangedLeft.
  ASSUME NEW x \in Thread, NEW p \in Places, NEW g \in 0..2, NEW u \in 0..NoTime, NEW y,
         y = Changed(x, [pc |-> p, group |-> g, until |-> u])
  PROVE  /\ y \in Thread /\ y.pc = p /\ y.after = x.after /\ y.group = g
         /\ y.dispatch = x.dispatch /\ y.until = u /\ y.timer = x.timer
  BY <1>ChangedLeft, ThreadFields DEF Changed, Thread, Places
<1>LeaveParkingInv.
  ASSUME SchedInv, NEW w \in Workers, LeaveParking(w)
  PROVE  SchedInv'
  <2> USE <1>LeaveParkingInv
  <2> DEFINE x == threads[w]
             y == threads'[w]
             g == x.group
  <2>1. x \in Thread /\ Place(x) /\ ThreadsOK /\ ParkingOK
    BY ThreadTyped, Zenon DEF SchedInv
  <2>2. /\ x.pc = "leave"
        /\ IF g = 2 THEN signals' = signals /\ waiters' = waiters
           ELSE /\ waiters' = [waiters EXCEPT ![g] = waiters[g] - 1]
                /\ signals' = IF waiters[g] = 1 THEN signals \ {g} ELSE signals
        /\ Become(w, [pc |-> x.after, group |-> 2, until |-> NoTime])
        /\ UNCHANGED <<domain, notices, native, outside, calls, due>>
    BY Zenon DEF LeaveParking
  <2>3. y = Changed(x, [pc |-> x.after, group |-> 2, until |-> NoTime]) /\ Alone(w)
        /\ (y \in Thread /\ Place(y) => ThreadsOK')
    BY <2>1, <2>2, Becomes, Zenon
  <2> HIDE DEF x, y
  <2>4. g \in 0..2 /\ x.after \in {"start", "reclaim", "run"}
    BY <2>1, ThreadFields, Zenon
  <2>5. x.after \in Places /\ 2 \in 0..2 /\ NoTime \in 0..NoTime
    BY <2>4, RunAssumption, SMTT(30) DEF Places, NoTime
  <2> HIDE DEF g
  <2>6. /\ y \in Thread /\ y.pc = x.after /\ y.after = x.after /\ y.group = 2
        /\ y.dispatch = x.dispatch
    BY <2>1, <2>3, <2>5, <1>ChangedLeft, SMTT(30)
  <2>7. Place(y)
    BY <2>1, <2>2, <2>4, <2>6, SMTT(30) DEF Place
  <2>8. Holding(y) <=> Holding(x)
    BY <2>2, <2>4, <2>6, SMTT(30) DEF Holding
  <2>9. y.pc \notin {"fire", "deadline", "wait", "asleep"}
    BY <2>4, <2>6
  <2>10. Walks(w)
    BY <2>2, <2>3, <2>6, <2>8, <2>9, Zenon DEF Walks, Keeps, x, y
  <2>11. Core'
    BY <2>10, WalkCore, Zenon DEF SchedInv
  <2>12. waiters \in [Groups -> Nat] /\ signals \subseteq Groups /\ notices \subseteq Groups
    BY <2>1, Zenon DEF ParkingOK
  <2>13. ASSUME NEW h \in Groups
         PROVE  /\ waiters[h] = Cardinality(Members(h))
                /\ h \in signals => waiters[h] # 0
                /\ IF g = h THEN Cardinality(Members(h)') = Cardinality(Members(h)) - 1
                            ELSE Members(h)' = Members(h)
                /\ Cardinality(Members(h)) \in Nat /\ Cardinality(Members(h)') \in Nat
                /\ g = h => Cardinality(Members(h)) # 0
    <3>1. y.group # h
      BY <2>6, <2>13 DEF Groups
    <3>2. Cardinality(Members(h)') \in Nat
      <4>1. Members(h)' = Members(h) \ {w}
        BY <2>3, <3>1, <1>MembersMove, Zenon DEF y
      <4> QED
        BY <4>1, MembersFinite, FinitePart, FiniteCount, Zenon
    <3>3. g = h => w \in Members(h)
      BY Zenon DEF Members, g, x
    <3> QED
      BY <2>1, <2>3, <3>1, <3>2, <3>3, <1>LeaveCounts, MembersFinite, Zenon DEF ParkingOK, g, x, y
  <2>14. ParkingOK'
    <3>1. waiters' \in [Groups -> Nat] /\ signals' \subseteq Groups
      <4>1. CASE g = 2
        BY <2>2, <2>12, <4>1, Zenon
      <4>2. CASE g # 2
        <5>1. g \in Groups
          BY <2>4, <4>2 DEF Groups
        <5>2. waiters[g] \in Nat /\ waiters[g] # 0
          BY <2>12, <2>13, <5>1, Zenon
        <5> QED
          BY <2>2, <2>12, <4>2, <5>1, <5>2, SMTT(30)
      <4> QED
        BY <4>1, <4>2, Zenon
    <3>2. ASSUME NEW h \in Groups
          PROVE  waiters'[h] = Cardinality(Members(h)') /\ (h \in signals' => waiters'[h] # 0)
      <4>1. CASE g = h
        <5>1. g # 2
          BY <3>2, <4>1 DEF Groups
        <5>2. waiters'[h] = waiters[h] - 1 /\ (h \in signals' => waiters[h] # 1)
          BY <2>2, <2>12, <3>2, <4>1, <5>1, Zenon
        <5> QED
          BY <2>13, <3>2, <4>1, <5>2, SMTT(30)
      <4>2. CASE g # h
        <5>1. waiters'[h] = waiters[h] /\ (h \in signals' => h \in signals)
          BY <2>2, <2>12, <3>2, <4>2, Zenon
        <5> QED
          BY <2>13, <3>2, <4>2, <5>1, Zenon
      <4> QED
        BY <4>1, <4>2, Zenon
    <3>3. notices' = notices
      BY <2>2, Zenon
    <3> QED
      BY <2>12, <3>1, <3>2, <3>3, Zenon DEF ParkingOK
  <2>15. Looks'
    <3>1. LooksAt(w)'
      BY <2>9, Zenon DEF LooksAt, y
    <3>2. ASSUME NEW v \in Workers \ {w} PROVE LooksAt(v)'
      <4>1. threads'[v] = threads[v] /\ LooksAt(v) /\ threads[v] \in Thread
        BY <2>3, ThreadTyped, Zenon DEF Alone, SchedInv, Looks
      <4>2. notices' = notices /\ timers' = timers /\ calls' = calls
            /\ entries' = entries /\ running' = running /\ ready' = ready
        BY <2>2, Zenon DEF native, domain
      <4>3. ASSUME NEW h \in Groups, threads[v].group = h PROVE h \in signals' <=> h \in signals
        <5>1. ASSUME g = h, waiters[h] = 1 PROVE FALSE
          <6>1. Cardinality(Members(h)') = 0
            BY <2>13, <5>1
          <6>2. v \in Members(h)'
            BY <4>1, <4>3, Zenon DEF Members
          <6>3. IsFiniteSet(Members(h)')
            <7>1. h # y.group
              BY <2>6, <4>3 DEF Groups
            <7>2. Members(h)' = Members(h) \ {w}
              BY <2>3, <7>1, <1>MembersMove, Zenon DEF y
            <7> QED
              BY <7>2, MembersFinite, FinitePart, Zenon
          <6> QED
            BY <6>1, <6>2, <6>3, FiniteCount, Zenon
        <5> QED
          BY <2>2, <5>1, Zenon
      <4>4. threads[v].group \in Groups \/ threads[v].group = 2
        BY <4>1, ThreadFields DEF Groups
      <4>5. 2 \notin Groups
        BY DEF Groups
      <4>6. signals' \subseteq Groups
        BY <2>2, <2>12, Zenon
      <4>7. Nothing(v) => Nothing(v)'
        BY <4>1, <4>2, Zenon DEF Nothing, NoWork, Live, Reclaims
      <4> QED
        BY <2>12, <4>1, <4>2, <4>3, <4>4, <4>5, <4>6, <4>7, Zenon DEF LooksAt
    <3> QED
      BY <3>1, <3>2, Zenon DEF Looks
  <2> QED
    BY <2>3, <2>6, <2>7, <2>11, <2>14, <2>15, Zenon DEF SchedInv
<1> QED
  BY <1>RegisterParkingInv, <1>LeaveParkingInv, Zenon

-----------------------------------------------------------------------------
(* What the other threads see of a quiet step.                              *)

LEMMA LooksQuiet ==
  ASSUME NEW w, LooksAt(w), Quiet, threads'[w] = threads[w]
  PROVE  LooksAt(w)'
<1>1. /\ signals' = signals /\ notices' = notices
      /\ \A r \in Registrations : Live(r) /\ running = limit => Live(r)' /\ running' = limit
      /\ NoWork(Serves[w]) => NoWork(Serves[w])'
      /\ timers' \subseteq timers \/ Called("signal", None, None) \in calls'
      /\ Called("signal", None, None) \in calls => Called("signal", None, None) \in calls'
  BY Zenon DEF Quiet, parking
<1>2. Nothing(w) => Nothing(w)'
  <2>1. CASE Reclaims(w)
    <3>1. Reclaims(w)'
      BY <2>1, Zenon DEF Reclaims
    <3> QED
      BY <1>1, <2>1, <3>1, Zenon DEF Nothing
  <2>2. CASE ~Reclaims(w)
    <3>1. ~Reclaims(w)'
      BY <2>2, Zenon DEF Reclaims
    <3> QED
      BY <1>1, <2>2, <3>1, Zenon DEF Nothing
  <2> QED
    BY <2>1, <2>2
<1> QED
  BY <1>1, <1>2, Zenon DEF LooksAt

LEMMA ParkingKept ==
  ASSUME ParkingOK, \A v \in Workers : threads'[v].group = threads[v].group,
         UNCHANGED parking \/ PrepareSignal
  PROVE  ParkingOK'
<1>1. /\ signals \subseteq Groups /\ notices \subseteq Groups /\ waiters \in [Groups -> Nat]
      /\ \A g \in Groups : waiters[g] = Cardinality(Members(g))
                           /\ (g \in signals => waiters[g] # 0)
  BY Zenon DEF ParkingOK
<1>2. ASSUME NEW g PROVE Members(g)' = Members(g)
  BY Zenon DEF Members
<1>3. waiters' = waiters
  BY Zenon DEF parking, PrepareSignal
<1>4. signals' \subseteq Groups /\ notices' \subseteq Groups
      /\ \A g \in signals' : waiters[g] # 0
  BY <1>1, Zenon DEF parking, PrepareSignal
<1> QED
  BY <1>1, <1>2, <1>3, <1>4, Zenon DEF ParkingOK

LEMMA QuietDomain ==
  ASSUME UNCHANGED domain, UNCHANGED parking,
         timers' \subseteq timers \/ Called("signal", None, None) \in calls',
         Called("signal", None, None) \in calls => Called("signal", None, None) \in calls'
  PROVE  Quiet
<1>1. entries' = entries /\ running' = running /\ ready' = ready
  BY Zenon DEF domain
<1>2. ASSUME NEW r PROVE Live(r)' <=> Live(r)
  BY <1>1, Zenon DEF Live
<1>3. ASSUME NEW served PROVE NoWork(served)' <=> NoWork(served)
  BY <1>1, Zenon DEF NoWork
<1> QED
  BY <1>1, <1>2, <1>3, Zenon DEF Quiet

LEMMA WalkLooks ==
  ASSUME SchedInv, NEW w \in Workers, Walks(w), UNCHANGED parking, LooksAt(w)'
  PROVE  Looks'
<1>1. Quiet
  BY QuietDomain, Zenon DEF Walks, native
<1>2. \A v \in Workers \ {w} : LooksAt(v)'
  BY <1>1, LooksQuiet, Zenon DEF SchedInv, Looks, Walks, Alone
<1> QED
  BY <1>2, Zenon DEF Looks

LEMMA WalkInv ==
  ASSUME SchedInv, NEW w \in Workers, Walks(w), UNCHANGED parking,
         threads'[w].group = threads[w].group, LooksAt(w)', ThreadsOK'
  PROVE  SchedInv'
<1>1. \A v \in Workers : threads'[v].group = threads[v].group
  BY Zenon DEF Walks, Alone
<1>2. ParkingOK'
  BY <1>1, ParkingKept, Zenon DEF SchedInv
<1>3. Core' /\ Looks'
  BY WalkCore, WalkLooks, Zenon DEF SchedInv
<1> QED
  BY <1>2, <1>3, Zenon DEF SchedInv

LEMMA ChangedPc ==
  ASSUME NEW x \in Thread, NEW p \in Places, NEW y, y = Changed(x, [pc |-> p])
  PROVE  /\ y \in Thread /\ y.pc = p /\ y.after = x.after /\ y.group = x.group
         /\ y.dispatch = x.dispatch /\ y.until = x.until /\ y.timer = x.timer
  BY ThreadFields DEF Changed, Thread, Places

-----------------------------------------------------------------------------
(* Threads that wait.                                                       *)

\* A thread that falls asleep, or wakes by itself, keeps the invariant.
LEMMA WaitingSteps ==
  \A w \in Workers : SchedInv /\ (Park(w) \/ Timeout(w) \/ Spurious(w)) => SchedInv'
<1>LeavesInv.
  ASSUME SchedInv, NEW w \in Workers, threads[w].pc \in {"wait", "asleep"},
         Become(w, [pc |-> "leave"]),
         UNCHANGED <<domain, parking, native, outside, calls, due>>
  PROVE  SchedInv'
  <2> USE <1>LeavesInv
  <2> DEFINE x == threads[w]
             y == threads'[w]
  <2>1. x \in Thread /\ Place(x) /\ ThreadsOK
    BY ThreadTyped, Zenon DEF SchedInv
  <2>2. y = Changed(x, [pc |-> "leave"]) /\ Alone(w)
        /\ (y \in Thread /\ Place(y) => ThreadsOK')
    BY <2>1, Becomes, Zenon
  <2>3. "leave" \in Places
    BY Zenon DEF Places
  <2> HIDE DEF x, y
  <2>4. /\ y \in Thread /\ y.pc = "leave" /\ y.after = x.after /\ y.group = x.group
        /\ y.dispatch = x.dispatch /\ y.until = x.until
    BY <2>1, <2>2, <2>3, ChangedPc, SMTT(30)
  <2>5. x.pc \in {"wait", "asleep"}
    BY SMTT(30) DEF x
  <2>6. Place(y)
    BY <2>1, <2>4, <2>5, SMTT(30) DEF Place
  <2>7. Holding(y) <=> Holding(x)
    BY <2>1, <2>4, <2>5, SMTT(30) DEF Place, Holding
  <2>8. Walks(w) /\ LooksAt(w)'
    BY <2>2, <2>4, <2>7 DEF Walks, Keeps, LooksAt, x, y
  <2> QED
    BY <2>2, <2>4, <2>6, <2>8, WalkInv, Zenon DEF x, y
<1>NothingStays.
  ASSUME NEW w, Nothing(w), Quiet, threads'[w].after = threads[w].after,
         threads'[w].dispatch = threads[w].dispatch, threads'[w].until = threads[w].until,
         threads[w].pc # "deadline"
  PROVE  Nothing(w)'
  <2> USE <1>NothingStays
  <2>1. /\ \A r \in Registrations : Live(r) /\ running = limit => Live(r)' /\ running' = limit
        /\ NoWork(Serves[w]) => NoWork(Serves[w])'
        /\ timers' \subseteq timers \/ Called("signal", None, None) \in calls'
        /\ Called("signal", None, None) \in calls => Called("signal", None, None) \in calls'
    BY Zenon DEF Quiet
  <2>2. Reclaims(w)' <=> Reclaims(w)
    BY Zenon DEF Reclaims
  <2> QED
    BY <2>1, <2>2, Zenon DEF Nothing
<1>ParkInv.
  ASSUME SchedInv, NEW w \in Workers, Park(w)
  PROVE  SchedInv'
  <2> USE <1>ParkInv
  <2> DEFINE x == threads[w]
             y == threads'[w]
  <2>1. x \in Thread /\ Place(x) /\ ThreadsOK /\ LooksAt(w)
    BY ThreadTyped, Zenon DEF SchedInv, Looks
  <2>2. CASE x.group = 2 \/ x.group \in signals
    <3>1. Become(w, [pc |-> "leave"]) /\ x.pc = "wait"
          /\ UNCHANGED <<domain, parking, native, outside, calls, due>>
      BY <2>2, Zenon DEF Park
    <3> QED
      BY <3>1, <1>LeavesInv, Zenon
  <2>3. CASE x.group \notin signals \cup {2}
    <3>1. Become(w, [pc |-> "asleep"]) /\ x.pc = "wait"
          /\ UNCHANGED <<domain, parking, native, outside, calls, due>>
      BY <2>3, Zenon DEF Park
    <3>2. y = Changed(x, [pc |-> "asleep"]) /\ Alone(w)
          /\ (y \in Thread /\ Place(y) => ThreadsOK')
      BY <2>1, <3>1, Becomes, Zenon
    <3>3. "asleep" \in Places
      BY Zenon DEF Places
    <3>4. Nothing(w)
      BY <2>1, <2>3, <3>1, Zenon DEF LooksAt
    <3> HIDE DEF x, y
    <3>5. /\ y \in Thread /\ y.pc = "asleep" /\ y.after = x.after /\ y.group = x.group
          /\ y.dispatch = x.dispatch /\ y.until = x.until
      BY <2>1, <3>2, <3>3, ChangedPc, SMTT(30)
    <3>6. Place(y)
      BY <2>1, <3>1, <3>5, SMTT(30) DEF Place
    <3>7. Holding(y) <=> Holding(x)
      BY <3>1, <3>5, SMTT(30) DEF Holding
    <3>8. Walks(w)
      BY <3>1, <3>2, <3>5, <3>7 DEF Walks, Keeps, x, y
    <3>9. Nothing(w)'
      <4>1. Quiet
        BY <3>1, QuietDomain, Zenon DEF native
      <4>2. x.pc # "deadline"
        BY <3>1
      <4> QED
        BY <3>4, <3>5, <4>1, <4>2, <1>NothingStays, Zenon DEF x, y
    <3>10. LooksAt(w)'
      BY <2>3, <3>1, <3>5, <3>9, Zenon DEF LooksAt, x, y, parking
    <3> QED
      BY <3>1, <3>2, <3>5, <3>6, <3>8, <3>10, WalkInv, Zenon DEF x, y
  <2> QED
    BY <2>2, <2>3, Zenon
<1>TimeoutInv.
  ASSUME SchedInv, NEW w \in Workers, Timeout(w) \/ Spurious(w)
  PROVE  SchedInv'
  BY <1>TimeoutInv, <1>LeavesInv, Zenon DEF Timeout, Spurious
<1> QED
  BY <1>ParkInv, <1>TimeoutInv, Zenon

-----------------------------------------------------------------------------
(* What the other threads see of a signal.                                  *)

\* A signal reaches every registered thread.
LEMMA LooksSignalled ==
  ASSUME FiniteFacts,
         ParkingOK, NEW w \in Workers, threads[w].group \in 0..2, LooksAt(w), PrepareSignal,
         threads'[w] = threads[w]
  PROVE  LooksAt(w)'
<1> DEFINE g == threads[w].group
<1>1. CASE g = 2
  <2>1. signals \subseteq Groups /\ 2 \notin Groups
    BY DEF ParkingOK, Groups
  <2>2. signals' \subseteq Groups
    BY <2>1, Zenon DEF PrepareSignal
  <2> QED
    BY <1>1, <2>1, <2>2, Zenon DEF LooksAt
<1>2. CASE g # 2
  <2>1. g \in Groups
    BY <1>2 DEF Groups
  <2>2. waiters[g] # 0
    <3>1. w \in Members(g)
      BY Zenon DEF Members
    <3>2. Cardinality(Members(g)) # 0
      BY <3>1, MembersFinite, Zenon
    <3> QED
      BY <2>1, <3>2, Zenon DEF ParkingOK
  <2>3. g \in signals' /\ (g \in signals => g \in notices \/ threads[w].pc # "asleep")
    BY <2>1, <2>2, Zenon DEF PrepareSignal, LooksAt
  <2>4. threads[w].pc = "asleep" => g \in notices'
    BY <2>1, <2>2, <2>3, Zenon DEF PrepareSignal
  <2> QED
    BY <2>3, <2>4, Zenon DEF LooksAt
<1> QED
  BY <1>1, <1>2

\* Threads that do not move keep what they know.
LEMMA LooksOther ==
  ASSUME FiniteFacts,
         SchedInv, PrepareSignal \/ Quiet, NEW v \in Workers, threads'[v] = threads[v]
  PROVE  LooksAt(v)'
<1>1. threads[v].group \in 0..2
  BY ThreadTyped, ThreadFields, Zenon
<1> QED
  BY <1>1, LooksSignalled, LooksQuiet, Zenon DEF SchedInv, Looks

\* A step after which nothing is available that was not before.
LEMMA QuietStep ==
  ASSUME UNCHANGED parking, ready' = ready, running' = running, \A q : Live(q) => Live(q)',
         timers' \subseteq timers,
         Called("signal", None, None) \in calls => Called("signal", None, None) \in calls'
  PROVE  Quiet
<1>1. ASSUME NEW served PROVE NoWork(served)' <=> NoWork(served)
  BY Zenon DEF NoWork
<1> QED
  BY <1>1, Zenon DEF Quiet

LEMMA CoreHeld == ASSUME Core PROVE Held /\ Registered /\ NativeOK
  BY Zenon DEF Core, Held, Registered, NativeOK

-----------------------------------------------------------------------------
(* Rows that move, and wakes.                                               *)

LEMMA MovesSteady ==
  ASSUME NEW i, Moves(i), Binds' \subseteq Binds
  PROVE  Steady
<1>1. \A j \in DOMAIN entries : entries'[j].generation = entries[j].generation
  BY Zenon DEF Moves
<1> QED
  BY <1>1, Zenon DEF Steady, Moves

\* Two live registrations of a row are the same.
LEMMA LiveOf ==
  ASSUME NEW r \in Registrations, Live(r)
  PROVE  r = Of(r.index) /\ r.index \in DOMAIN entries /\ entries[r.index].phase # "free"
  BY DEF Live, Of, Registrations

\* The registration bound to a task.
LEMMA BoundTask ==
  ASSUME Core, NEW t \in Tasks, bindings[t] # None
  PROVE  \E r \in Registrations :
           /\ bindings[t] = r /\ Handed(r) /\ Live(r)
           /\ \A u \in Tasks : bindings[u] = r => u = t
<1>1. Bindings /\ bindings \in [Tasks -> MaybeRegistration]
  BY Zenon DEF Core, NativeOK
<1>2. PICK r \in Registrations : bindings[t] = r
  BY <1>1, Zenon DEF MaybeRegistration
<1>3. ASSUME NEW u \in Tasks, bindings[u] = r
      PROVE  Handed(r) /\ Live(r) /\ entries[r.index].task = u
  BY <1>1, <1>2, <1>3, Zenon DEF Bindings
<1> QED
  BY <1>2, <1>3, Zenon

LEMMA LiveMoves ==
  ASSUME NEW i, MovesLive(i)
  PROVE  /\ \A r : Live(r)' <=> Live(r)
         /\ \A j \in DOMAIN entries : Of(j)' = Of(j) /\ entries'[j].task = entries[j].task
         /\ \A j \in DOMAIN entries : entries'[j].generation = entries[j].generation
<1>1. /\ i \in DOMAIN entries /\ DOMAIN entries' = DOMAIN entries
      /\ \A j \in DOMAIN entries \ {i} : entries'[j] = entries[j]
      /\ entries'[i].generation = entries[i].generation /\ entries'[i].task = entries[i].task
      /\ entries[i].phase # "free" /\ entries'[i].phase # "free"
  BY Zenon DEF MovesLive, Moves
<1>2. \A j \in DOMAIN entries :
        /\ entries'[j].generation = entries[j].generation
        /\ entries'[j].task = entries[j].task
        /\ entries'[j].phase = "free" <=> entries[j].phase = "free"
  BY <1>1, Zenon
<1>3. ASSUME NEW r PROVE Live(r)' <=> Live(r)
  BY <1>1, <1>2, Zenon DEF Live
<1>4. ASSUME NEW j \in DOMAIN entries PROVE Of(j)' = Of(j)
  BY <1>2, Zenon DEF Of
<1> QED
  BY <1>2, <1>3, <1>4, Zenon

\* Bindings while a live row moves and nothing is bound.
LEMMA BindingsMove ==
  ASSUME Registered, NEW i, MovesLive(i), bindings' = bindings, Binds' = Binds,
         entries'[i].phase = "idle" \/ \A c \in Binds : c.registration # Of(i)
  PROVE  Bindings'
<1>1. /\ \A r : Live(r)' <=> Live(r)
      /\ \A j \in DOMAIN entries : Of(j)' = Of(j) /\ entries'[j].task = entries[j].task
      /\ \A j \in DOMAIN entries \ {i} : entries'[j] = entries[j]
      /\ DOMAIN entries' = DOMAIN entries /\ i \in DOMAIN entries
      /\ entries[i].phase # "free" /\ entries'[i].phase # "free"
  BY LiveMoves, Zenon DEF MovesLive, Moves
<1>2. \A r : Handed(r) => Handed(r)'
  <2>1. Steady
    BY MovesSteady, Zenon DEF MovesLive
  <2> QED
    BY <2>1, HandedStays, Zenon
<1>3. ASSUME NEW t \in Tasks, NEW r \in Registrations, bindings'[t] = r
      PROVE  Handed(r)' /\ Live(r)' /\ entries'[r.index].task = t
  <2>1. Handed(r) /\ Live(r) /\ entries[r.index].task = t
    BY <1>3, Zenon DEF Registered, Bindings
  <2>2. r.index \in DOMAIN entries
    BY <2>1, Zenon DEF Live
  <2> QED
    BY <1>1, <1>2, <2>1, <2>2, Zenon
<1>4. ASSUME NEW j \in DOMAIN entries', entries'[j].phase # "free"
      PROVE  \/ bindings'[entries'[j].task] = Of(j)'
             \/ \E c \in Binds' : c.registration = Of(j)'
  <2>1. j \in DOMAIN entries /\ entries[j].phase # "free"
    BY <1>1, <1>4, Zenon
  <2>2. bindings[entries[j].task] = Of(j) \/ \E c \in Binds : c.registration = Of(j)
    BY <2>1, Zenon DEF Registered, Bindings
  <2>3. Of(j)' = Of(j) /\ entries'[j].task = entries[j].task
    BY <1>1, <2>1, Zenon
  <2> QED
    BY <2>2, <2>3
<1>5. ASSUME NEW c \in Binds'
      PROVE  /\ Live(c.registration)' /\ entries'[c.registration.index].phase = "idle"
             /\ entries'[c.registration.index].task = c.task
             /\ \A d \in Binds' : d.registration = c.registration => d = c
  <2>1. /\ Live(c.registration) /\ entries[c.registration.index].phase = "idle"
        /\ entries[c.registration.index].task = c.task
        /\ \A d \in Binds : d.registration = c.registration => d = c
        /\ c.registration \in Registrations
    <3>1. c.op # "signal" /\ c \in calls
      BY <1>5 DEF Binds
    <3> QED
      BY <1>5, <3>1, Zenon DEF Registered, Bindings, NativeOK
  <2>2. c.registration.index \in DOMAIN entries
    BY <2>1, Zenon DEF Live
  <2>3. entries'[c.registration.index].phase = "idle"
    BY <1>1, <1>5, <2>1, <2>2, LiveOf, Zenon
  <2> QED
    BY <1>1, <1>5, <2>1, <2>2, <2>3, Zenon
<1> QED
  BY <1>3, <1>4, <1>5, Zenon DEF Bindings

LEMMA WakesMove ==
  ASSUME Wakes, due \subseteq Registrations, NEW i, Moves(i), entries[i].phase # "free",
         due' \subseteq due \cup {Of(i)}, Of(i) \in Registrations, Of(i).index = i,
         Of(i) \in due' => Woken(entries'[i]) /\ entries'[i].phase # "free"
  PROVE  Wakes'
<1>1. /\ i \in DOMAIN entries /\ DOMAIN entries' = DOMAIN entries
      /\ \A j \in DOMAIN entries \ {i} : entries'[j] = entries[j]
      /\ entries'[i].generation = entries[i].generation
  BY Zenon DEF Moves
<1>2. ASSUME NEW r \in due' PROVE Live(r)' /\ Woken(entries'[r.index])
  <2>1. CASE r = Of(i)
    <3>1. r.generation = entries[i].generation
      BY <2>1 DEF Of
    <3> QED
      BY <1>1, <1>2, <2>1, <3>1, Zenon DEF Live
  <2>2. CASE r # Of(i)
    <3>1. r \in due /\ r \in Registrations /\ Live(r) /\ Woken(entries[r.index])
      BY <1>2, <2>2, Zenon DEF Wakes
    <3>2. r.index \in DOMAIN entries \ {i}
      BY <2>2, <3>1, LiveOf, Zenon
    <3> QED
      BY <1>1, <3>1, <3>2, Zenon DEF Live
  <2> QED
    BY <2>1, <2>2
<1> QED
  BY <1>2, Zenon DEF Wakes

LEMMA RunsMoved ==
  ASSUME NEW i, MovesLive(i), Binds' \subseteq Binds,
         entries'[i].phase = "running" <=> entries[i].phase = "running",
         entries'[i].slot <=> entries[i].slot
  PROVE  RunsKept
<1>1. Steady
  BY MovesSteady, Zenon DEF MovesLive
<1>2. /\ \A r : Live(r)' <=> Live(r)
      /\ \A j \in DOMAIN entries : Of(j)' = Of(j)
      /\ DOMAIN entries' = DOMAIN entries
      /\ \A j \in DOMAIN entries :
           /\ entries'[j].phase = "running" <=> entries[j].phase = "running"
           /\ entries'[j].slot <=> entries[j].slot
  BY LiveMoves, Zenon DEF MovesLive, Moves
<1>3. \A r : Live(r) => r.index \in DOMAIN entries
  BY Zenon DEF Live
<1>4. ASSUME NEW r \in Registrations, Handed(r)
      PROVE  /\ Handed(r)'
             /\ Live(r)' => /\ Live(r)
                            /\ entries[r.index].phase = "running" =>
                                 /\ entries'[r.index].phase = "running"
                                 /\ entries'[r.index].slot <=> entries[r.index].slot
  BY <1>1, <1>2, <1>3, <1>4, HandedStays, Zenon
<1> QED
  BY <1>2, <1>4, Zenon DEF RunsKept

\* A live registration that was handed out, or whose row left "idle", is bound.
LEMMA BoundOf ==
  ASSUME FiniteFacts, Registered, NEW i \in DOMAIN entries, entries[i].phase # "free",
         entries[i].phase # "idle" \/ Handed(Of(i))
  PROVE  /\ bindings[entries[i].task] = Of(i) /\ Handed(Of(i))
         /\ \A c \in Binds : c.registration # Of(i)
<1>1. /\ Agrees /\ NativeOK
      /\ \/ bindings[entries[i].task] = Of(i)
         \/ \E c \in Binds : c.registration = Of(i)
      /\ \A c \in Binds : entries[c.registration.index].phase = "idle"
      /\ \A t \in Tasks, r \in Registrations : bindings[t] = r => Handed(r)
  BY Zenon DEF Registered, Bindings
<1>2. Of(i).index = i /\ Of(i) \in Registrations /\ entries[i].task \in Tasks
  <2>1. RowOK(entries[i])
    BY <1>1, AgreesTyped, Zenon
  <2> QED
    BY <1>1, <2>1, OfTyped, Zenon DEF RowOK
<1>3. \A c \in Binds : c.registration # Of(i)
  BY <1>1, <1>2, Zenon DEF Handed
<1> QED
  BY <1>1, <1>2, <1>3, Zenon

LEMMA WakeHeld ==
  ASSUME FiniteFacts, DomainFacts,
         Core, NEW r \in Registrations, Handed(r), WakeAndSignal(r), bindings' = bindings,
         Binds' = Binds, \A v \in Workers : Keeps(v)
  PROVE  /\ Held' /\ HandedKept
         /\ \/ PrepareSignal
            \/ UNCHANGED parking /\ ready' = ready /\ running' = running
               /\ \A q : Live(q) => Live(q)'
<1> DEFINE i == r.index
<1>1. Held /\ Registered
  BY CoreHeld, Zenon
<1>2. /\ Wake(r) /\ (IF WakeEnqueues(r) THEN PrepareSignal ELSE UNCHANGED parking)
      /\ due' = IF Live(r) THEN due \cup {r} ELSE due
  BY Zenon DEF WakeAndSignal
<1>3. /\ Agrees' /\ running' = running /\ ~aborted' /\ due' \subseteq Registrations
      /\ ~WakeEnqueues(r) => ready' = ready
      /\ ~Live(r) => entries' = entries
      /\ Live(r) => /\ Moves(i)
                    /\ entries'[i].slot = entries[i].slot
                    /\ entries'[i].phase =
                         IF entries[i].phase = "idle" THEN "queued" ELSE entries[i].phase
                    /\ entries[i].phase = "running" => entries'[i].pending
  BY <1>1, <1>2, Zenon DEF Held, DomainFacts, WakeDoes
<1>4. CASE Live(r)
  <2>1. r = Of(i) /\ i \in DOMAIN entries /\ entries[i].phase # "free"
    BY <1>4, LiveOf, Zenon
  <2> HIDE DEF i
  <2>2. entries[i].phase \in {"idle", "queued", "running"}
    BY <1>1, <2>1, AgreesTyped, RowTyped, SMTT(30) DEF Held, Phases
  <2>3. MovesLive(i) /\ (entries'[i].phase = "running" <=> entries[i].phase = "running")
    BY <1>3, <1>4, <2>2 DEF MovesLive
  <2>4. RunsKept
    BY <1>3, <1>4, <2>3, RunsMoved, Zenon
  <2>5. Dispatches'
    BY <1>1, <2>4, DispatchesStay, Zenon DEF Held
  <2>6. \A c \in Binds : c.registration # Of(i)
    BY <1>1, <2>1, BoundOf, Zenon
  <2>7. Bindings'
    BY <1>1, <2>3, <2>6, BindingsMove, Zenon
  <2>8. Woken(entries'[i]) /\ entries'[i].phase # "free"
    BY <1>3, <1>4, <2>2 DEF Woken
  <2>9. Wakes'
    BY <1>1, <1>2, <1>3, <1>4, <2>1, <2>8, WakesMove, Zenon DEF Held, i
  <2>10. HandedKept
    BY <1>3, <1>4, MovesSteady, HandedStays, Zenon DEF HandedKept
  <2>11. \A q : Live(q) => Live(q)'
    BY <2>3, LiveMoves, Zenon
  <2> QED
    BY <1>2, <1>3, <2>5, <2>7, <2>9, <2>10, <2>11, Zenon DEF Held
<1>5. CASE ~Live(r)
  <2>1. entries' = entries /\ ready' = ready /\ UNCHANGED parking /\ due' = due
    BY <1>2, <1>3, <1>5, Zenon DEF WakeEnqueues
  <2>2. Dispatches' /\ Bindings' /\ Wakes'
    BY <1>1, <2>1, RunsUnchanged, DispatchesStay, BindingsUnchanged, WakesUnchanged, Zenon
       DEF Held
  <2>3. HandedKept /\ \A q : Live(q) => Live(q)'
    BY <2>1, Zenon DEF HandedKept, Handed, Live
  <2> QED
    BY <1>3, <2>1, <2>2, <2>3, Zenon DEF Held
<1> QED
  BY <1>4, <1>5, Zenon

LEMMA TimersFewer ==
  ASSUME FiniteFacts, NativeOK, timers' \subseteq timers
  PROVE  IsFiniteSet(timers') /\ Cardinality(timers') <= MaxTimers /\ timers' \subseteq Timer
<1>1. IsFiniteSet(timers) /\ Cardinality(timers) <= MaxTimers /\ timers \subseteq Timer
  BY Zenon DEF NativeOK
<1>2. IsFiniteSet(timers') /\ Cardinality(timers') <= Cardinality(timers)
  BY <1>1, FinitePart, Zenon
<1>3. Cardinality(timers) \in Nat /\ Cardinality(timers') \in Nat
  BY <1>1, <1>2, FiniteCount, Zenon
<1>4. Cardinality(timers') <= MaxTimers
  BY <1>1, <1>2, <1>3, RunAssumption
<1> QED
  BY <1>1, <1>2, <1>4, Zenon

LEMMA StimulusTyped == ASSUME Stimulus, stimuli \in 0..MaxStimuli PROVE stimuli' \in 0..MaxStimuli
  BY RunAssumption DEF Stimulus

-----------------------------------------------------------------------------
(* Calls of other threads, and the environment.                             *)

\* The calls of other threads, their returns, the passing of time and a task's completion
\* keep the invariant: what they change, they signal.
LEMMA OutsideSteps ==
  ASSUME FiniteFacts, DomainFacts
  PROVE  /\ SchedInv
         /\ \/ UNCHANGED vars \/ Tick
            \/ \E w \in Workers : Complete(w)
            \/ \E c \in calls : Return(c)
            \/ \E t \in Tasks :
                 \/ \E lane \in Lanes, r \in Registrations : Register(t, lane, r)
                 \/ Unregister(t) \/ RequestCancellation(t)
                 \/ \E d \in 0..MaxTime : RegisterTimer(t, d)
            \/ \E r \in Registrations : ExplicitWake(r)
            \/ \E u \in timers : DropTimer(u)
         => SchedInv'
<1>KeepsAll.
  ASSUME threads' = threads PROVE \A v \in Workers : Keeps(v)
  BY <1>KeepsAll, Zenon DEF Keeps
\* A step of another thread leaves the workers where they are.
<1>OutsideParts.
  ASSUME SchedInv, threads' = threads, UNCHANGED parking \/ PrepareSignal, PrepareSignal \/ Quiet
  PROVE  ThreadsOK' /\ ParkingOK' /\ Looks' /\ \A v \in Workers : Keeps(v)
  <2> USE <1>OutsideParts
  <2>1. ThreadsOK' /\ \A v \in Workers : Keeps(v)
    BY Zenon DEF SchedInv, ThreadsOK, Keeps
  <2>2. ParkingOK'
    BY ParkingKept, Zenon DEF SchedInv
  <2>3. Looks'
    BY LooksOther, Zenon DEF Looks
  <2> QED
    BY <2>1, <2>2, <2>3, Zenon
\* The rest of the invariant after a step of another thread.
<1>OutsideInv.
  ASSUME SchedInv, Core', threads' = threads, PrepareSignal \/ (Quiet /\ UNCHANGED parking)
  PROVE  SchedInv'
  BY <1>OutsideInv, <1>OutsideParts, Zenon DEF SchedInv
\* Nothing happens.
<1>QuietInv.
  ASSUME SchedInv, UNCHANGED vars
  PROVE  SchedInv'
  <2> USE <1>QuietInv
  <2>1. /\ UNCHANGED <<domain, native, outside, calls, due>> /\ UNCHANGED parking
        /\ threads' = threads
    BY Zenon DEF vars
  <2>2. Rests /\ Quiet
    BY <2>1, QuietDomain, Zenon DEF Rests, Keeps, native
  <2> QED
    BY <2>1, <2>2, RestsCore, <1>OutsideInv, Zenon DEF SchedInv
<1>RegisterInv.
  ASSUME SchedInv, NEW t \in Tasks, NEW lane \in Lanes, NEW r \in Registrations,
         Register(t, lane, r)
  PROVE  SchedInv'
  <2> USE <1>RegisterInv
  <2> DEFINE b == Called("bind", t, r)
  <2>1. Core /\ Held /\ NativeOK /\ Bindings
    BY CoreHeld, Zenon DEF SchedInv, Core
  <2>2. /\ Admission(t, lane, r) /\ calls' = calls \cup {b}
        /\ UNCHANGED <<parking, native, outside, threads, due>>
    BY Zenon DEF Register
  <2>3. /\ Agrees' /\ ready' = ready /\ running' = running /\ aborted' = aborted
        /\ DOMAIN entries \subseteq DOMAIN entries'
        /\ \A j \in DOMAIN entries \ {r.index} : entries'[j] = entries[j]
        /\ \A j \in DOMAIN entries' \ DOMAIN entries : j # r.index => entries'[j].phase = "free"
        /\ r.index \in DOMAIN entries =>
             entries[r.index].phase = "free" /\ entries[r.index].generation < r.generation
        /\ r.index \in DOMAIN entries' /\ entries'[r.index].generation = r.generation
        /\ entries'[r.index].phase = "idle" /\ entries'[r.index].task = t
    <3>1. Agrees
      BY <2>1, Zenon DEF Held
    <3>2. AdmissionDoes(t, r)
      BY <2>2, <3>1, Zenon DEF DomainFacts
    <3> QED
      BY <3>2, Zenon DEF AdmissionDoes
  <2>4. /\ bindings' = bindings /\ requested' = requested /\ timers' = timers
        /\ now' = now /\ stimuli' = stimuli /\ threads' = threads /\ due' = due
    BY <2>2, Zenon DEF native, outside
  <2>5. b \in Call /\ b.op = "bind" /\ b.task = t /\ b.registration = r
    BY DEF Called, Call, MaybeRegistration
  <2> HIDE DEF b
  <2>6. b.op \in {"bind", "withdraw"} /\ b.op # "signal" /\ b.op \notin {"wake", "observe"}
    BY <2>5
  <2>7. ASSUME NEW c PROVE c \in Binds' <=> c \in Binds \/ c = b
    BY <2>2, <2>6, Zenon DEF Binds
  \* No registration handed out or live is the new one.
  <2>8. ASSUME NEW q, Live(q)
        PROVE  /\ q.index \in DOMAIN entries \ {r.index} /\ Live(q)' /\ q # r
               /\ entries'[q.index] = entries[q.index]
    <3>1. q.index \in DOMAIN entries /\ q.index # r.index
      BY <2>3, <2>8, Zenon DEF Live
    <3> QED
      BY <2>3, <2>8, <3>1, Zenon DEF Live
  <2>9. ASSUME NEW q \in Registrations, Handed(q)
        PROVE  Handed(q)' /\ (Live(q)' => Live(q))
    <3>1. q.index \in DOMAIN entries /\ q.generation <= entries[q.index].generation
          /\ \A c \in Binds : c.registration # q
      BY <2>9, Zenon DEF Handed
    <3>2. CASE q.index = r.index
      <4>1. entries[q.index].generation < r.generation /\ entries'[q.index].generation = r.generation
        BY <2>3, <3>1, <3>2, Zenon
      <4>2. entries[q.index].generation \in Nat /\ q.generation \in Nat /\ r.generation \in Nat
        <5>1. entries[q.index] \in Entry
          BY <2>1, <3>1, AgreesTyped, Zenon DEF Held
        <5>2. entries[q.index].generation \in Nat
          BY <5>1 DEF Entry
        <5> QED
          BY <5>2 DEF Registrations
      <4>3. q.generation < r.generation /\ q.generation <= r.generation /\ q.generation # r.generation
        BY <3>1, <4>1, <4>2, SMTT(30)
      <4>4. q # r /\ ~Live(q)'
        BY <4>1, <4>3, Zenon DEF Live
      <4> QED
        BY <2>3, <2>5, <2>7, <2>9, <3>1, <3>2, <4>1, <4>3, <4>4, Zenon DEF Handed
    <3>3. CASE q.index # r.index
      <4>1. entries'[q.index] = entries[q.index] /\ q # r /\ q.index \in DOMAIN entries'
        BY <2>3, <3>1, <3>3, Zenon
      <4> QED
        BY <2>5, <2>7, <2>9, <3>1, <4>1, Zenon DEF Handed, Live
    <3> QED
      BY <3>2, <3>3, Zenon
  <2>10. HandedKept
    BY <2>9, Zenon DEF HandedKept, Handed
  <2>11. ASSUME NEW j \in DOMAIN entries', entries'[j].phase # "free", j # r.index
         PROVE  j \in DOMAIN entries /\ entries'[j] = entries[j] /\ Of(j)' = Of(j)
    <3>1. j \in DOMAIN entries /\ entries'[j] = entries[j]
      BY <2>3, <2>11, Zenon
    <3> QED
      BY <3>1, Zenon DEF Of
  <2>12. RunsKept
    <3>1. ASSUME NEW q \in Registrations, Handed(q)
          PROVE  /\ Handed(q)'
                 /\ Live(q)' => /\ Live(q)
                                /\ entries[q.index].phase = "running" =>
                                     /\ entries'[q.index].phase = "running"
                                     /\ entries'[q.index].slot <=> entries[q.index].slot
      BY <2>8, <2>9, <3>1, Zenon
    <3>2. ASSUME NEW j \in DOMAIN entries', entries'[j].phase = "running"
          PROVE  j \in DOMAIN entries /\ entries[j].phase = "running" /\ Of(j)' = Of(j)
      <4>1. entries'[j].phase # "free" /\ j # r.index
        BY <2>3, <3>2
      <4> QED
        BY <2>11, <3>2, <4>1, Zenon
    <3> QED
      BY <3>1, <3>2, Zenon DEF RunsKept
  <2>13. Dispatches'
    BY <2>1, <2>4, <2>12, <1>KeepsAll, DispatchesStay, Zenon DEF Held
  <2>14. Live(r)' /\ Of(r.index)' = r
    <3>1. Live(r)'
      BY <2>3, SMTT(30) DEF Live
    <3>2. Of(r.index)' = r
      BY <2>3 DEF Of, Registrations
    <3> QED
      BY <3>1, <3>2, SMTT(30)
  <2>15. Bindings'
    <3>1. ASSUME NEW u \in Tasks, NEW q \in Registrations, bindings'[u] = q
          PROVE  Handed(q)' /\ Live(q)' /\ entries'[q.index].task = u
      <4>1. Handed(q) /\ Live(q) /\ entries[q.index].task = u
        BY <2>1, <2>4, <3>1, Zenon DEF Bindings
      <4> QED
        BY <2>8, <2>9, <4>1, Zenon
    <3>2. ASSUME NEW i \in DOMAIN entries', entries'[i].phase # "free"
          PROVE  \/ bindings'[entries'[i].task] = Of(i)'
                 \/ \E e \in Binds' : e.registration = Of(i)'
      <4>1. CASE i = r.index
        BY <2>5, <2>7, <2>14, <4>1, Zenon
      <4>2. CASE i # r.index
        <5>1. i \in DOMAIN entries /\ entries'[i] = entries[i] /\ Of(i)' = Of(i)
          BY <2>11, <3>2, <4>2, Zenon
        <5>2. \/ bindings[entries[i].task] = Of(i)
              \/ \E e \in Binds : e.registration = Of(i)
          BY <2>1, <3>2, <5>1, Zenon DEF Bindings
        <5> QED
          BY <2>4, <2>7, <5>1, <5>2, Zenon
      <4> QED
        BY <4>1, <4>2, Zenon
    <3>3. ASSUME NEW e \in Binds
          PROVE  /\ Live(e.registration) /\ entries[e.registration.index].phase = "idle"
                 /\ entries[e.registration.index].task = e.task
                 /\ \A d \in Binds : d.registration = e.registration => d = e
      BY <2>1, <3>3, Zenon DEF Bindings
    <3>4. ASSUME NEW e \in Binds'
          PROVE  /\ Live(e.registration)' /\ entries'[e.registration.index].phase = "idle"
                 /\ entries'[e.registration.index].task = e.task
                 /\ \A d \in Binds' : d.registration = e.registration => d = e
      <4>1. CASE e = b
        <5>1. ASSUME NEW d \in Binds', d.registration = r PROVE d = b
          BY <2>7, <2>8, <3>3, <5>1, Zenon
        <5> QED
          BY <2>3, <2>5, <2>14, <4>1, <5>1, Zenon
      <4>2. CASE e \in Binds
        <5>1. /\ Live(e.registration)' /\ e.registration # r
              /\ entries'[e.registration.index] = entries[e.registration.index]
          BY <2>8, <3>3, <4>2, Zenon
        <5> QED
          BY <2>5, <2>7, <3>3, <4>2, <5>1, Zenon
      <4> QED
        BY <2>7, <3>4, <4>1, <4>2, Zenon
    <3> QED
      BY <3>1, <3>2, <3>4, Zenon DEF Bindings
  <2>16. Wakes'
    BY <2>1, <2>4, <2>8, Zenon DEF Held, Wakes
  <2>17. References'
    BY <2>1, <2>2, <2>4, <2>6, <2>10, ReferencesStay, Zenon DEF Core, HandedKept
  <2>18. NativeOK'
    BY <2>1, <2>2, <2>4, <2>5, <2>6, Zenon DEF NativeOK
  <2>19. Core'
    BY <2>1, <2>3, <2>13, <2>15, <2>16, <2>17, <2>18, Zenon DEF Core, Held
  <2>20. Quiet
    BY <2>2, <2>3, <2>4, <2>8, QuietStep, Zenon
  <2> QED
    BY <2>2, <2>4, <2>19, <2>20, <1>OutsideInv, Zenon
<1>RunsSame.
  ASSUME entries' = entries, HandedKept
  PROVE  RunsKept
  <2> USE <1>RunsSame
  <2>1. ASSUME NEW r PROVE Live(r)' <=> Live(r)
    BY Zenon DEF Live
  <2>2. ASSUME NEW j PROVE Of(j)' = Of(j)
    BY Zenon DEF Of
  <2> QED
    BY <2>1, <2>2, Zenon DEF RunsKept, HandedKept
\* A step of another thread that leaves the domain alone.
<1>OutsideCore.
  ASSUME Core, UNCHANGED domain, threads' = threads, HandedKept, NativeOK', Bindings',
         References', due' = due
  PROVE  Core'
  <2> USE <1>OutsideCore
  <2>1. entries' = entries /\ ready' = ready /\ running' = running /\ aborted' = aborted
    BY Zenon DEF domain
  <2>2. Dispatches' /\ Wakes'
    BY <2>1, <1>RunsSame, <1>KeepsAll, DispatchesStay, WakesUnchanged, Zenon DEF Core
  <2> QED
    BY <2>1, <2>2, Zenon DEF Core, Agrees
<1>SignalCall.
  /\ Called("signal", None, None) \in Call /\ Called("signal", None, None).op = "signal"
  /\ \A o, t, r : Called(o, t, r).op = o /\ Called(o, t, r).task = t
                  /\ Called(o, t, r).registration = r
  BY DEF Called, Call, MaybeRegistration
\* Calls other than bindings come and go.
<1>OtherCalls.
  ASSUME Core, UNCHANGED domain, bindings' = bindings,
         \A c : c.op \in {"bind", "withdraw"} => (c \in calls' <=> c \in calls)
  PROVE  Binds' = Binds /\ HandedKept /\ Bindings'
  <2> USE <1>OtherCalls
  <2>1. entries' = entries
    BY Zenon DEF domain
  <2>2. Binds' = Binds
    <3>1. ASSUME NEW c PROVE c \in Binds' <=> c \in Binds
      <4>1. CASE c.op \in {"bind", "withdraw"}
        <5>1. c \in calls' <=> c \in calls
          BY <4>1
        <5> QED
          BY <4>1, <5>1, Zenon DEF Binds
      <4>2. CASE c.op \notin {"bind", "withdraw"}
        BY <4>2, Zenon DEF Binds
      <4> QED
        BY <4>1, <4>2, Zenon
    <3> QED
      BY <3>1, Zenon
  <2>3. HandedKept
    BY <2>1, <2>2, Zenon DEF HandedKept, Handed
  <2> QED
    BY <2>1, <2>2, <2>3, BindingsUnchanged, Zenon DEF Core
<1>RequestCancellationInv.
  ASSUME SchedInv, NEW t \in Tasks, RequestCancellation(t)
  PROVE  SchedInv'
  <2> USE <1>RequestCancellationInv
  <2>1. Core /\ NativeOK
    BY CoreHeld, Zenon DEF SchedInv
  <2>2. /\ requested' = requested \cup {t}
        /\ UNCHANGED <<domain, parking, bindings, timers, outside, threads, due>>
    BY Zenon DEF RequestCancellation
  <2>3. \/ calls' = calls
        \/ \E r \in Registrations : Handed(r) /\ calls' = calls \cup {Called("wake", t, r)}
    <3>1. CASE bindings[t] = None
      BY <3>1, Zenon DEF RequestCancellation
    <3>2. CASE bindings[t] # None
      <4>1. PICK r \in Registrations : bindings[t] = r /\ Handed(r)
        BY <2>1, <3>2, BoundTask, Zenon
      <4> QED
        BY <3>2, <4>1, Zenon DEF RequestCancellation
    <3> QED
      BY <3>1, <3>2, Zenon
  <2>4. ASSUME NEW c \in calls', c \notin calls
        PROVE  c \in Call /\ c.op = "wake" /\ c.task = t /\ Handed(c.registration)
               /\ c.registration \in Registrations
    <3>1. PICK r \in Registrations : Handed(r) /\ c = Called("wake", t, r)
      BY <2>3, <2>4, Zenon
    <3>2. c \in Call /\ c.op = "wake" /\ c.task = t /\ c.registration = r
      BY <3>1 DEF Called, Call, MaybeRegistration
    <3> QED
      BY <3>1, <3>2, Zenon
  <2>5. calls \subseteq calls'
    BY <2>3, Zenon
  <2>6. ASSUME NEW c, c.op \in {"bind", "withdraw"} PROVE c \in calls' <=> c \in calls
    BY <2>4, <2>5, <2>6
  <2>7. HandedKept /\ Bindings'
    BY <2>1, <2>2, <2>6, <1>OtherCalls, Zenon
  <2>8. References'
    BY <2>1, <2>2, <2>4, <2>7, ReferencesStay, Zenon DEF Core, HandedKept
  <2>9. NativeOK'
    <3>1. ASSUME NEW c \in calls'
          PROVE  /\ c \in Call
                 /\ IF c.op = "signal" THEN c = Called("signal", None, None)
                    ELSE c.task \in Tasks /\ c.registration \in Registrations
      <4>1. CASE c \in calls
        BY <2>1, <4>1, Zenon DEF NativeOK
      <4>2. CASE c \notin calls
        <5>1. c \in Call /\ c.op = "wake" /\ c.task = t /\ c.registration \in Registrations
          BY <2>4, <3>1, <4>2, Zenon
        <5>2. c.op # "signal"
          BY <5>1
        <5> QED
          BY <5>1, <5>2, Zenon
      <4> QED
        BY <4>1, <4>2, Zenon
    <3> QED
      BY <2>1, <2>2, <3>1, Zenon DEF NativeOK, outside
  <2>10. Core' /\ Quiet
    BY <2>1, <2>2, <2>5, <2>7, <2>8, <2>9, <1>OutsideCore, QuietDomain, Zenon
  <2> QED
    BY <2>2, <2>10, <1>OutsideInv, Zenon
<1>RegisterTimerInv.
  ASSUME SchedInv, NEW t \in Tasks, NEW d \in 0..MaxTime, RegisterTimer(t, d)
  PROVE  SchedInv'
  <2> USE <1>RegisterTimerInv
  <2> DEFINE u == [task |-> t, registration |-> bindings[t], deadline |-> d]
             s == Called("signal", None, None)
  <2>1. Core /\ NativeOK
    BY CoreHeld, Zenon DEF SchedInv
  <2>2. /\ bindings[t] # None /\ Cardinality(timers) < MaxTimers /\ Stimulus
        /\ timers' = timers \cup {u} /\ calls' = calls \cup {s}
        /\ UNCHANGED <<domain, parking, bindings, requested, now, threads, due>>
    BY Zenon DEF RegisterTimer
  <2>3. PICK r \in Registrations : bindings[t] = r /\ Handed(r)
    BY <2>1, <2>2, BoundTask, Zenon
  <2>4. u \in Timer /\ u.registration = r
    BY <2>3 DEF Timer
  <2>5. s \in Call /\ s.op = "signal"
    BY <1>SignalCall, Zenon
  <2> HIDE DEF u, s
  <2>6. ASSUME NEW c, c.op \in {"bind", "withdraw"} PROVE c \in calls' <=> c \in calls
    <3>1. c # s
      BY <2>5, <2>6
    <3> QED
      BY <2>2, <3>1, Zenon
  <2>7. HandedKept /\ Bindings'
    BY <2>1, <2>2, <2>6, <1>OtherCalls, Zenon
  <2>8. IsFiniteSet(timers') /\ Cardinality(timers') <= MaxTimers
    <3>1. IsFiniteSet(timers) /\ Cardinality(timers) \in Nat
      BY <2>1, FiniteCount, Zenon DEF NativeOK
    <3>2. IsFiniteSet(timers') /\ (Cardinality(timers') = Cardinality(timers)
                                   \/ Cardinality(timers') = Cardinality(timers) + 1)
      BY <2>2, <3>1, FiniteAdd, Zenon
    <3> QED
      BY <2>2, <3>1, <3>2, RunAssumption, SMTT(30)
  <2>9. NativeOK'
    BY <2>1, <2>2, <2>4, <2>5, <2>8, StimulusTyped, Zenon DEF NativeOK, s
  <2>10. References'
    <3>1. s.op \notin {"wake", "observe"}
      BY <2>5
    <3> QED
      BY <2>1, <2>2, <2>3, <2>4, <2>7, <3>1, ReferencesStay, Zenon DEF Core, HandedKept
  <2>11. Core'
    BY <2>1, <2>2, <2>7, <2>9, <2>10, <1>OutsideCore, Zenon
  <2>12. Quiet
    BY <2>2, QuietDomain, Zenon DEF s
  <2> QED
    BY <2>2, <2>11, <2>12, <1>OutsideInv, Zenon
<1>TickInv.
  ASSUME SchedInv, Tick
  PROVE  SchedInv'
  <2> USE <1>TickInv
  <2>1. Core /\ NativeOK
    BY CoreHeld, Zenon DEF SchedInv
  <2>2. /\ bindings' = bindings /\ requested' = requested /\ timers' = timers
        /\ stimuli' = stimuli /\ calls' = calls
        /\ UNCHANGED <<domain, parking, threads, due>>
    BY Zenon DEF Tick, native
  <2>3. now' \in 0..MaxTime
    <3>1. now \in 0..MaxTime
      BY <2>1, Zenon DEF NativeOK
    <3> QED
      BY <3>1, RunAssumption DEF Tick
  <2>4. HandedKept /\ Bindings'
    BY <2>1, <2>2, <1>OtherCalls, Zenon
  <2>5. References'
    BY <2>1, <2>2, <2>4, ReferencesStay, Zenon DEF Core, HandedKept
  <2>6. NativeOK'
    BY <2>1, <2>2, <2>3, Zenon DEF NativeOK
  <2>7. Core' /\ Quiet
    BY <2>1, <2>2, <2>4, <2>5, <2>6, <1>OutsideCore, QuietDomain, Zenon
  <2> QED
    BY <2>2, <2>7, <1>OutsideInv, Zenon
<1>ExplicitWakeInv.
  ASSUME SchedInv, NEW r \in Registrations, ExplicitWake(r)
  PROVE  SchedInv'
  <2> USE <1>ExplicitWakeInv
  <2>1. /\ WakeAndSignal(r) /\ Stimulus /\ threads' = threads /\ bindings' = bindings
        /\ requested' = requested /\ timers' = timers /\ now' = now /\ calls' = calls
    BY Zenon DEF ExplicitWake, native
  <2>2. Handed(r)
    BY Zenon DEF ExplicitWake, Handed, Binds, Row
  <2>3. Binds' = Binds
    BY <2>1, Zenon DEF Binds
  <2>4. Core
    BY Zenon DEF SchedInv
  <2>5. /\ Held' /\ HandedKept
        /\ \/ PrepareSignal
           \/ UNCHANGED parking /\ ready' = ready /\ running' = running
              /\ \A q : Live(q) => Live(q)'
    BY <2>1, <2>2, <2>3, <2>4, <1>KeepsAll, WakeHeld, Zenon
  <2>6. References'
    BY <2>1, <2>4, <2>5, ReferencesStay, Zenon DEF Core, HandedKept
  <2>7. NativeOK'
    BY <2>1, <2>4, <2>5, StimulusTyped, Zenon DEF Core, NativeOK, Held
  <2>8. Core'
    BY <2>5, <2>6, <2>7, Zenon DEF Core, Held
  <2>9. PrepareSignal \/ (Quiet /\ UNCHANGED parking)
    BY <2>1, <2>5, QuietStep, Zenon
  <2> QED
    BY <2>1, <2>8, <2>9, <1>OutsideParts, Zenon DEF SchedInv
<1>DropTimerInv.
  ASSUME SchedInv, NEW u, DropTimer(u)
  PROVE  SchedInv'
  <2> USE <1>DropTimerInv
  <2>1. Core /\ NativeOK
    BY CoreHeld, Zenon DEF SchedInv
  <2>2. /\ timers' \subseteq timers
        /\ UNCHANGED <<domain, parking, bindings, requested, outside, calls, threads, due>>
    BY Zenon DEF DropTimer
  <2>3. HandedKept /\ Bindings'
    BY <2>1, <2>2, <1>OtherCalls, Zenon
  <2>4. NativeOK'
    BY <2>1, <2>2, TimersFewer, Zenon DEF NativeOK, outside
  <2>5. References'
    BY <2>1, <2>2, <2>3, ReferencesStay, Zenon DEF Core, HandedKept
  <2>6. Core' /\ Quiet
    BY <2>1, <2>2, <2>3, <2>4, <2>5, <1>OutsideCore, QuietDomain, Zenon
  <2> QED
    BY <2>2, <2>6, <1>OutsideInv, Zenon
\* The entry of r is withdrawn, and with it what was bound to r.
<1>BindingsWithdraw.
  ASSUME Registered, NEW r \in Registrations, Live(r), Moves(r.index),
         entries'[r.index].phase = "free", Binds' = {c \in Binds : c.registration # r},
         \A t \in Tasks : bindings'[t] = IF bindings[t] = r THEN None ELSE bindings[t]
  PROVE  Bindings'
  <2> USE <1>BindingsWithdraw
  <2> DEFINE i == r.index
  <2>1. /\ i \in DOMAIN entries /\ DOMAIN entries' = DOMAIN entries
        /\ \A j \in DOMAIN entries \ {i} : entries'[j] = entries[j]
        /\ r = Of(i) /\ entries[i].phase # "free" /\ Steady
    <3>1. Steady
      BY MovesSteady, Zenon
    <3> QED
      BY <3>1, LiveOf, Zenon DEF Moves
  <2>2. ASSUME NEW q \in Registrations, Live(q), q # r
        PROVE  q.index \in DOMAIN entries /\ q.index # i /\ Live(q)'
               /\ entries'[q.index] = entries[q.index]
    <3>1. q = Of(q.index) /\ q.index \in DOMAIN entries
      BY <2>2, LiveOf, Zenon
    <3>2. q.index # i
      BY <2>1, <2>2, <3>1
    <3> QED
      BY <2>1, <2>2, <3>1, <3>2, Zenon DEF Live
  <2>3. ASSUME NEW t \in Tasks, NEW q \in Registrations, bindings'[t] = q
        PROVE  Handed(q)' /\ Live(q)' /\ entries'[q.index].task = t
    <3>1. bindings[t] = q /\ q # r
      BY <2>3, RegistrationNotNone, Zenon
    <3>2. Handed(q) /\ Live(q) /\ entries[q.index].task = t
      BY <3>1, Zenon DEF Registered, Bindings
    <3> QED
      BY <2>1, <2>2, <3>1, <3>2, HandedStays, Zenon
  <2>4. ASSUME NEW j \in DOMAIN entries', entries'[j].phase # "free"
        PROVE  \/ bindings'[entries'[j].task] = Of(j)'
               \/ \E c \in Binds' : c.registration = Of(j)'
    <3>1. j \in DOMAIN entries /\ j # i /\ entries'[j] = entries[j]
      BY <2>1, <2>4, Zenon
    <3>2. bindings[entries[j].task] = Of(j) \/ \E c \in Binds : c.registration = Of(j)
      BY <2>4, <3>1, Zenon DEF Registered, Bindings
    <3>3. Of(j)' = Of(j)
      BY <3>1, Zenon DEF Of
    <3>4. Of(j) # r /\ entries[j].task \in Tasks
      <4>1. RowOK(entries[j]) /\ Agrees
        BY <3>1, AgreesTyped, Zenon DEF Registered
      <4>2. Of(j).index = j
        BY DEF Of
      <4> QED
        BY <2>4, <3>1, <4>1, <4>2, Zenon DEF RowOK
    <3> QED
      BY <3>1, <3>2, <3>3, <3>4, Zenon
  <2>5. ASSUME NEW c \in Binds'
        PROVE  /\ Live(c.registration)' /\ entries'[c.registration.index].phase = "idle"
               /\ entries'[c.registration.index].task = c.task
               /\ \A d \in Binds' : d.registration = c.registration => d = c
    <3>1. c \in Binds /\ c.registration # r
      BY <2>5, Zenon
    <3>2. /\ Live(c.registration) /\ entries[c.registration.index].phase = "idle"
          /\ entries[c.registration.index].task = c.task
          /\ \A d \in Binds : d.registration = c.registration => d = c
          /\ c.registration \in Registrations
      <4>1. c.op # "signal" /\ c \in calls
        BY <3>1 DEF Binds
      <4> QED
        BY <3>1, <4>1, Zenon DEF Registered, Bindings, NativeOK
    <3>3. Live(c.registration)' /\ entries'[c.registration.index] = entries[c.registration.index]
      BY <2>2, <3>1, <3>2, Zenon
    <3>4. \A d \in Binds' : d \in Binds
      BY Zenon
    <3> QED
      BY <3>2, <3>3, <3>4, Zenon
  <2> QED
    BY <2>3, <2>4, <2>5, Zenon DEF Bindings
<1>RunsWithdrawn.
  ASSUME NEW r, Moves(r.index), entries'[r.index].phase = "free", Binds' \subseteq Binds
  PROVE  RunsKept
  <2> USE <1>RunsWithdrawn
  <2> DEFINE i == r.index
  <2>1. Steady
    BY MovesSteady, Zenon
  <2>2. /\ i \in DOMAIN entries /\ DOMAIN entries' = DOMAIN entries
        /\ \A j \in DOMAIN entries \ {i} : entries'[j] = entries[j]
    BY Zenon DEF Moves
  <2>3. ASSUME NEW j \in DOMAIN entries, j # i PROVE Of(j)' = Of(j)
    BY <2>2, <2>3, Zenon DEF Of
  <2>4. ASSUME NEW q \in Registrations, Handed(q), Live(q)'
        PROVE  Live(q) /\ entries'[q.index] = entries[q.index]
    BY <2>2, <2>4, Zenon DEF Live
  <2>5. \A j \in DOMAIN entries' : entries'[j].phase = "running" =>
          j \in DOMAIN entries /\ entries[j].phase = "running" /\ Of(j)' = Of(j)
    BY <2>2, <2>3
  <2> QED
    BY <2>1, <2>4, <2>5, HandedStays, Zenon DEF RunsKept
<1>WithdrawHeld.
  ASSUME Core, NEW r \in Registrations, Live(r), WithdrawAndSignal(r),
         Binds' = {c \in Binds : c.registration # r},
         \A t \in Tasks : bindings'[t] = IF bindings[t] = r THEN None ELSE bindings[t],
         \A v \in Workers : Keeps(v)
  PROVE  Held' /\ HandedKept /\ PrepareSignal
  <2> USE <1>WithdrawHeld
  <2> DEFINE i == r.index
  <2>1. Held /\ Registered
    BY CoreHeld, Zenon
  <2>2. Withdrawal(r) /\ PrepareSignal /\ due' = due \ {r}
    BY Zenon DEF WithdrawAndSignal
  <2>3. Agrees' /\ ~aborted' /\ Moves(i) /\ entries'[i].phase = "free"
    BY <2>1, <2>2, Zenon DEF Held, DomainFacts, WithdrawalDoes
  <2>4. r = Of(i) /\ i \in DOMAIN entries /\ entries[i].phase # "free"
    BY LiveOf, Zenon
  <2>5. Binds' \subseteq Binds
    BY Zenon
  <2>6. Bindings'
    BY <2>1, <2>3, <1>BindingsWithdraw, Zenon
  <2>7. Dispatches'
    BY <2>1, <2>3, <2>5, <1>RunsWithdrawn, DispatchesStay, Zenon DEF Held
  <2>8. Wakes' /\ due' \subseteq Registrations
    BY <2>1, <2>2, <2>3, <2>4, WakesMove, Zenon DEF Held
  <2>9. HandedKept
    BY <2>3, <2>5, MovesSteady, HandedStays, Zenon DEF HandedKept
  <2> QED
    BY <2>2, <2>3, <2>6, <2>7, <2>8, <2>9, Zenon DEF Held
<1>UnregisterInv.
  ASSUME SchedInv, NEW t \in Tasks, Unregister(t)
  PROVE  SchedInv'
  <2> USE <1>UnregisterInv
  <2>1. Core /\ Held /\ NativeOK
    BY CoreHeld, Zenon DEF SchedInv
  <2>2. /\ bindings[t] # None /\ bindings' = [bindings EXCEPT ![t] = None]
        /\ timers' \subseteq timers /\ WithdrawAndSignal(bindings[t])
        /\ requested' = requested /\ now' = now /\ stimuli' = stimuli /\ calls' = calls
        /\ threads' = threads
    BY Zenon DEF Unregister, outside
  <2>3. PICK r \in Registrations : /\ bindings[t] = r /\ Handed(r) /\ Live(r)
                                   /\ \A u \in Tasks : bindings[u] = r => u = t
    BY <2>1, <2>2, BoundTask, Zenon
  <2>4. bindings \in [Tasks -> MaybeRegistration] /\ None \in MaybeRegistration
    BY <2>1, Zenon DEF NativeOK, MaybeRegistration
  <2>5. Binds' = {c \in Binds : c.registration # r}
    <3>1. Binds' = Binds
      BY <2>2, Zenon DEF Binds
    <3> QED
      BY <2>3, <3>1, Zenon DEF Handed
  <2>6. \A u \in Tasks : bindings'[u] = IF bindings[u] = r THEN None ELSE bindings[u]
    BY <2>2, <2>3, <2>4, Zenon
  <2>7. Held' /\ HandedKept /\ PrepareSignal
    BY <2>1, <2>2, <2>3, <2>5, <2>6, <1>KeepsAll, <1>WithdrawHeld, Zenon
  <2>8. References'
    BY <2>1, <2>2, <2>7, ReferencesStay, Zenon DEF Core, HandedKept
  <2>9. bindings' \in [Tasks -> MaybeRegistration]
    BY <2>2, <2>4, Zenon
  <2>10. NativeOK'
    BY <2>1, <2>2, <2>7, <2>9, TimersFewer, Zenon DEF NativeOK, Held
  <2>11. Core'
    BY <2>7, <2>8, <2>10, Zenon DEF Core, Held
  <2> QED
    BY <2>2, <2>7, <2>11, <1>OutsideParts, Zenon DEF SchedInv
<1>CompleteInv.
  ASSUME SchedInv, NEW w \in Workers, Complete(w)
  PROVE  SchedInv'
  BY <1>CompleteInv, <1>UnregisterInv, Zenon DEF Complete, Bound
<1>CallTyped.
  ASSUME NativeOK, NEW c \in calls
  PROVE  /\ c \in Call
         /\ c.op # "signal" => c.task \in Tasks /\ c.registration \in Registrations
         /\ c.op = "signal" => c = Called("signal", None, None)
  BY <1>CallTyped, Zenon DEF NativeOK
<1>ReturnBinds.
  ASSUME SchedInv, NEW c \in calls, c.op = "bind", Bind(c),
         UNCHANGED <<domain, parking, due, timers, requested, outside, threads>>
  PROVE  SchedInv'
  <2> USE <1>ReturnBinds
  <2>1. Core /\ NativeOK /\ Bindings
    BY CoreHeld, Zenon DEF SchedInv, Core
  <2>2. c \in Call /\ c.task \in Tasks /\ c.registration \in Registrations
    <3>1. c.op # "signal"
      OBVIOUS
    <3> QED
      BY <2>1, <3>1, <1>CallTyped, Zenon
  <2>3. PICK r \in Registrations : r = c.registration
    BY <2>2, Zenon
  <2>4. c \in Binds
    BY Zenon DEF Binds
  <2>5. /\ Live(r) /\ entries[r.index].phase = "idle" /\ entries[r.index].task = c.task
        /\ \A d \in Binds : d.registration = r => d = c
    BY <2>1, <2>3, <2>4, Zenon DEF Bindings
  <2>6. entries' = entries
    BY Zenon DEF domain
  <2>7. ASSUME NEW q PROVE (Live(q)' <=> Live(q)) /\ (Of(q)' = Of(q))
    BY <2>6, Zenon DEF Live, Of
  <2>8. c # Called("signal", None, None)
    BY <1>SignalCall
  <2>9. CASE bindings[c.task] # None
    <3> DEFINE d == [c EXCEPT !.op = "withdraw"]
    <3>1. calls' = (calls \ {c}) \cup {d} /\ bindings' = bindings
      BY <2>9, Zenon DEF Bind
    <3>2. d \in Call /\ d.op = "withdraw" /\ d.task = c.task /\ d.registration = r
      BY <2>2, <2>3, SMTT(30) DEF Call
    <3> HIDE DEF d
    <3>3. d.op \in {"bind", "withdraw"} /\ d.op # "signal" /\ d.op \notin {"wake", "observe"}
      BY <3>2
    <3>4. ASSUME NEW e PROVE e \in Binds' <=> (e \in Binds /\ e # c) \/ e = d
      BY <3>1, <3>3, Zenon DEF Binds
    <3>5. ASSUME NEW q PROVE Handed(q)' <=> Handed(q)
      BY <2>3, <2>4, <2>6, <3>2, <3>4, Zenon DEF Handed
    <3>6. Bindings'
      <4>1. ASSUME NEW t \in Tasks, NEW q \in Registrations, bindings'[t] = q
            PROVE  Handed(q)' /\ Live(q)' /\ entries'[q.index].task = t
        BY <2>1, <2>6, <2>7, <3>1, <3>5, <4>1, Zenon DEF Bindings
      <4>2. ASSUME NEW i \in DOMAIN entries', entries'[i].phase # "free"
            PROVE  \/ bindings'[entries'[i].task] = Of(i)'
                   \/ \E e \in Binds' : e.registration = Of(i)'
        <5>1. \/ bindings[entries[i].task] = Of(i)
              \/ \E e \in Binds : e.registration = Of(i)
          BY <2>1, <2>6, <4>2, Zenon DEF Bindings
        <5>2. ASSUME NEW e \in Binds, e.registration = Of(i)
              PROVE  \E b \in Binds' : b.registration = Of(i)
          BY <2>3, <3>2, <3>4, <5>2, Zenon
        <5> QED
          BY <2>6, <2>7, <3>1, <5>1, <5>2, Zenon
      <4>3. ASSUME NEW e \in Binds'
            PROVE  /\ Live(e.registration)' /\ entries'[e.registration.index].phase = "idle"
                   /\ entries'[e.registration.index].task = e.task
                   /\ \A b \in Binds' : b.registration = e.registration => b = e
        <5>1. ASSUME NEW b \in Binds, b # c PROVE b.registration # r
          BY <2>5, <5>1, Zenon
        <5>2. CASE e = d
          BY <2>5, <2>6, <2>7, <3>2, <3>4, <5>1, <5>2, Zenon
        <5>3. CASE e \in Binds /\ e # c
          <6>1. /\ Live(e.registration) /\ entries[e.registration.index].phase = "idle"
                /\ entries[e.registration.index].task = e.task
                /\ \A b \in Binds : b.registration = e.registration => b = e
            BY <2>1, <5>3, Zenon DEF Bindings
          <6>2. e.registration # r
            BY <5>1, <5>3, Zenon
          <6> QED
            BY <2>6, <2>7, <3>2, <3>4, <6>1, <6>2, Zenon
        <5> QED
          BY <3>4, <4>3, <5>2, <5>3, Zenon
      <4> QED
        BY <4>1, <4>2, <4>3, Zenon DEF Bindings
    <3>7. References'
      BY <2>1, <3>1, <3>3, <3>5, ReferencesStay, Zenon DEF Core
    <3>8. NativeOK'
      BY <2>1, <2>2, <2>3, <3>1, <3>2, <3>3, Zenon DEF NativeOK, outside
    <3>9. Core'
      BY <2>1, <3>5, <3>6, <3>7, <3>8, <1>OutsideCore, Zenon DEF HandedKept
    <3>10. Quiet
      BY <2>8, <3>1, QuietDomain, Zenon
    <3> QED
      BY <3>9, <3>10, <1>OutsideInv, Zenon
  <2>10. CASE bindings[c.task] = None
    <3> DEFINE d == [c EXCEPT !.op = "observe"]
    <3>1. calls' = (calls \ {c}) \cup {d} /\ bindings' = [bindings EXCEPT ![c.task] = r]
      BY <2>3, <2>10, Zenon DEF Bind
    <3>2. d \in Call /\ d.op = "observe" /\ d.task = c.task /\ d.registration = r
      BY <2>2, <2>3, SMTT(30) DEF Call
    <3> HIDE DEF d
    <3>3. d.op \notin {"bind", "withdraw"} /\ d.op # "signal"
      BY <3>2
    <3>4. ASSUME NEW e PROVE e \in Binds' <=> e \in Binds /\ e # c
      BY <3>1, <3>3, Zenon DEF Binds
    <3>5. HandedKept /\ Handed(r)'
      <4>1. HandedKept
        BY <2>6, <3>4, Zenon DEF HandedKept, Handed
      <4>2. /\ r.index \in DOMAIN entries /\ entries[r.index].generation = r.generation
            /\ r.generation \in Nat
        BY <2>5, SMTT(30) DEF Live, Registrations
      <4>3. r.generation <= entries[r.index].generation
        BY <4>2
      <4> QED
        BY <2>5, <2>6, <3>4, <4>1, <4>2, <4>3, Zenon DEF Handed
    <3>6. /\ bindings \in [Tasks -> MaybeRegistration] /\ r \in MaybeRegistration
          /\ bindings' \in [Tasks -> MaybeRegistration] /\ bindings'[c.task] = r
          /\ \A t \in Tasks \ {c.task} : bindings'[t] = bindings[t]
      <4>1. bindings \in [Tasks -> MaybeRegistration] /\ r \in MaybeRegistration
        BY <2>1, Zenon DEF NativeOK, MaybeRegistration
      <4> QED
        BY <2>2, <3>1, <4>1, Zenon
    <3>7. Bindings'
      <4>1. ASSUME NEW t \in Tasks, NEW q \in Registrations, bindings'[t] = q
            PROVE  Handed(q)' /\ Live(q)' /\ entries'[q.index].task = t
        <5>1. CASE t = c.task
          BY <2>5, <2>6, <2>7, <3>5, <3>6, <4>1, <5>1, Zenon
        <5>2. CASE t # c.task
          <6>1. Handed(q) /\ Live(q) /\ entries[q.index].task = t
            BY <2>1, <3>6, <4>1, <5>2, Zenon DEF Bindings
          <6> QED
            BY <2>6, <2>7, <3>5, <6>1, Zenon DEF HandedKept
        <5> QED
          BY <5>1, <5>2, Zenon
      <4>2. ASSUME NEW i \in DOMAIN entries', entries'[i].phase # "free"
            PROVE  \/ bindings'[entries'[i].task] = Of(i)'
                   \/ \E e \in Binds' : e.registration = Of(i)'
        <5>1. \/ bindings[entries[i].task] = Of(i)
              \/ \E e \in Binds : e.registration = Of(i)
          BY <2>1, <2>6, <4>2, Zenon DEF Bindings
        <5>2. entries[i].task \in Tasks /\ Of(i) # None /\ Of(i).index = i
          BY <2>1, <2>6, <4>2, AgreesTyped, OfTyped, Zenon DEF Core, RowOK
        <5>3. CASE bindings[entries[i].task] = Of(i)
          <6>1. entries[i].task # c.task
            BY <2>10, <5>2, <5>3, Zenon
          <6> QED
            BY <2>6, <2>7, <3>6, <5>2, <5>3, <6>1, Zenon
        <5>4. ASSUME NEW e \in Binds, e.registration = Of(i)
              PROVE  \/ bindings'[entries[i].task] = Of(i)
                     \/ \E b \in Binds' : b.registration = Of(i)
          <6>1. CASE e = c
            BY <2>3, <2>5, <3>6, <5>2, <5>4, <6>1, Zenon
          <6>2. CASE e # c
            BY <3>4, <5>4, <6>2, Zenon
          <6> QED
            BY <6>1, <6>2, Zenon
        <5> QED
          BY <2>6, <2>7, <5>1, <5>3, <5>4, Zenon
      <4>3. ASSUME NEW e \in Binds'
            PROVE  /\ Live(e.registration)' /\ entries'[e.registration.index].phase = "idle"
                   /\ entries'[e.registration.index].task = e.task
                   /\ \A b \in Binds' : b.registration = e.registration => b = e
        <5>1. /\ Live(e.registration) /\ entries[e.registration.index].phase = "idle"
              /\ entries[e.registration.index].task = e.task
              /\ \A b \in Binds : b.registration = e.registration => b = e
          BY <2>1, <3>4, <4>3, Zenon DEF Bindings
        <5> QED
          BY <2>6, <2>7, <3>4, <5>1, Zenon
      <4> QED
        BY <4>1, <4>2, <4>3, Zenon DEF Bindings
    <3>8. References'
      BY <2>1, <3>1, <3>2, <3>5, ReferencesStay, Zenon DEF Core, HandedKept
    <3>9. NativeOK'
      BY <2>1, <2>2, <2>3, <3>1, <3>2, <3>3, <3>6, Zenon DEF NativeOK, outside
    <3>10. Core'
      BY <2>1, <3>5, <3>7, <3>8, <3>9, <1>OutsideCore, Zenon
    <3>11. Quiet
      BY <2>8, <3>1, QuietDomain, Zenon
    <3> QED
      BY <3>10, <3>11, <1>OutsideInv, Zenon
  <2> QED
    BY <2>9, <2>10, Zenon
<1>ReturnObserves.
  ASSUME SchedInv, NEW c \in calls, c.op = "observe", Observe(c),
         UNCHANGED <<domain, parking, bindings, due, timers, requested, outside, threads>>
  PROVE  SchedInv'
  <2> USE <1>ReturnObserves
  <2> DEFINE d == [c EXCEPT !.op = "wake"]
  <2>1. Core /\ NativeOK
    BY CoreHeld, Zenon DEF SchedInv
  <2>2. calls' = (calls \ {c}) \cup {d} \/ calls' = calls \ {c}
    BY Zenon DEF Observe
  <2>3. c \in Call /\ c.task \in Tasks /\ c.registration \in Registrations
    <3>1. c.op # "signal"
      OBVIOUS
    <3> QED
      BY <2>1, <3>1, <1>CallTyped, Zenon
  <2>4. d \in Call /\ d.op = "wake" /\ d.task = c.task /\ d.registration = c.registration
    BY <2>3 DEF Call
  <2> HIDE DEF d
  <2>5. ASSUME NEW e, e.op \in {"bind", "withdraw"} PROVE e \in calls' <=> e \in calls
    <3>1. e # c /\ e # d
      BY <2>4, <2>5
    <3> QED
      BY <2>2, <3>1, Zenon
  <2>6. HandedKept /\ Bindings'
    BY <2>1, <2>5, <1>OtherCalls, Zenon
  <2>7. Handed(d.registration)
    <3>1. c.op \in {"wake", "observe"}
      OBVIOUS
    <3> QED
      BY <2>1, <2>4, <3>1, Zenon DEF Core, References
  <2>8. \A e \in calls' : e \in calls \/ e = d
    BY <2>2, Zenon
  <2>9. References'
    BY <2>1, <2>6, <2>7, <2>8, ReferencesStay, Zenon DEF Core, HandedKept
  <2>10. NativeOK'
    <3>1. d.op # "signal"
      BY <2>4
    <3> QED
      BY <2>1, <2>3, <2>4, <2>8, <3>1, Zenon DEF NativeOK, outside
  <2>11. Core'
    BY <2>1, <2>6, <2>9, <2>10, <1>OutsideCore, Zenon
  <2>12. Quiet
    <3>1. c # Called("signal", None, None)
      BY <1>SignalCall
    <3> QED
      BY <2>2, <3>1, QuietDomain, Zenon
  <2> QED
    BY <2>11, <2>12, <1>OutsideInv, Zenon
<1>ReturnWakes.
  ASSUME SchedInv, NEW c \in calls, c.op = "wake", calls' = calls \ {c},
         WakeAndSignal(c.registration), bindings' = bindings,
         UNCHANGED <<timers, requested, outside, threads>>
  PROVE  SchedInv'
  <2> USE <1>ReturnWakes
  <2>1. Core /\ NativeOK
    BY CoreHeld, Zenon DEF SchedInv
  <2>2. PICK r \in Registrations : r = c.registration
    <3>1. c.op # "signal"
      OBVIOUS
    <3> QED
      BY <2>1, <3>1, <1>CallTyped, Zenon
  <2>3. Handed(r)
    <3>1. c.op \in {"wake", "observe"}
      OBVIOUS
    <3> QED
      BY <2>1, <2>2, <3>1, Zenon DEF Core, References
  <2>4. Binds' = Binds
    <3>1. c.op \notin {"bind", "withdraw"}
      OBVIOUS
    <3> QED
      BY <3>1, Zenon DEF Binds
  <2>5. /\ Held' /\ HandedKept
        /\ \/ PrepareSignal
           \/ UNCHANGED parking /\ ready' = ready /\ running' = running
              /\ \A q : Live(q) => Live(q)'
    BY <2>1, <2>2, <2>3, <2>4, <1>KeepsAll, WakeHeld, Zenon
  <2>6. References'
    BY <2>1, <2>5, ReferencesStay, Zenon DEF Core, HandedKept
  <2>7. NativeOK'
    BY <2>1, <2>5, Zenon DEF NativeOK, Held, outside
  <2>8. Core'
    BY <2>5, <2>6, <2>7, Zenon DEF Core, Held
  <2>9. PrepareSignal \/ (Quiet /\ UNCHANGED parking)
    <3>1. c # Called("signal", None, None)
      BY <1>SignalCall
    <3> QED
      BY <2>5, <3>1, QuietStep, Zenon
  <2> QED
    BY <2>8, <2>9, <1>OutsideInv, Zenon
<1>ReturnWithdraws.
  ASSUME SchedInv, NEW c \in calls, c.op = "withdraw", calls' = calls \ {c},
         WithdrawAndSignal(c.registration), bindings' = bindings,
         UNCHANGED <<timers, requested, outside, threads>>
  PROVE  SchedInv'
  <2> USE <1>ReturnWithdraws
  <2>1. Core /\ NativeOK
    BY CoreHeld, Zenon DEF SchedInv
  <2>2. PICK r \in Registrations : r = c.registration
    <3>1. c.op # "signal"
      OBVIOUS
    <3> QED
      BY <2>1, <3>1, <1>CallTyped, Zenon
  <2>3. c \in Binds
    BY Zenon DEF Binds
  <2>4. Live(r) /\ \A d \in Binds : d.registration = r => d = c
    BY <2>1, <2>2, <2>3, Zenon DEF Core, Bindings
  <2>5. Binds' = {d \in Binds : d.registration # r}
    <3>1. ASSUME NEW d PROVE d \in Binds' <=> d \in Binds /\ d # c
      BY Zenon DEF Binds
    <3> QED
      BY <2>2, <2>4, <3>1, Zenon
  <2>6. \A t \in Tasks : bindings'[t] = IF bindings[t] = r THEN None ELSE bindings[t]
    BY <2>1, <2>2, <2>3, Zenon DEF Core, Bindings, Handed
  <2>7. Held' /\ HandedKept /\ PrepareSignal
    BY <2>1, <2>2, <2>4, <2>5, <2>6, <1>KeepsAll, <1>WithdrawHeld, Zenon
  <2>8. References'
    BY <2>1, <2>7, ReferencesStay, Zenon DEF Core, HandedKept
  <2>9. NativeOK'
    BY <2>1, <2>7, Zenon DEF NativeOK, Held, outside
  <2>10. Core'
    BY <2>7, <2>8, <2>9, Zenon DEF Core, Held
  <2> QED
    BY <2>7, <2>10, <1>OutsideInv, Zenon
<1>ReturnSignals.
  ASSUME SchedInv, NEW c \in calls, c.op = "signal", calls' = calls \ {c}, PrepareSignal,
         bindings' = bindings, UNCHANGED <<domain, due, timers, requested, outside, threads>>
  PROVE  SchedInv'
  <2> USE <1>ReturnSignals
  <2>1. Core /\ NativeOK
    BY CoreHeld, Zenon DEF SchedInv
  <2>2. ASSUME NEW d, d.op \in {"bind", "withdraw"} PROVE d \in calls' <=> d \in calls
    <3>1. d # c
      BY <2>2
    <3> QED
      BY <3>1, Zenon
  <2>3. HandedKept /\ Bindings'
    BY <2>1, <2>2, <1>OtherCalls, Zenon
  <2>4. References'
    BY <2>1, <2>3, ReferencesStay, Zenon DEF Core, HandedKept
  <2>5. NativeOK'
    BY <2>1, Zenon DEF NativeOK, outside
  <2>6. Core'
    BY <2>1, <2>3, <2>4, <2>5, <1>OutsideCore, Zenon
  <2> QED
    BY <2>6, <1>OutsideInv, Zenon
<1>ReturnInv.
  ASSUME SchedInv, NEW c \in calls, Return(c)
  PROVE  SchedInv'
  <2> USE <1>ReturnInv
  <2>1. UNCHANGED <<timers, requested, outside, threads>>
    BY Zenon DEF Return
  <2>2. CASE c.op = "bind" /\ Bind(c) /\ UNCHANGED <<domain, parking, due>>
    BY <2>1, <2>2, <1>ReturnBinds, Zenon
  <2>3. CASE c.op = "observe" /\ Observe(c) /\ UNCHANGED <<domain, parking, bindings, due>>
    BY <2>1, <2>3, <1>ReturnObserves, Zenon
  <2>4. CASE calls' = calls \ {c} /\ c.op = "withdraw" /\ WithdrawAndSignal(c.registration)
             /\ UNCHANGED bindings
    BY <2>1, <2>4, <1>ReturnWithdraws, Zenon
  <2>5. CASE calls' = calls \ {c} /\ c.op = "wake" /\ WakeAndSignal(c.registration)
             /\ UNCHANGED bindings
    BY <2>1, <2>5, <1>ReturnWakes, Zenon
  <2>6. CASE calls' = calls \ {c} /\ c.op = "signal" /\ PrepareSignal /\ UNCHANGED <<domain, due>>
             /\ UNCHANGED bindings
    BY <2>1, <2>6, <1>ReturnSignals, Zenon
  <2> QED
    BY <2>2, <2>3, <2>4, <2>5, <2>6, Zenon DEF Return
<1> QED
  BY <1>QuietInv, <1>TickInv, <1>CompleteInv, <1>ReturnInv, <1>RegisterInv,
     <1>UnregisterInv, <1>RequestCancellationInv, <1>RegisterTimerInv, <1>ExplicitWakeInv,
     <1>DropTimerInv, Zenon

-----------------------------------------------------------------------------
(* Timers.                                                                  *)

LEMMA ChangedUntil ==
  ASSUME NEW x \in Thread, NEW p \in Places, NEW u \in 0..NoTime, NEW y,
         y = Changed(x, [pc |-> p, until |-> u])
  PROVE  /\ y \in Thread /\ y.pc = p /\ y.after = x.after /\ y.group = x.group
         /\ y.dispatch = x.dispatch /\ y.until = u /\ y.timer = x.timer
  BY ThreadFields DEF Changed, Thread, Places

\* A step of thread w, which does not wait afterwards.
LEMMA StepParts ==
  ASSUME FiniteFacts,
         SchedInv, NEW w \in Workers, Alone(w), threads'[w].group = threads[w].group,
         threads'[w].pc \notin {"deadline", "wait", "asleep"},
         UNCHANGED parking \/ PrepareSignal, PrepareSignal \/ Quiet
  PROVE  ParkingOK' /\ Looks'
<1>1. \A v \in Workers : threads'[v].group = threads[v].group
  BY Zenon DEF Alone
<1>2. ParkingOK'
  BY <1>1, ParkingKept, Zenon DEF SchedInv
<1>3. LooksAt(w)'
  BY Zenon DEF LooksAt
<1>4. \A v \in Workers \ {w} : LooksAt(v)'
  BY LooksOther, Zenon DEF Alone
<1> QED
  BY <1>2, <1>3, <1>4, Zenon DEF Looks

\* A thread that looks at the timers, fires the due ones or promotes keeps the invariant.
LEMMA TimerSteps ==
  ASSUME FiniteFacts, DomainFacts
  PROVE  \A w \in Workers : SchedInv /\ (ReadDeadline(w) \/ Fire(w) \/ Promote(w)) => SchedInv'
<1>ReadDeadlineInv.
  ASSUME SchedInv, NEW w \in Workers, ReadDeadline(w)
  PROVE  SchedInv'
  <2> USE <1>ReadDeadlineInv
  <2> DEFINE x == threads[w]
             y == threads'[w]
  <2>1. x \in Thread /\ Place(x) /\ ThreadsOK /\ LooksAt(w) /\ timers \subseteq Timer
    BY ThreadTyped, Zenon DEF SchedInv, Looks, Core, NativeOK
  <2>2. PICK d \in {t.deadline : t \in timers} \union {NoTime} :
          (\A t \in timers : d <= t.deadline) /\ Become(w, [pc |-> "wait", until |-> d])
    BY Zenon DEF ReadDeadline
  <2>3. d \in 0..NoTime
    BY <2>1, <2>2, RunAssumption DEF Timer, NoTime
  <2>4. x.pc = "deadline" /\ UNCHANGED <<domain, parking, native, outside, calls, due>>
    BY Zenon DEF ReadDeadline
  <2>5. y = Changed(x, [pc |-> "wait", until |-> d]) /\ Alone(w)
        /\ (y \in Thread /\ Place(y) => ThreadsOK')
    BY <2>1, <2>2, Becomes, Zenon
  <2>6. "wait" \in Places
    BY Zenon DEF Places
  <2> HIDE DEF x, y
  <2>7. /\ y \in Thread /\ y.pc = "wait" /\ y.after = x.after /\ y.group = x.group
        /\ y.dispatch = x.dispatch /\ y.until = d
    BY <2>1, <2>3, <2>5, <2>6, ChangedUntil, SMTT(30)
  <2>8. Place(y) /\ y.after = "start"
    BY <2>1, <2>4, <2>7, SMTT(30) DEF Place
  <2>9. Holding(y) <=> Holding(x)
    <3>1. x.pc = "deadline" /\ y.pc = "wait"
      BY <2>4, <2>7, Zenon
    <3> QED
      BY <3>1, SMTT(30) DEF Holding
  <2>10. Walks(w)
    BY <2>4, <2>5, <2>7, <2>9, SMTT(30) DEF Walks, Keeps, x, y
  <2>11. LooksAt(w)'
    <3>1. timers' = timers /\ signals' = signals /\ entries' = entries /\ running' = running
          /\ ready' = ready
      BY <2>4, Zenon DEF native, parking, domain
    <3>2. ~Reclaims(w) /\ ~Reclaims(w)'
      BY <2>7, <2>8, SMTT(30) DEF Reclaims, x, y
    <3>3. x.group \notin signals \cup {2} => NoWork(Serves[w])
      BY <2>1, <2>4, <3>2, Zenon DEF LooksAt, Nothing, x
    <3>4. x.group \notin signals \cup {2} => NoWork(Serves[w])'
      BY <3>1, <3>3, Zenon DEF NoWork
    <3>5. x.group \notin signals \cup {2} => Nothing(w)'
      BY <2>2, <2>7, <3>1, <3>2, <3>4, Zenon DEF Nothing, x, y
    <3>6. y.pc # "asleep"
      BY <2>7, SMTT(30)
    <3> QED
      BY <2>7, <3>1, <3>5, <3>6, Zenon DEF LooksAt, x, y
  <2> QED
    BY <2>4, <2>5, <2>7, <2>8, <2>10, <2>11, WalkInv, Zenon DEF x, y
<1>ChangedTimer.
  ASSUME NEW x \in Thread, NEW p \in Places, NEW u \in MaybeRegistration, NEW y,
         y = Changed(x, [pc |-> p, timer |-> u])
  PROVE  /\ y \in Thread /\ y.pc = p /\ y.after = x.after /\ y.group = x.group
         /\ y.dispatch = x.dispatch /\ y.until = x.until /\ y.timer = u
  BY <1>ChangedTimer, ThreadFields DEF Changed, Thread, Places
<1>FireInv.
  ASSUME SchedInv, NEW w \in Workers, Fire(w)
  PROVE  SchedInv'
  <2> USE <1>FireInv
  <2> DEFINE x == threads[w]
             y == threads'[w]
  <2>1. x \in Thread /\ Place(x) /\ ThreadsOK /\ Core
    BY ThreadTyped, Zenon DEF SchedInv
  <2>2. /\ x.pc = "fire" /\ WakeAndSignal(x.timer) /\ Become(w, [pc |-> "promote", timer |-> None])
        /\ UNCHANGED <<native, outside, calls>>
    BY Zenon DEF Fire
  <2>3. y = Changed(x, [pc |-> "promote", timer |-> None]) /\ Alone(w)
        /\ (y \in Thread /\ Place(y) => ThreadsOK')
    BY <2>1, <2>2, Becomes, Zenon
  <2>4. PICK r \in Registrations : r = x.timer
    BY <2>1, <2>2, Zenon DEF Place
  <2>5. Handed(r)
    BY <2>1, <2>2, <2>4, Zenon DEF Core, References
  <2> HIDE DEF x, y
  <2>6. "promote" \in Places /\ None \in MaybeRegistration
    BY SMTT(30) DEF Places, MaybeRegistration
  <2>7. /\ y \in Thread /\ y.pc = "promote" /\ y.after = x.after /\ y.group = x.group
        /\ y.dispatch = x.dispatch
    BY <2>1, <2>3, <2>6, <1>ChangedTimer, SMTT(30)
  <2>8. /\ Place(y) /\ (Holding(y) <=> Holding(x))
        /\ y.pc \notin {"deadline", "wait", "asleep"} /\ y.pc # "fire"
    BY <2>1, <2>2, <2>7 DEF Place, Holding
  <2>9. /\ bindings' = bindings /\ requested' = requested /\ timers' = timers
        /\ now' = now /\ stimuli' = stimuli /\ calls' = calls
    BY <2>2, Zenon DEF native, outside
  <2>10. Binds' = Binds
    BY <2>9, Zenon DEF Binds
  <2>11. \A v \in Workers : Keeps(v)
    BY <2>3, <2>7, <2>8, Zenon DEF Alone, Keeps, x, y
  <2>12. /\ Held' /\ HandedKept
         /\ \/ PrepareSignal
            \/ UNCHANGED parking /\ ready' = ready /\ running' = running
               /\ \A q : Live(q) => Live(q)'
    BY <2>1, <2>2, <2>4, <2>5, <2>9, <2>10, <2>11, WakeHeld, Zenon
  <2>13. References'
    BY <2>1, <2>3, <2>8, <2>9, <2>12, ReferencesStay, Zenon DEF Core, Alone, HandedKept, y
  <2>14. NativeOK'
    BY <2>1, <2>9, <2>12, Zenon DEF Core, NativeOK, Held
  <2>15. Core'
    BY <2>12, <2>13, <2>14, Zenon DEF Core, Held
  <2>16. PrepareSignal \/ (Quiet /\ UNCHANGED parking)
    BY <2>9, <2>12, QuietStep, Zenon
  <2>17. ParkingOK' /\ Looks'
    BY <2>3, <2>7, <2>8, <2>16, StepParts, Zenon DEF x, y
  <2> QED
    BY <2>3, <2>7, <2>8, <2>15, <2>17, Zenon DEF SchedInv
<1>PromoteInv.
  ASSUME SchedInv, NEW w \in Workers, Promote(w)
  PROVE  SchedInv'
  <2> USE <1>PromoteInv
  <2> DEFINE x == threads[w]
             y == threads'[w]
  <2>1. x \in Thread /\ Place(x) /\ ThreadsOK /\ Core
    BY ThreadTyped, Zenon DEF SchedInv
  <2>2. x.pc = "promote" /\ UNCHANGED <<domain, parking, bindings, requested, outside, calls, due>>
    BY Zenon DEF Promote
  <2>3. CASE Elapsed = {}
    <3>1. Become(w, [pc |-> "pop"]) /\ UNCHANGED timers
      BY <2>3, Zenon DEF Promote
    <3>2. y = Changed(x, [pc |-> "pop"]) /\ Alone(w) /\ (y \in Thread /\ Place(y) => ThreadsOK')
      BY <2>1, <3>1, Becomes, Zenon
    <3>3. "pop" \in Places
      BY Zenon DEF Places
    <3> HIDE DEF x, y
    <3>4. /\ y \in Thread /\ y.pc = "pop" /\ y.after = x.after /\ y.group = x.group
          /\ y.dispatch = x.dispatch
      BY <2>1, <3>2, <3>3, ChangedPc, SMTT(30)
    <3>5. Place(y) /\ (Holding(y) <=> Holding(x))
      BY <2>1, <2>2, <3>4, SMTT(30) DEF Place, Holding
    <3>6. Walks(w) /\ LooksAt(w)'
      BY <2>2, <3>1, <3>2, <3>4, <3>5, SMTT(30) DEF Walks, Keeps, LooksAt, native, x, y
    <3> QED
      BY <2>2, <3>2, <3>4, <3>5, <3>6, WalkInv, Zenon DEF x, y
  <2>4. CASE Elapsed # {}
    <3>1. PICK t \in First : timers' = timers \ {t}
                             /\ Become(w, [pc |-> "fire", timer |-> t.registration])
      BY <2>4, Zenon DEF Promote
    <3>2. y = Changed(x, [pc |-> "fire", timer |-> t.registration]) /\ Alone(w)
          /\ (y \in Thread /\ Place(y) => ThreadsOK')
      BY <2>1, <3>1, Becomes, Zenon
    <3>3. t \in timers /\ t \in Timer
      BY <2>1, <3>1, Zenon DEF First, Elapsed, Core, NativeOK
    <3>4. t.registration \in Registrations /\ t.registration \in MaybeRegistration
      BY <3>3 DEF Timer, MaybeRegistration
    <3>5. "fire" \in Places
      BY Zenon DEF Places
    <3> HIDE DEF x, y
    <3>6. /\ y \in Thread /\ y.pc = "fire" /\ y.after = x.after /\ y.group = x.group
          /\ y.dispatch = x.dispatch /\ y.timer = t.registration
      BY <2>1, <3>2, <3>4, <3>5, <1>ChangedTimer, SMTT(30)
    <3>7. Place(y) /\ (Holding(y) <=> Holding(x)) /\ y.pc \notin {"deadline", "wait", "asleep"}
      BY <2>1, <2>2, <3>4, <3>6 DEF Place, Holding
    <3>8. /\ entries' = entries /\ ready' = ready /\ running' = running /\ aborted' = aborted
          /\ bindings' = bindings /\ requested' = requested
          /\ now' = now /\ stimuli' = stimuli /\ calls' = calls /\ due' = due
      BY <2>2, Zenon DEF domain, outside
    <3>9. Binds' = Binds
      BY <3>8, Zenon DEF Binds
    <3>10. NativeOK'
      <4>1. IsFiniteSet(timers') /\ Cardinality(timers') <= MaxTimers /\ timers' \subseteq Timer
        BY <2>1, <3>1, TimersFewer, Zenon DEF Core
      <4> QED
        BY <2>1, <3>8, <4>1, Zenon DEF Core, NativeOK
    <3>11. Dispatches' /\ Bindings' /\ Wakes'
      <4>1. RunsKept
        BY <3>8, <3>9, RunsUnchanged, Zenon
      <4>2. \A v \in Workers : Keeps(v)
        BY <3>2, <3>6, <3>7, Zenon DEF Alone, Keeps, x, y
      <4> QED
        BY <2>1, <3>8, <3>9, <4>1, <4>2, DispatchesStay, BindingsUnchanged, WakesUnchanged, Zenon
           DEF Core
    <3>12. References'
      <4>1. ASSUME NEW r PROVE Handed(r)' <=> Handed(r)
        BY <3>8, <3>9, Zenon DEF Handed
      <4>2. Handed(t.registration)
        BY <2>1, <3>3, Zenon DEF Core, References
      <4> QED
        BY <2>1, <3>1, <3>2, <3>6, <3>8, <4>1, <4>2, ReferencesStay, Zenon DEF Core, Alone, x, y
    <3>13. Core'
      BY <2>1, <3>8, <3>10, <3>11, <3>12, Zenon DEF Core, Agrees
    <3>14. Quiet
      BY <2>2, <3>1, <3>8, QuietDomain, Zenon
    <3>15. ParkingOK' /\ Looks'
      BY <2>2, <3>2, <3>6, <3>7, <3>14, StepParts, Zenon DEF x, y
    <3> QED
      BY <3>2, <3>6, <3>7, <3>13, <3>15, Zenon DEF SchedInv
  <2> QED
    BY <2>3, <2>4, Zenon
<1> QED
  BY <1>ReadDeadlineInv, <1>FireInv, <1>PromoteInv, Zenon

-----------------------------------------------------------------------------
(* Dispatches.                                                              *)

\* A thread that takes a dispatch, suspends it, lends its slot or takes it back keeps
\* the invariant.
LEMMA DispatchSteps ==
  ASSUME FiniteFacts, DomainFacts
  PROVE  \A w \in Workers :
           /\ SchedInv
           /\ \/ ReclaimSlot(w) \/ PopReady(w) \/ Lend(w)
              \/ \E lane \in Lanes : Suspend(w, lane)
           => SchedInv'
\* Thread w starts, ends, lends or reclaims the dispatch of row i.
<1>DispatchesOwn.
  ASSUME Agrees, Dispatches, NEW w \in Workers, NEW i, MovesLive(i), Binds' \subseteq Binds,
         \A v \in Workers \ {w} : threads'[v] = threads[v] /\ threads[v].dispatch # Of(i),
         threads[w].dispatch \in {None, Of(i)}, Handed(Of(i)),
         \/ threads'[w].dispatch = None /\ entries'[i].phase # "running"
         \/ /\ threads'[w].dispatch = Of(i) /\ entries'[i].phase = "running"
            /\ entries'[i].slot <=> Holding(threads'[w])
  PROVE  Dispatches'
  <2> USE <1>DispatchesOwn
  <2>1. /\ i \in DOMAIN entries /\ DOMAIN entries' = DOMAIN entries
        /\ \A j \in DOMAIN entries \ {i} : entries'[j] = entries[j]
        /\ \A r : Live(r)' <=> Live(r)
        /\ \A j \in DOMAIN entries : Of(j)' = Of(j)
        /\ Of(i) \in Registrations /\ Of(i).index = i /\ Of(i) # None
        /\ Steady
    <3>1. Steady
      BY MovesSteady, Zenon DEF MovesLive
    <3> QED
      BY <3>1, LiveMoves, OfTyped, Zenon DEF MovesLive, Moves
  <2>2. ASSUME NEW v \in Workers, NEW r \in Registrations, threads'[v].dispatch = r
        PROVE  /\ Handed(r)'
               /\ Live(r)' => /\ entries'[r.index].phase = "running"
                              /\ entries'[r.index].slot <=> Holding(threads'[v])
               /\ \A u \in Workers : threads'[u].dispatch = r => u = v
    <3>1. CASE v = w
      <4>1. r = Of(i) /\ entries'[i].phase = "running"
            /\ (entries'[i].slot <=> Holding(threads'[w]))
        BY <2>2, <3>1, RegistrationNotNone, Zenon
      <4>2. \A u \in Workers : threads'[u].dispatch = r => u = v
        BY <3>1, <4>1, Zenon
      <4> QED
        BY <2>1, <3>1, <4>1, <4>2, HandedStays, Zenon
    <3>2. CASE v # w
      <4>1. threads'[v] = threads[v] /\ threads[v].dispatch = r /\ r # Of(i)
        BY <2>2, <3>2, Zenon
      <4>2. /\ Handed(r)
            /\ Live(r) => /\ entries[r.index].phase = "running"
                          /\ entries[r.index].slot <=> Holding(threads[v])
            /\ \A u \in Workers : threads[u].dispatch = r => u = v
        BY <4>1, Zenon DEF Dispatches, HasDispatch
      <4>3. Live(r) => r.index \in DOMAIN entries \ {i}
        BY <4>1, LiveOf, Zenon
      <4>4. \A u \in Workers : threads'[u].dispatch = r => u = v
        BY <4>1, <4>2, RegistrationNotNone, Zenon
      <4> QED
        BY <2>1, <4>1, <4>2, <4>3, <4>4, HandedStays, Zenon
    <3> QED
      BY <3>1, <3>2
  <2>3. ASSUME NEW j \in DOMAIN entries', entries'[j].phase = "running"
        PROVE  \E v \in Workers : threads'[v].dispatch = Of(j)'
    <3>1. CASE j = i
      <4>1. threads'[w].dispatch = Of(i)
        BY <2>3, <3>1, Zenon
      <4> QED
        BY <2>1, <3>1, <4>1, Zenon
    <3>2. CASE j # i
      <4>1. j \in DOMAIN entries /\ entries[j].phase = "running" /\ Of(j)' = Of(j)
        BY <2>1, <2>3, <3>2, Zenon
      <4>2. PICK v \in Workers : threads[v].dispatch = Of(j)
        BY <4>1, Zenon DEF Dispatches
      <4>3. Of(j) # Of(i) /\ Of(j) # None
        <5>1. Of(j).index = j /\ Of(j) # None
          BY <4>1, OfTyped
        <5> QED
          BY <2>1, <3>2, <5>1, Zenon
      <4>4. v # w
        BY <4>2, <4>3, Zenon
      <4> QED
        BY <4>1, <4>2, <4>4, Zenon
    <3> QED
      BY <3>1, <3>2
  <2>4. ASSUME NEW v \in Workers PROVE HasDispatch(v)'
    BY <2>2, Zenon DEF HasDispatch
  <2> QED
    BY <2>3, <2>4, Zenon DEF Dispatches
\* Thread w goes on without its entry, which was withdrawn.
<1>DispatchesDead.
  ASSUME Agrees, Dispatches, NEW w \in Workers, entries' = entries, Binds' \subseteq Binds,
         \A v \in Workers \ {w} : threads'[v] = threads[v], ~Live(threads[w].dispatch),
         threads'[w].dispatch \in {None, threads[w].dispatch}
  PROVE  Dispatches'
  <2> USE <1>DispatchesDead
  <2>1. ASSUME NEW r PROVE (Live(r)' <=> Live(r)) /\ (Handed(r) => Handed(r)')
    <3>1. Steady
      BY Zenon DEF Steady
    <3> QED
      BY <3>1, HandedStays, Zenon DEF Live
  <2>2. ASSUME NEW v \in Workers, NEW r \in Registrations, threads'[v].dispatch = r
        PROVE  /\ Handed(r)'
               /\ Live(r)' => /\ entries'[r.index].phase = "running"
                              /\ entries'[r.index].slot <=> Holding(threads'[v])
               /\ \A u \in Workers : threads'[u].dispatch = r => u = v
    <3>1. threads[v].dispatch = r
      BY <2>2, RegistrationNotNone, Zenon
    <3>2. /\ Handed(r)
          /\ Live(r) => /\ entries[r.index].phase = "running"
                        /\ entries[r.index].slot <=> Holding(threads[v])
          /\ \A u \in Workers : threads[u].dispatch = r => u = v
      BY <3>1, Zenon DEF Dispatches, HasDispatch
    <3>3. \A u \in Workers : threads'[u].dispatch = r => u = v
      BY <3>2, RegistrationNotNone, Zenon
    <3>4. Live(r) => v # w
      BY <3>1, Zenon
    <3> QED
      BY <2>1, <2>2, <3>1, <3>2, <3>3, <3>4, Zenon
  <2>3. ASSUME NEW j \in DOMAIN entries', entries'[j].phase = "running"
        PROVE  \E v \in Workers : threads'[v].dispatch = Of(j)'
    <3>1. PICK v \in Workers : threads[v].dispatch = Of(j)
      BY <2>3, Zenon DEF Dispatches
    <3>2. Live(Of(j))
      BY <2>3, OfTyped
    <3>3. Of(j)' = Of(j)
      BY Zenon DEF Of
    <3> QED
      BY <3>1, <3>2, <3>3, Zenon
  <2>4. ASSUME NEW v \in Workers PROVE HasDispatch(v)'
    BY <2>2, Zenon DEF HasDispatch
  <2> QED
    BY <2>3, <2>4, Zenon DEF Dispatches
\* Thread w takes, lends, gets back or ends the dispatch of row i.
<1>OwnHeld.
  ASSUME Core, NEW w \in Workers, NEW i, MovesLive(i),
         entries[i].phase \in {"queued", "running"}, Agrees', ~aborted',
         bindings' = bindings, Binds' = Binds, Alone(w),
         threads[w].dispatch \in {None, Of(i)},
         entries[i].phase = "running" => threads[w].dispatch = Of(i),
         \/ threads'[w].dispatch = None /\ entries'[i].phase # "running"
         \/ /\ threads'[w].dispatch = Of(i) /\ entries'[i].phase = "running"
            /\ entries'[i].slot <=> Holding(threads'[w]),
         due' \subseteq due, Of(i) \in due' => Woken(entries'[i])
  PROVE  Held' /\ HandedKept
  <2> USE <1>OwnHeld
  <2>1. Held /\ Registered /\ NativeOK
    BY CoreHeld, Zenon
  <2>2. i \in DOMAIN entries /\ entries[i].phase # "free" /\ Moves(i)
        /\ entries'[i].phase # "free"
    BY Zenon DEF MovesLive, Moves
  <2>3. Of(i) \in Registrations /\ Of(i).index = i /\ Live(Of(i))
    BY <2>1, <2>2, OfTyped, Zenon DEF Held
  <2>4. Handed(Of(i)) /\ \A c \in Binds : c.registration # Of(i)
    <3>1. entries[i].phase # "idle"
      OBVIOUS
    <3> QED
      BY <2>1, <2>2, <3>1, BoundOf, Zenon
  <2>5. ASSUME NEW v \in Workers \ {w} PROVE threads'[v] = threads[v] /\ threads[v].dispatch # Of(i)
    <3>1. ASSUME threads[v].dispatch = Of(i) PROVE FALSE
      <4>1. HasDispatch(v)
        BY <2>1, <2>5, Zenon DEF Held, Dispatches
      <4>2. /\ Live(Of(i)) => entries[Of(i).index].phase = "running"
            /\ \A u \in Workers : threads[u].dispatch = Of(i) => u = v
        BY <2>3, <3>1, <4>1, Zenon DEF HasDispatch
      <4>3. entries[i].phase = "running"
        BY <2>3, <4>2, Zenon
      <4> QED
        BY <2>5, <4>2, <4>3, Zenon
    <3> QED
      BY <2>5, <3>1, Zenon DEF Alone
  <2>6. Dispatches'
    BY <2>1, <2>4, <2>5, <1>DispatchesOwn, Zenon DEF Held
  <2>7. Bindings'
    BY <2>1, <2>4, BindingsMove, Zenon
  <2>8. Wakes' /\ due' \subseteq Registrations
    BY <2>1, <2>2, <2>3, WakesMove, Zenon DEF Held
  <2>9. HandedKept
    BY <2>2, MovesSteady, HandedStays, Zenon DEF HandedKept
  <2> QED
    BY <2>6, <2>7, <2>8, <2>9, Zenon DEF Held
\* The rest of the invariant when thread w worked on the domain.
<1>DomainStep.
  ASSUME SchedInv, NEW w \in Workers, Held', HandedKept, Alone(w), ThreadsOK',
         threads'[w].group = threads[w].group,
         threads'[w].pc \notin {"fire", "deadline", "wait", "asleep"},
         PrepareSignal \/ (Quiet /\ UNCHANGED parking),
         bindings' = bindings, requested' = requested, timers' = timers, calls' = calls,
         now' = now, stimuli' \in 0..MaxStimuli
  PROVE  SchedInv'
  <2> USE <1>DomainStep
  <2>1. Core
    BY Zenon DEF SchedInv
  <2>2. References'
    BY <2>1, ReferencesStay, Zenon DEF Core, Alone, HandedKept
  <2>3. NativeOK'
    BY <2>1, Zenon DEF Core, NativeOK, Held
  <2>4. Core'
    BY <2>2, <2>3, Zenon DEF Core, Held
  <2>5. ParkingOK' /\ Looks'
    BY StepParts, Zenon
  <2> QED
    BY <2>4, <2>5, Zenon DEF SchedInv
\* A step after which every slot may be in use.
<1>QuietTake.
  ASSUME UNCHANGED parking, running # limit, timers' = timers, calls' = calls,
         \A h \in DOMAIN ready' : \E g \in DOMAIN ready : ready'[h].lane = ready[g].lane
  PROVE  Quiet
  <2> USE <1>QuietTake
  <2>1. ASSUME NEW served, NoWork(served) PROVE NoWork(served)'
    BY <2>1, Zenon DEF NoWork
  <2> QED
    BY <2>1, Zenon DEF Quiet
<1>ReclaimSlotInv.
  ASSUME SchedInv, NEW w \in Workers, ReclaimSlot(w)
  PROVE  SchedInv'
  <2> USE <1>ReclaimSlotInv
  <2> DEFINE x == threads[w]
             y == threads'[w]
  <2>1. x \in Thread /\ Place(x) /\ ThreadsOK /\ Core /\ Held /\ NativeOK /\ Registered
    BY ThreadTyped, CoreHeld, Zenon DEF SchedInv
  <2>2. /\ x.pc = "slot" /\ SlotAcquisition(x.dispatch)
        /\ UNCHANGED <<parking, native, outside, calls, due>>
    BY Zenon DEF ReclaimSlot
  <2>3. x.dispatch # None /\ x.after = "reclaim" /\ ~Holding(x)
    BY <2>1, <2>2, SMTT(30) DEF Place, Holding
  <2>4. PICK r \in Registrations : r = x.dispatch
    BY <2>1, <2>3, ThreadFields, Zenon DEF MaybeRegistration
  <2>5. /\ bindings' = bindings /\ requested' = requested /\ timers' = timers
        /\ now' = now /\ stimuli' = stimuli /\ calls' = calls /\ due' = due
        /\ stimuli' \in 0..MaxStimuli
    BY <2>1, <2>2, Zenon DEF native, outside, NativeOK
  <2>6. Live(r) => Row(r).phase = "running" /\ ~Row(r).slot
    <3>1. HasDispatch(w)
      BY <2>1, Zenon DEF Held, Dispatches
    <3> QED
      BY <2>3, <2>4, <3>1, Zenon DEF HasDispatch, Row
  <2>7. /\ Agrees' /\ ready' = ready /\ ~aborted'
        /\ SlotStatus(r) # 1 => entries' = entries /\ running' = running
        /\ SlotStatus(r) = 1 => /\ Live(r) /\ running # limit /\ Moves(r.index)
                                /\ entries'[r.index].phase = "running"
                                /\ entries'[r.index].slot
                                /\ entries'[r.index].pending = entries[r.index].pending
    BY <2>1, <2>2, <2>4, <2>6, Zenon DEF Held, DomainFacts, SlotAcquisitionDoes
  <2>8. Binds' = Binds
    BY <2>5, Zenon DEF Binds
  <2>9. CASE SlotStatus(r) = 0
    <3>1. Become(w, [pc |-> "wait", until |-> NoTime])
      BY <2>4, <2>9, Zenon DEF ReclaimSlot
    <3>2. y = Changed(x, [pc |-> "wait", until |-> NoTime]) /\ Alone(w)
          /\ (y \in Thread /\ Place(y) => ThreadsOK')
      BY <2>1, <3>1, Becomes, Zenon
    <3>3. Live(r) /\ running = limit
      BY <2>9 DEF SlotStatus
    <3>4. UNCHANGED domain
      BY <2>2, <2>4, <2>9, SMTT(30) DEF SlotAcquisition
    <3>5. "wait" \in Places /\ NoTime \in 0..NoTime
      BY RunAssumption, SMTT(30) DEF Places, NoTime
    <3> HIDE DEF x, y
    <3>6. /\ y \in Thread /\ y.pc = "wait" /\ y.after = x.after /\ y.group = x.group
          /\ y.dispatch = x.dispatch
      BY <2>1, <3>2, <3>5, ChangedUntil, SMTT(30)
    <3>7. Place(y) /\ (Holding(y) <=> Holding(x)) /\ y.pc # "fire" /\ y.pc # "asleep"
      BY <2>1, <2>2, <2>3, <3>6 DEF Place, Holding
    <3>8. Walks(w)
      BY <2>2, <3>2, <3>4, <3>6, <3>7, Zenon DEF Walks, Keeps, x, y
    <3>9. LooksAt(w)'
      <4>1. Live(r)' /\ running' = limit
        BY <3>3, <3>4, Zenon DEF domain, Live
      <4>2. Nothing(w)'
        BY <2>3, <2>4, <3>6, <4>1, Zenon DEF Nothing, Reclaims, y
      <4> QED
        BY <3>7, <4>2, Zenon DEF LooksAt, y
    <3> QED
      BY <2>2, <3>2, <3>6, <3>7, <3>8, <3>9, WalkInv, Zenon DEF x, y
  <2>10. CASE SlotStatus(r) # 0
    <3>1. Become(w, [pc |-> "leave", after |-> "run"])
      BY <2>4, <2>10, Zenon DEF ReclaimSlot
    <3>2. y = Changed(x, [pc |-> "leave", after |-> "run"]) /\ Alone(w)
          /\ (y \in Thread /\ Place(y) => ThreadsOK')
      BY <2>1, <3>1, Becomes, Zenon
    <3>3. "leave" \in Places /\ "run" \in {"start", "reclaim", "run"}
      BY SMTT(30) DEF Places
    <3> HIDE DEF x, y
    <3>4. /\ y \in Thread /\ y.pc = "leave" /\ y.after = "run" /\ y.group = x.group
          /\ y.dispatch = x.dispatch
      BY <2>1, <3>2, <3>3, ThreadFields, SMTT(30) DEF Changed, Thread, Places
    <3>5. Place(y) /\ Holding(y) /\ y.pc \notin {"fire", "deadline", "wait", "asleep"}
      BY <2>1, <2>3, <3>4 DEF Place, Holding
    <3>6. Held' /\ HandedKept /\ Quiet
      <4>1. CASE SlotStatus(r) = 1
        <5>1. PICK i : i = r.index
          BY Zenon
        <5>2. Live(r) /\ r = Of(i) /\ Moves(i) /\ i \in DOMAIN entries
          BY <2>7, <4>1, <5>1, LiveOf, Zenon
        <5>3. entries[i].phase = "running"
          BY <2>6, <5>1, <5>2, Zenon DEF Row
        <5>4. MovesLive(i) /\ entries[i].phase \in {"queued", "running"}
          BY <2>7, <4>1, <5>1, <5>2, <5>3, SMTT(30) DEF MovesLive
        <5>5. Of(i) \in due' => Woken(entries'[i])
          <6>1. ASSUME r \in due PROVE entries[i].pending
            BY <2>1, <5>1, <5>3, <6>1, SMTT(30) DEF Held, Wakes, Woken
          <6> QED
            BY <2>5, <2>7, <4>1, <5>1, <5>2, <6>1, Zenon DEF Woken
        <5>6. Held' /\ HandedKept
          BY <2>1, <2>4, <2>5, <2>7, <2>8, <3>2, <3>4, <3>5, <4>1, <5>1, <5>2, <5>4, <5>5,
             <1>OwnHeld, Zenon DEF x, y
        <5>7. Quiet
          BY <2>2, <2>5, <2>7, <4>1, <1>QuietTake, Zenon
        <5> QED
          BY <5>6, <5>7, Zenon
      <4>2. CASE SlotStatus(r) # 1
        <5>1. ~Live(r)
          BY <2>10, <4>2, Zenon DEF SlotStatus
        <5>2. entries' = entries /\ running' = running
          BY <2>7, <4>2, Zenon
        <5>3. Dispatches'
          BY <2>1, <2>4, <2>8, <3>2, <3>4, <5>1, <5>2, <1>DispatchesDead, Zenon DEF Held, Alone, x, y
        <5>4. Bindings' /\ Wakes'
          BY <2>1, <2>5, <2>8, <5>2, BindingsUnchanged, WakesUnchanged, Zenon DEF Held
        <5>5. HandedKept /\ \A q : Live(q) => Live(q)'
          BY <2>8, <5>2, Zenon DEF HandedKept, Handed, Live
        <5>6. Quiet
          BY <2>2, <2>5, <2>7, <5>2, <5>5, QuietStep, Zenon
        <5> QED
          BY <2>1, <2>5, <2>7, <5>3, <5>4, <5>5, <5>6, Zenon DEF Held
      <4> QED
        BY <4>1, <4>2, Zenon
    <3> QED
      BY <2>2, <2>5, <3>2, <3>4, <3>5, <3>6, <1>DomainStep, Zenon DEF x, y
  <2> QED
    BY <2>9, <2>10, Zenon
<1>ChangedDispatch.
  ASSUME NEW x \in Thread, NEW p \in Places, NEW a \in {"start", "reclaim", "run"},
         NEW d \in MaybeRegistration, NEW y,
         y = Changed(x, [pc |-> p, after |-> a, dispatch |-> d])
  PROVE  /\ y \in Thread /\ y.pc = p /\ y.after = a /\ y.group = x.group
         /\ y.dispatch = d /\ y.until = x.until /\ y.timer = x.timer
  BY <1>ChangedDispatch, ThreadFields DEF Changed, Thread, Places
<1>PopReadyInv.
  ASSUME SchedInv, NEW w \in Workers, PopReady(w)
  PROVE  SchedInv'
  <2> USE <1>PopReadyInv
  <2> DEFINE x == threads[w]
             y == threads'[w]
             s == Selected(Serves[w])
  <2>1. x \in Thread /\ Place(x) /\ ThreadsOK /\ Core /\ Held /\ NativeOK
    BY ThreadTyped, CoreHeld, Zenon DEF SchedInv
  <2>2. /\ x.pc = "pop" /\ Acquisition(Serves[w]) /\ due' = due \ {s}
        /\ UNCHANGED <<parking, native, outside, calls>>
    BY Zenon DEF PopReady
  <2>3. x.dispatch = None /\ x.after = "start" /\ x.pc # "asleep"
    <3>1. Place(x) /\ x.pc = "pop"
      BY <2>1, <2>2, Zenon
    <3> HIDE DEF x, y, s
    <3> QED
      BY <3>1, SMTT(30) DEF Place
  <2>4. /\ bindings' = bindings /\ requested' = requested /\ timers' = timers
        /\ now' = now /\ stimuli' = stimuli /\ calls' = calls
    BY <2>2, Zenon DEF native, outside
  <2>5. /\ Agrees' /\ aborted' = aborted
        /\ s = None => entries' = entries /\ ready' = ready /\ running' = running
    BY <2>1, <2>2, Zenon DEF Held, DomainFacts, AcquisitionDoes
  <2>6. CASE s = None
    <3>1. Become(w, [pc |-> "deadline"])
      BY <2>6, Zenon DEF PopReady
    <3>2. y = Changed(x, [pc |-> "deadline"]) /\ Alone(w)
          /\ (y \in Thread /\ Place(y) => ThreadsOK')
      BY <2>1, <3>1, Becomes, Zenon
    <3>3. NoWork(Serves[w])
      BY <2>1, <2>6, Zenon DEF Held, DomainFacts
    <3>4. due' = due
      BY <2>1, <2>2, <2>6, RegistrationNotNone, Zenon DEF Held
    <3>5. UNCHANGED domain
      BY <2>5, <2>6, Zenon DEF domain
    <3>6. "deadline" \in Places
      BY Zenon DEF Places
    <3> HIDE DEF x, y, s
    <3>7. /\ y \in Thread /\ y.pc = "deadline" /\ y.after = x.after /\ y.group = x.group
          /\ y.dispatch = x.dispatch
      BY <2>1, <3>2, <3>6, ChangedPc, SMTT(30)
    <3>8. Place(y) /\ (Holding(y) <=> Holding(x)) /\ y.pc # "fire" /\ y.pc # "asleep"
          /\ y.after # "reclaim"
      BY <2>1, <2>2, <2>3, <3>7, SMTT(30) DEF Place, Holding
    <3>9. Walks(w)
      BY <2>2, <3>2, <3>4, <3>5, <3>7, <3>8, Zenon DEF Walks, Keeps, x, y
    <3>10. LooksAt(w)'
      <4>1. NoWork(Serves[w])'
        BY <2>5, <2>6, <3>3, Zenon DEF NoWork
      <4>2. Nothing(w)'
        BY <3>7, <3>8, <4>1, Zenon DEF Nothing, Reclaims, y
      <4> QED
        BY <3>8, <4>2, Zenon DEF LooksAt, y
    <3> QED
      BY <2>2, <3>2, <3>7, <3>8, <3>9, <3>10, WalkInv, Zenon DEF x, y
  <2>7. CASE s # None
    <3>1. Become(w, [pc |-> "leave", after |-> "run", dispatch |-> s])
      BY <2>7, Zenon DEF PopReady
    <3>2. PICK i : i = s.index
      BY Zenon
    <3>3. /\ Moves(i) /\ entries[i].phase = "queued" /\ s = Of(i)
          /\ entries'[i].phase = "running" /\ entries'[i].slot /\ running # limit
          /\ \A h \in DOMAIN ready' : \E g \in DOMAIN ready : ready'[h].lane = ready[g].lane
      BY <2>1, <2>2, <2>7, <3>2, Zenon DEF Held, DomainFacts, AcquisitionDoes
    <3>4. y = Changed(x, [pc |-> "leave", after |-> "run", dispatch |-> s]) /\ Alone(w)
          /\ (y \in Thread /\ Place(y) => ThreadsOK')
      BY <2>1, <3>1, Becomes, Zenon
    <3>5. MovesLive(i)
      BY <3>3, SMTT(30) DEF MovesLive
    <3>6. i \in DOMAIN entries /\ entries[i].phase # "free"
      BY <3>5, Zenon DEF MovesLive, Moves
    <3>7. s \in Registrations /\ s # None
      BY <2>1, <3>3, <3>6, OfTyped, Zenon DEF Held
    <3>8. "leave" \in Places /\ "run" \in {"start", "reclaim", "run"} /\ s \in MaybeRegistration
      BY <3>7, Zenon DEF Places, MaybeRegistration
    <3> HIDE DEF x, y, s
    <3>9. /\ y \in Thread /\ y.pc = "leave" /\ y.after = "run" /\ y.group = x.group
          /\ y.dispatch = s
      BY <2>1, <3>4, <3>8, <1>ChangedDispatch, SMTT(30)
    <3>10. Place(y) /\ Holding(y) /\ y.pc \notin {"fire", "deadline", "wait", "asleep"}
      BY <2>1, <3>7, <3>9, SMTT(30) DEF Place, Holding
    <3>11. Binds' = Binds
      BY <2>4, Zenon DEF Binds
    <3>12. Of(i) \notin due' /\ due' \subseteq due /\ ~aborted'
      BY <2>1, <2>2, <2>5, <3>3, Zenon DEF Held
    <3>13. entries[i].phase \in {"queued", "running"} /\ entries[i].phase # "running"
      BY <3>3
    <3>14. Held' /\ HandedKept
      BY <2>1, <2>3, <2>4, <2>5, <3>3, <3>4, <3>5, <3>9, <3>10, <3>11, <3>12, <3>13, <1>OwnHeld, Zenon
         DEF x, y
    <3>15. Quiet
      BY <2>2, <2>4, <3>3, <1>QuietTake, Zenon
    <3>16. stimuli' \in 0..MaxStimuli
      BY <2>1, <2>4, Zenon DEF NativeOK
    <3> QED
      BY <2>2, <2>4, <3>4, <3>9, <3>10, <3>14, <3>15, <3>16, <1>DomainStep, Zenon DEF x, y
  <2> QED
    BY <2>6, <2>7, Zenon
\* The dispatch of a thread that runs it is bound as long as it is live.
<1>RunningRow.
  ASSUME SchedInv, NEW w \in Workers, threads[w].pc = "run"
  PROVE  \E r \in Registrations :
           /\ threads[w].dispatch = r
           /\ Live(r) => /\ r = Of(r.index) /\ r.index \in DOMAIN entries
                         /\ entries[r.index].phase = "running" /\ entries[r.index].slot
                         /\ Bound(r) # {}
  <2> USE <1>RunningRow
  <2>1. threads[w] \in Thread /\ Place(threads[w]) /\ Held /\ Registered
    BY ThreadTyped, CoreHeld, Zenon DEF SchedInv
  <2>2. threads[w].dispatch # None /\ Holding(threads[w])
    BY <2>1 DEF Place, Holding
  <2>3. PICK r \in Registrations : threads[w].dispatch = r
    BY <2>1, <2>2, ThreadFields, Zenon DEF MaybeRegistration
  <2>4. HasDispatch(w)
    BY <2>1, Zenon DEF Held, Dispatches
  <2>5. ASSUME Live(r)
        PROVE  /\ r = Of(r.index) /\ r.index \in DOMAIN entries
               /\ entries[r.index].phase = "running" /\ entries[r.index].slot
               /\ Bound(r) # {}
    <3>1. /\ r = Of(r.index) /\ r.index \in DOMAIN entries
          /\ entries[r.index].phase = "running" /\ entries[r.index].slot
      BY <2>2, <2>3, <2>4, <2>5, LiveOf, Zenon DEF HasDispatch
    <3>2. entries[r.index].phase # "free" /\ entries[r.index].phase # "idle"
      BY <3>1
    <3>3. bindings[entries[r.index].task] = r
      BY <2>1, <3>1, <3>2, BoundOf, Zenon
    <3>4. entries[r.index].task \in Tasks
      BY <2>1, <3>1, <3>2, AgreesTyped, Zenon DEF Held, RowOK
    <3> QED
      BY <3>1, <3>3, <3>4, Zenon DEF Bound
  <2> QED
    BY <2>3, <2>5, Zenon
<1>SuspendInv.
  ASSUME SchedInv, NEW w \in Workers, NEW lane \in Lanes, Suspend(w, lane)
  PROVE  SchedInv'
  <2> USE <1>SuspendInv
  <2> DEFINE x == threads[w]
             y == threads'[w]
  <2>1. x \in Thread /\ Place(x) /\ ThreadsOK /\ Core /\ Held /\ NativeOK /\ Registered
    BY ThreadTyped, CoreHeld, Zenon DEF SchedInv
  <2>2. /\ x.pc = "run" /\ UNCHANGED <<native, now, calls, due>>
        /\ Become(w, [pc |-> "start", after |-> "start", dispatch |-> None])
    BY Zenon DEF Suspend
  <2>3. PICK r \in Registrations :
          /\ x.dispatch = r
          /\ Live(r) => /\ r = Of(r.index) /\ r.index \in DOMAIN entries
                        /\ entries[r.index].phase = "running" /\ entries[r.index].slot
                        /\ Bound(r) # {}
    BY <2>2, <1>RunningRow, Zenon
  <2>4. /\ bindings' = bindings /\ requested' = requested /\ timers' = timers
        /\ now' = now /\ calls' = calls /\ due' = due
    BY <2>2, Zenon DEF native
  <2>5. Binds' = Binds
    BY <2>4, Zenon DEF Binds
  <2>6. y = Changed(x, [pc |-> "start", after |-> "start", dispatch |-> None]) /\ Alone(w)
        /\ (y \in Thread /\ Place(y) => ThreadsOK')
    BY <2>1, <2>2, Becomes, Zenon
  <2>7. "start" \in Places /\ "start" \in {"start", "reclaim", "run"} /\ None \in MaybeRegistration
    BY Zenon DEF Places, MaybeRegistration
  <2> HIDE DEF x, y
  <2>8. /\ y \in Thread /\ y.pc = "start" /\ y.after = "start" /\ y.group = x.group
        /\ y.dispatch = None
    BY <2>1, <2>6, <2>7, <1>ChangedDispatch, SMTT(30)
  <2>9. Place(y) /\ y.pc \notin {"fire", "deadline", "wait", "asleep"}
    BY <2>1, <2>2, <2>8, SMTT(30) DEF Place
  <2>10. /\ Held' /\ HandedKept /\ stimuli' \in 0..MaxStimuli
         /\ PrepareSignal \/ (Quiet /\ UNCHANGED parking)
    <3>1. CASE Bound(r) = {}
      <4>1. UNCHANGED <<domain, parking, stimuli>>
        BY <2>3, <3>1, Zenon DEF Suspend, x
      <4>2. ~Live(r)
        BY <2>3, <3>1, Zenon
      <4>3. entries' = entries /\ ready' = ready /\ running' = running /\ aborted' = aborted
        BY <4>1, Zenon DEF domain
      <4>4. Dispatches'
        BY <2>1, <2>3, <2>5, <2>6, <2>8, <4>2, <4>3, <1>DispatchesDead, Zenon DEF Held, Alone, x, y
      <4>5. Bindings' /\ Wakes'
        BY <2>1, <2>4, <2>5, <4>3, BindingsUnchanged, WakesUnchanged, Zenon DEF Held
      <4>6. HandedKept /\ \A q : Live(q) => Live(q)'
        BY <2>5, <4>3, Zenon DEF HandedKept, Handed, Live
      <4>7. Quiet
        BY <2>4, <4>1, <4>3, <4>6, QuietStep, Zenon
      <4> QED
        BY <2>1, <2>4, <4>1, <4>3, <4>4, <4>5, <4>6, <4>7, Zenon DEF Held, Agrees, NativeOK
    <3>2. CASE Bound(r) # {}
      <4>1. PrepareSignal
        BY <2>3, <3>2, Zenon DEF Suspend, x
      <4>2. PICK t \in Bound(r) : /\ Release(r, lane, Recheck(t))
                                  /\ IF t \in requested THEN Stimulus ELSE UNCHANGED stimuli
        BY <2>3, <3>2, Zenon DEF Suspend, x
      <4>3. Live(r)
        BY <2>1, <4>2, Zenon DEF Bound, Held, Bindings
      <4>4. PICK i : i = r.index
        BY Zenon
      <4>5. /\ r = Of(i) /\ entries[i].phase = "running" /\ Row(r).phase = "running" /\ Row(r).slot
        BY <2>3, <4>3, <4>4, Zenon DEF Row
      <4>6. /\ Agrees' /\ aborted' = aborted /\ Moves(i) /\ ~entries'[i].slot
            /\ entries'[i].phase \in {"queued", "idle"}
            /\ entries[i].pending => entries'[i].phase = "queued"
        BY <2>1, <4>2, <4>3, <4>4, <4>5, Zenon DEF Held, DomainFacts, ReleaseDoes
      <4>7. MovesLive(i) /\ entries[i].phase \in {"queued", "running"}
            /\ entries'[i].phase # "running"
        BY <4>5, <4>6, SMTT(30) DEF MovesLive
      <4>8. Of(i) \in due' => Woken(entries'[i])
        <5>1. ASSUME r \in due PROVE entries[i].pending
          BY <2>1, <4>4, <4>5, <5>1, SMTT(30) DEF Held, Wakes, Woken
        <5> QED
          BY <2>4, <4>5, <4>6, <5>1, Zenon DEF Woken
      <4>9. Held' /\ HandedKept
        BY <2>1, <2>3, <2>4, <2>5, <2>6, <2>8, <4>5, <4>6, <4>7, <4>8, <1>OwnHeld, Zenon
           DEF x, y, Held
      <4>10. stimuli' \in 0..MaxStimuli
        BY <2>1, <4>2, StimulusTyped, Zenon DEF NativeOK
      <4> QED
        BY <4>1, <4>9, <4>10, Zenon
    <3> QED
      BY <3>1, <3>2, Zenon
  <2> QED
    BY <2>4, <2>6, <2>8, <2>9, <2>10, <1>DomainStep, Zenon DEF x, y
<1>LendInv.
  ASSUME SchedInv, NEW w \in Workers, Lend(w)
  PROVE  SchedInv'
  <2> USE <1>LendInv
  <2> DEFINE x == threads[w]
             y == threads'[w]
  <2>1. x \in Thread /\ Place(x) /\ ThreadsOK /\ Core /\ Held /\ NativeOK
    BY ThreadTyped, CoreHeld, Zenon DEF SchedInv
  <2>2. /\ x.pc = "run" /\ UNCHANGED <<native, now, calls, due>>
        /\ Lends(x.dispatch) /\ Stimulus /\ SlotRelease(x.dispatch) /\ PrepareSignal
        /\ Become(w, [pc |-> "reclaim", after |-> "reclaim"])
    BY Zenon DEF Lend
  <2>3. PICK r \in Registrations :
          /\ x.dispatch = r
          /\ Live(r) => r = Of(r.index)
    BY <2>2, <1>RunningRow, Zenon
  <2>4. /\ bindings' = bindings /\ requested' = requested /\ timers' = timers
        /\ now' = now /\ calls' = calls /\ due' = due /\ stimuli' \in 0..MaxStimuli
    BY <2>1, <2>2, StimulusTyped, Zenon DEF native, NativeOK
  <2>5. Binds' = Binds
    BY <2>4, Zenon DEF Binds
  <2>6. y = Changed(x, [pc |-> "reclaim", after |-> "reclaim"]) /\ Alone(w)
        /\ (y \in Thread /\ Place(y) => ThreadsOK')
    BY <2>1, <2>2, Becomes, Zenon
  <2> HIDE DEF x, y
  <2>7. /\ y \in Thread /\ y.pc = "reclaim" /\ y.after = "reclaim" /\ y.group = x.group
        /\ y.dispatch = x.dispatch
    BY <2>1, <2>6, ThreadFields, SMTT(30) DEF Changed, Thread
  <2>8. Place(y) /\ ~Holding(y) /\ y.pc \notin {"fire", "deadline", "wait", "asleep"}
    BY <2>1, <2>2, <2>7, SMTT(30) DEF Place, Holding
  <2>9. PICK i : i = r.index
    BY Zenon
  <2>10. Live(r) /\ r = Of(i)
    BY <2>2, <2>3, <2>9, Zenon DEF Lends
  <2>11. /\ Agrees' /\ ready' = ready /\ aborted' = aborted /\ Moves(i)
         /\ entries[i].phase = "running" /\ entries'[i].phase = "running"
         /\ ~entries'[i].slot /\ entries'[i].pending = entries[i].pending
    BY <2>1, <2>2, <2>3, <2>9, Zenon DEF Held, DomainFacts, SlotReleaseDoes
  <2>12. MovesLive(i) /\ entries[i].phase \in {"queued", "running"}
    BY <2>11 DEF MovesLive
  <2>13. Of(i) \in due' => Woken(entries'[i])
    <3>1. ASSUME r \in due PROVE entries[i].pending
      BY <2>1, <2>9, <2>11, <3>1, SMTT(30) DEF Held, Wakes, Woken
    <3> QED
      BY <2>4, <2>10, <2>11, <3>1, Zenon DEF Woken
  <2>14. Held' /\ HandedKept
    BY <2>1, <2>3, <2>4, <2>5, <2>6, <2>7, <2>8, <2>10, <2>11, <2>12, <2>13, <1>OwnHeld, Zenon
       DEF x, y, Held
  <2> QED
    BY <2>2, <2>4, <2>6, <2>7, <2>8, <2>14, <1>DomainStep, Zenon DEF x, y
<1> QED
  BY <1>ReclaimSlotInv, <1>PopReadyInv, <1>SuspendInv, <1>LendInv, Zenon

-----------------------------------------------------------------------------
(* The invariant.                                                           *)

LEMMA NextSchedInv ==
  ASSUME FiniteFacts, DomainFacts, SchedInv, [Next]_vars
  PROVE  SchedInv'
<1>1. CASE \E w \in Workers : WorkerStep(w) \/ Spurious(w)
  BY <1>1, ParkingSteps, WaitingSteps, TimerSteps, DispatchSteps, OutsideSteps,
     Zenon DEF WorkerStep
<1>2. CASE \E g \in Groups : NotifyAll(g)
  BY <1>2, NotifyAllInv, Zenon
<1>3. CASE /\ ~\E w \in Workers : WorkerStep(w) \/ Spurious(w)
           /\ ~\E g \in Groups : NotifyAll(g)
  BY <1>3, OutsideSteps, Zenon DEF Next
<1> QED
  BY <1>1, <1>2, <1>3, Zenon

-----------------------------------------------------------------------------
(* What it implies.                                                         *)

LEMMA CountsHold == ASSUME FiniteFacts, SchedInv PROVE CountsExact
<1>1. Agrees /\ NativeOK /\ ThreadsOK /\ ParkingOK
  BY Zenon DEF SchedInv, Core
<1>2. /\ entries \in Seq(Entry) /\ ready \in Seq(ReadyLane) /\ Tidy(ready)
      /\ DOMAIN entries \subseteq 1..MaxIndex /\ running \in 0..limit
      /\ \A i \in DOMAIN entries : entries[i] \in Entry /\ RowOK(entries[i])
      /\ Len(entries) <= MaxIndex /\ running = Cardinality(Slots(entries)) /\ running <= limit
  BY <1>1, AgreesTyped, Zenon DEF Agrees, Agree
<1>3. GroupsExact
  BY <1>1, Zenon DEF ParkingOK, GroupsExact, Members
<1>4. waiters \in [Groups -> 0..Cardinality(Workers)]
  <2>1. ASSUME NEW g \in Groups PROVE waiters[g] \in 0..Cardinality(Workers)
    <3>1. waiters[g] = Cardinality(Members(g)) /\ Cardinality(Members(g)) \in Nat
          /\ Cardinality(Members(g)) <= Cardinality(Workers)
      BY <1>1, <2>1, MembersFinite, Zenon DEF ParkingOK
    <3>2. Cardinality(Workers) \in Nat
      BY RunAssumption, FiniteCount, Zenon
    <3> QED
      BY <3>1, <3>2
  <2>2. waiters \in [Groups -> Nat]
    BY <1>1, Zenon DEF ParkingOK
  <2> QED
    BY <2>1, <2>2, Zenon
<1>5. TypeOK
  BY <1>1, <1>2, <1>4, Zenon DEF TypeOK, NativeOK, ThreadsOK, ParkingOK
<1>6. QuotaExact
  BY <1>2, Zenon DEF QuotaExact, Slots, RowOK
<1>7. LanesExact
  <2>1. ASSUME NEW k \in DOMAIN ready, NEW n \in DOMAIN ready[k].tasks
        PROVE  /\ ready[k].tasks[n] \in DOMAIN entries
               /\ entries[ready[k].tasks[n]].phase = "queued"
               /\ entries[ready[k].tasks[n]].lane = ready[k].lane
    <3>1. PICK i, l : i = ready[k].tasks[n] /\ l = ready[k].lane
      BY Zenon
    <3>2. In(ready, i, l)
      BY <2>1, <3>1, Zenon DEF In
    <3>3. i \in DOMAIN entries /\ entries[i].phase = "queued" /\ entries[i].lane = l
      BY <1>1, <3>2, AgreeIn, Zenon DEF Agrees
    <3> QED
      BY <3>1, <3>3, Zenon
  <2>2. ASSUME NEW i \in DOMAIN entries, entries[i].phase = "queued"
        PROVE  \E k \in DOMAIN ready : \E n \in DOMAIN ready[k].tasks : ready[k].tasks[n] = i
    <3>1. Queued(entries, i, entries[i].lane)
      BY <2>2, Zenon DEF Queued
    <3>2. In(ready, i, entries[i].lane)
      BY <1>1, <3>1, AgreeIn, Zenon DEF Agrees
    <3> QED
      BY <3>2, Zenon DEF In
  <2> QED
    BY <1>2, <2>1, <2>2, Zenon DEF LanesExact, Tidy
<1> QED
  BY <1>3, <1>5, <1>6, <1>7, Zenon DEF CountsExact

LEMMA DispatchHolds == ASSUME FiniteFacts, SchedInv PROVE DispatchBound
<1>1. Core /\ Held /\ Registered /\ NativeOK
  BY CoreHeld, Zenon DEF SchedInv
<1>2. ASSUME NEW i \in DOMAIN entries, entries[i].phase \in {"queued", "running"}
      PROVE  bindings[entries[i].task] = Of(i)
  <2>1. entries[i].phase # "free" /\ entries[i].phase # "idle"
    BY <1>2
  <2> QED
    BY <1>1, <1>2, <2>1, BoundOf, Zenon
<1>3. ASSUME NEW i \in DOMAIN entries, entries[i].phase = "running"
      PROVE  Cardinality({w \in Workers : threads[w].dispatch = Of(i)}) = 1
  <2>1. entries[i].phase # "free"
    BY <1>3
  <2>2. Of(i) \in Registrations
    BY <1>1, <1>3, <2>1, OfTyped, Zenon DEF Held
  <2>3. PICK w \in Workers : threads[w].dispatch = Of(i)
    BY <1>1, <1>3, Zenon DEF Held, Dispatches
  <2>4. \A v \in Workers : threads[v].dispatch = Of(i) => v = w
    BY <1>1, <2>2, <2>3, Zenon DEF Held, Dispatches, HasDispatch
  <2>5. {v \in Workers : threads[v].dispatch = Of(i)} = {w}
    BY <2>3, <2>4, Zenon
  <2> QED
    BY <2>5, FiniteOne, Zenon
<1>4. ASSUME NEW t \in Tasks, bindings[t] # None
      PROVE  Live(bindings[t]) /\ Row(bindings[t]).task = t
  <2>1. PICK r \in Registrations : bindings[t] = r
    BY <1>1, <1>4, BoundTask, Zenon
  <2> QED
    BY <1>1, <1>4, <2>1, Zenon DEF Held, Bindings, Row
<1> QED
  BY <1>1, <1>2, <1>3, <1>4, Zenon DEF DispatchBound, Of, Held

LEMMA WakesHold == ASSUME SchedInv PROVE WakesKept
  BY Zenon DEF SchedInv, Core, Wakes, Woken, WakesKept, Row

LEMMA NoWorkNone ==
  ASSUME Agrees, NEW served, NoWork(served)
  PROVE  Selected(served) = None
  BY Zenon DEF NoWork, Selected, FirstServed

LEMMA WakeupHolds == ASSUME SchedInv PROVE NoLostWakeup
<1>1. ASSUME NEW w \in Workers, threads[w].pc \in {"wait", "asleep"},
             threads[w].group \notin signals \cup {2}
      PROVE  IF Reclaims(w) THEN SlotStatus(threads[w].dispatch) = 0
             ELSE /\ Selected(Serves[w]) = None
                  /\ \/ \A u \in timers : threads[w].until <= u.deadline
                     \/ Called("signal", None, None) \in calls
  <2>1. threads[w] \in Thread /\ Place(threads[w]) /\ LooksAt(w) /\ Agrees
    BY <1>1, ThreadTyped, Zenon DEF SchedInv, Looks, Core
  <2>2. Nothing(w) /\ threads[w].pc # "deadline"
    BY <1>1, <2>1 DEF LooksAt
  <2>3. CASE Reclaims(w)
    <3>1. threads[w].dispatch # None
      BY <1>1, <2>1, <2>3, SMTT(30) DEF Place, Reclaims
    <3>2. PICK r \in Registrations : threads[w].dispatch = r
      BY <2>1, <3>1, ThreadFields, Zenon DEF MaybeRegistration
    <3>3. Live(r) /\ running = limit
      BY <2>2, <2>3, <3>2, Zenon DEF Nothing
    <3> QED
      BY <2>3, <3>2, <3>3, Zenon DEF SlotStatus
  <2>4. CASE ~Reclaims(w)
    BY <2>1, <2>2, <2>4, NoWorkNone, Zenon DEF Nothing
  <2> QED
    BY <2>3, <2>4, Zenon
<1>2. ASSUME NEW w \in Workers, threads[w].pc = "asleep", threads[w].group \in signals
      PROVE  threads[w].group \in notices
  BY <1>2, Zenon DEF SchedInv, Looks, LooksAt
<1> QED
  BY <1>1, <1>2, Zenon DEF NoLostWakeup

-----------------------------------------------------------------------------
(* The finite sets' facts, from the library.                                *)

\* IsFiniteSet and Cardinality written out: the instance below brings definitions of its
\* own by these names, and the two agree because both are these.
Enumerated(S) == \E seq \in Seq(S) : \A s \in S : \E n \in 1..Len(seq) : seq[n] = s

Size(S) ==
  LET CS[T \in SUBSET S] == IF T = {} THEN 0 ELSE 1 + CS[T \ {CHOOSE x : x \in T}]
  IN  CS[S]

LEMMA FiniteMeans == \A S : IsFiniteSet(S) = Enumerated(S) /\ Cardinality(S) = Size(S)
  BY Zenon DEF IsFiniteSet, Enumerated, Cardinality, Size

LOCAL INSTANCE FiniteSetTheorems

LEMMA LeastNatural ==
  ASSUME NEW T, T \subseteq Nat, T # {}
  PROVE  \E x \in T : \A y \in T : x <= y
<1> DEFINE R == OpToRel(<, Nat)
<1>1. IsWellFoundedOn(R, Nat)
  BY NatLessThanWellFounded, Zenon
<1>2. \A x, y \in Nat : <<x, y>> \in R <=> x < y
  BY DEF OpToRel
<1> HIDE DEF R
<1>3. PICK x \in T : \A y \in T : ~(<<y, x>> \in R)
  BY <1>1, WFMin, Zenon
<1>4. \A y \in T : ~(y < x)
  BY <1>2, <1>3, Zenon
<1>5. \A y \in T : x <= y
  BY <1>4, SMTT(30)
<1> QED
  BY <1>5, Zenon

LEMMA FiniteFactsHold == FiniteFacts
<1>0. \A S : IsFiniteSet(S) = Enumerated(S) /\ Cardinality(S) = Size(S)
  BY Zenon DEF IsFiniteSet, Enumerated, Cardinality, Size
<1>1. \A S : Enumerated(S) => Size(S) \in Nat /\ (Size(S) = 0 <=> S = {})
  BY <1>0, FS_CardinalityType, FS_EmptySet, Zenon
<1>2. \A S : Enumerated(S) =>
        \A T \in SUBSET S : Enumerated(T) /\ Size(T) <= Size(S)
  BY <1>0, FS_Subset, Zenon
<1>3. \A S, x : Enumerated(S) =>
        /\ Enumerated(S \cup {x})
        /\ Size(S \cup {x}) = IF x \in S THEN Size(S) ELSE Size(S) + 1
  BY <1>0, FS_AddElement, Zenon
<1>4. \A S, x : Enumerated(S) =>
        /\ Enumerated(S \ {x})
        /\ Size(S \ {x}) = IF x \in S THEN Size(S) - 1 ELSE Size(S)
  BY <1>0, FS_RemoveElement, Zenon
<1>5. Enumerated({}) /\ Size({}) = 0
  BY <1>0, FS_EmptySet, Zenon
<1>6. \A x : Enumerated({x}) /\ Size({x}) = 1
  BY <1>0, FS_Singleton, Zenon
<1>7. \A n \in Nat : Enumerated(1..n)
  <2> SUFFICES ASSUME NEW n \in Nat PROVE Enumerated(1..n)
    BY SMTT(30)
  <2>1. IsFiniteSet(1..n)
    BY FS_Interval, SMTT(30)
  <2> QED
    BY <1>0, <2>1, Zenon
<1>8. Counted
  BY FiniteMeans, <1>1, Zenon DEF Counted
<1>9. Contained
  BY FiniteMeans, <1>2, Zenon DEF Contained
<1>10. Added
  BY FiniteMeans, <1>3, Zenon DEF Added
<1>11. Removed
  BY FiniteMeans, <1>4, Zenon DEF Removed
<1>12. Small
  BY FiniteMeans, <1>5, <1>6, <1>7, Zenon DEF Small
<1>13. WellOrdered
  BY LeastNatural, Zenon DEF WellOrdered
<1> QED
  BY <1>8, <1>9, <1>10, <1>11, <1>12, <1>13, Zenon DEF FiniteFacts

-----------------------------------------------------------------------------
(* What it guarantees.                                                      *)

\* Every state of the scheduler satisfies the inductive invariant: the lanes and the
\* quota agree with the entries, every dispatch has one holder, every entry is bound or
\* about to be, and a thread that waits either has nothing to do or is being woken.
THEOREM SchedulerInvariant == Spec => []SchedInv
<1>1. Init => SchedInv
  BY FiniteFactsHold, InitSchedInv, SMTT(30)
<1>2. SchedInv /\ [Next]_vars => SchedInv'
  BY FiniteFactsHold, DomainFactsHold, NextSchedInv, Zenon
<1> QED
  BY <1>1, <1>2, PTL DEF Spec

\* The waiter counts of both parking groups, the ready entries of each lane and the slots
\* in use are exact in every state, for any number of workers, lanes, tasks and slots.
THEOREM CountsStayExact == Spec => []CountsExact
<1>1. SchedInv => CountsExact
  BY FiniteFactsHold, CountsHold, Zenon
<1> QED
  BY <1>1, SchedulerInvariant, PTL

\* No operation of the domain aborts, every entry that is ready or runs is bound under its
\* own registration and a running entry has exactly one holder, in every state.
THEOREM DispatchesStayBound == Spec => []DispatchBound
<1>1. SchedInv => DispatchBound
  BY FiniteFactsHold, DispatchHolds, Zenon
<1> QED
  BY <1>1, SchedulerInvariant, PTL

\* A wake of a live registration is never lost before the next dispatch of that
\* registration: its entry stays ready, or runs with the wake pending.
THEOREM WakesStayKept == Spec => []WakesKept
<1>1. SchedInv => WakesKept
  BY FiniteFactsHold, WakesHold, Zenon
<1> QED
  BY <1>1, SchedulerInvariant, PTL

\* No thread sleeps while there is something for it to do and nobody is about to wake it,
\* for any number of workers, whichever lanes they serve.
THEOREM WakeupsNeverLost == Spec => []NoLostWakeup
<1>1. SchedInv => NoLostWakeup
  BY FiniteFactsHold, WakeupHolds, Zenon
<1> QED
  BY <1>1, SchedulerInvariant, PTL
=============================================================================

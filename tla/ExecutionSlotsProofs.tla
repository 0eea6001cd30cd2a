------------------------ MODULE ExecutionSlotsProofs ------------------------
(***************************************************************************)
(* The execution slots for any number of workers, slots and promoters: the *)
(* counters are exact, no wake-up is lost, and ordinary work is bypassed   *)
(* at most MAX_INTERACTIVE_STREAK times.                                   *)
(***************************************************************************)
EXTENDS MCExecutionSlots, FiniteSetTheorems, TLAPS

(* w is counted as a waiter of class c.                                    *)
Queued(w, c) == worker[w] \in {"Waiting", "Notified"} /\ registered[w] = c

(* Everything in the type invariant but the three counts.                  *)
Shape ==
  /\ interactive_streak \in 0..MAX_INTERACTIVE_STREAK
  /\ worker \in [Workers -> WorkerStates]
  /\ registered \in [Workers -> BOOLEAN]
  /\ priority \in [Workers -> Priorities]
  /\ promoting \in SUBSET Promoters

(* The step leaves every count of v alone.                                 *)
Untouched(v) ==
  /\ worker'[v] = "Held" <=> worker[v] = "Held"
  /\ \A c \in BOOLEAN : Queued(v, c)' <=> Queued(v, c)

(* What a step that moves w does to the counters.                          *)
Holding(w) == One(worker[w] = "Held")
InInteractive(w) == One(Queued(w, TRUE))
InOrdinary(w) == One(Queued(w, FALSE))

Counts(w) ==
  /\ active' = active + Holding(w)' - Holding(w)
  /\ interactive_waiters' = interactive_waiters + InInteractive(w)' - InInteractive(w)
  /\ ordinary_waiters' = ordinary_waiters + InOrdinary(w)' - InOrdinary(w)
  /\ active' <= limit

(* A worker waits without a notification only when its class may not go    *)
(* first, or when a slot is held whose release will notify it.             *)
Eligible(c) ==
  IF c THEN interactive_streak < MAX_INTERACTIVE_STREAK \/ ordinary_waiters = 0
  ELSE interactive_waiters = 0 \/ interactive_streak >= MAX_INTERACTIVE_STREAK

WaitsInVain ==
  active = 0 => \A v \in Workers : worker[v] = "Waiting" => ~Eligible(registered[v])

-----------------------------------------------------------------------------
(* Two sets that differ at most in w have cardinalities that differ so.    *)
LEMMA CountMember ==
  ASSUME NEW S, NEW T, NEW w, IsFiniteSet(S),
         \A v : v # w => (v \in T <=> v \in S)
  PROVE  Cardinality(T) = Cardinality(S) + One(w \in T) - One(w \in S)
<1>0. Cardinality(S) \in Nat
  BY FS_CardinalityType
<1>1. CASE (w \in T) = (w \in S)
  <2>1. T = S
    BY <1>1
  <2> QED BY <2>1, <1>0 DEF One
<1>2. CASE w \in T /\ w \notin S
  <2>1. T = S \cup {w}
    BY <1>2
  <2>2. Cardinality(T) = Cardinality(S) + 1
    BY <2>1, <1>2, FS_AddElement
  <2> QED BY <2>2, <1>2, <1>0 DEF One
<1>3. CASE w \notin T /\ w \in S
  <2>1. T = S \ {w}
    BY <1>3
  <2>2. Cardinality(T) = Cardinality(S) - 1
    BY <2>1, <1>3, FS_RemoveElement
  <2> QED BY <2>2, <1>3, <1>0 DEF One
<1> QED BY <1>1, <1>2, <1>3

(* Exact counters stay exact when one worker moves and is counted.         *)
LEMMA Recount ==
  ASSUME CountersExact, Shape', NEW w \in Workers, Counts(w),
         \A v \in Workers \ {w} : Untouched(v)
  PROVE  CountersExact'
<1> DEFINE R(c) == {v \in Workers : Queued(v, c)}
<1>1. IsFiniteSet(Holders) /\ IsFiniteSet(R(TRUE)) /\ IsFiniteSet(R(FALSE))
  BY SlotsAssumption, FS_Subset DEF Holders
<1>2. /\ Registered(TRUE) = R(TRUE) /\ Registered(FALSE) = R(FALSE)
      /\ Registered(TRUE)' = R(TRUE)' /\ Registered(FALSE)' = R(FALSE)'
  BY DEF Registered, Blocked, Queued
<1>3. Cardinality(Holders') = Cardinality(Holders) + One(w \in Holders') - One(w \in Holders)
  <2>1. \A v : v # w => (v \in Holders' <=> v \in Holders)
    BY DEF Untouched, Holders
  <2> QED BY <2>1, <1>1, CountMember
<1>4. Cardinality(R(TRUE)') = Cardinality(R(TRUE)) + One(w \in R(TRUE)') - One(w \in R(TRUE))
  <2>1. \A v : v # w => (v \in R(TRUE)' <=> v \in R(TRUE))
    BY DEF Untouched
  <2> QED BY <2>1, <1>1, CountMember
<1>5. Cardinality(R(FALSE)') = Cardinality(R(FALSE)) + One(w \in R(FALSE)') - One(w \in R(FALSE))
  <2>1. \A v : v # w => (v \in R(FALSE)' <=> v \in R(FALSE))
    BY DEF Untouched
  <2> QED BY <2>1, <1>1, CountMember
<1>6. /\ One(w \in Holders) = Holding(w) /\ One(w \in Holders') = Holding(w)'
      /\ One(w \in R(TRUE)) = InInteractive(w) /\ One(w \in R(TRUE)') = InInteractive(w)'
      /\ One(w \in R(FALSE)) = InOrdinary(w) /\ One(w \in R(FALSE)') = InOrdinary(w)'
  BY DEF Holders, Queued, Holding, InInteractive, InOrdinary, One
<1>7. /\ active' = Cardinality(Holders')
      /\ interactive_waiters' = Cardinality(R(TRUE)')
      /\ ordinary_waiters' = Cardinality(R(FALSE)')
  BY <1>2, <1>3, <1>4, <1>5, <1>6 DEF Counts, CountersExact
<1>8. IsFiniteSet(Holders') /\ IsFiniteSet(R(TRUE)') /\ IsFiniteSet(R(FALSE)')
  BY SlotsAssumption, FS_Subset DEF Holders
<1>9. active' \in Nat /\ interactive_waiters' \in Nat /\ ordinary_waiters' \in Nat
  BY <1>7, <1>8, FS_CardinalityType
<1> QED BY <1>2, <1>7, <1>9 DEF CountersExact, TypeOK, Shape, Counts

-----------------------------------------------------------------------------
(* A pass through the loop of acquire_capacity by w, which is counted      *)
(* among iw and ow: what becomes of the shape, the counts and the waiters. *)
LEMMA GrantOrWaitStep ==
  ASSUME CountersExact, WaitsInVain,
         NEW w \in Workers, NEW interactive \in BOOLEAN, NEW notify \in BOOLEAN,
         worker[w] # "Held",
         NEW iw, NEW ow,
         iw = interactive_waiters - InInteractive(w) + One(interactive),
         ow = ordinary_waiters - InOrdinary(w) + One(~interactive),
         ~notify => iw = interactive_waiters /\ ow = ordinary_waiters,
         GrantOrWait(w, interactive, iw, ow, notify),
         priority' \in [Workers -> Priorities], promoting' = promoting
  PROVE  CountersExact' /\ WaitsInVain'
<1> USE SlotsAssumption
<1>0. /\ active \in Nat /\ interactive_waiters \in Nat /\ ordinary_waiters \in Nat
      /\ interactive_streak \in 0..MAX_INTERACTIVE_STREAK
      /\ worker \in [Workers -> WorkerStates] /\ registered \in [Workers -> BOOLEAN]
      /\ promoting \in SUBSET Promoters /\ active <= limit
  BY DEF CountersExact, TypeOK
<1>a. /\ Holding(w) = 0 /\ InInteractive(w) \in Nat /\ InOrdinary(w) \in Nat
  BY DEF Holding, InInteractive, InOrdinary, One
<1>1. CASE CanAcquire(iw, ow, interactive)
  <2>1. /\ GrantSlot(interactive)
        /\ interactive_waiters' = iw - One(interactive)
        /\ ordinary_waiters' = ow - One(~interactive)
        /\ worker' = [v \in Workers |-> IF v = w THEN "Held"
                                        ELSE IF notify THEN Notify(worker[v])
                                        ELSE worker[v]]
        /\ registered' = registered
    BY <1>1 DEF GrantOrWait
  <2>2. worker' \in [Workers -> WorkerStates] /\ worker'[w] = "Held"
    BY <2>1, <1>0 DEF Notify, WorkerStates
  <2>3. \A v \in Workers \ {w} : Untouched(v)
    BY <2>1, <1>0 DEF Untouched, Queued, Notify, WorkerStates
  <2>4. Shape'
    BY <2>1, <2>2, <1>0 DEF Shape, GrantSlot, StreakAfter
  <2>5. Counts(w)
    <3>1. Holding(w)' = 1 /\ InInteractive(w)' = 0 /\ InOrdinary(w)' = 0
      BY <2>2 DEF Holding, InInteractive, InOrdinary, Queued, One
    <3>2. active' = active + 1 /\ active < limit
      BY <2>1, <1>1 DEF GrantSlot, CanAcquire
    <3>3. /\ interactive_waiters' = interactive_waiters - InInteractive(w)
          /\ ordinary_waiters' = ordinary_waiters - InOrdinary(w)
      BY <2>1, <1>0, <1>a DEF One
    <3> QED BY <3>1, <3>2, <3>3, <1>0, <1>a DEF Counts
  <2>6. WaitsInVain'
    BY <2>1, <1>0 DEF WaitsInVain, GrantSlot
  <2> QED BY <2>3, <2>4, <2>5, <2>6, Recount
<1>2. CASE ~CanAcquire(iw, ow, interactive)
  <2>1. /\ interactive_waiters' = iw
        /\ ordinary_waiters' = ow
        /\ registered' = [registered EXCEPT ![w] = interactive]
        /\ worker' = [v \in Workers |-> IF v = w THEN "Waiting"
                                        ELSE IF notify THEN Notify(worker[v])
                                        ELSE worker[v]]
        /\ UNCHANGED <<active, interactive_streak>>
    BY <1>2 DEF GrantOrWait
  <2>2. /\ worker' \in [Workers -> WorkerStates] /\ worker'[w] = "Waiting"
        /\ registered' \in [Workers -> BOOLEAN] /\ registered'[w] = interactive
    BY <2>1, <1>0 DEF Notify, WorkerStates
  <2>3. \A v \in Workers \ {w} : Untouched(v)
    BY <2>1, <1>0 DEF Untouched, Queued, Notify, WorkerStates
  <2>4. Shape'
    BY <2>1, <2>2, <1>0 DEF Shape
  <2>5. Counts(w)
    <3>1. /\ Holding(w)' = 0
          /\ InInteractive(w)' = One(interactive) /\ InOrdinary(w)' = One(~interactive)
      BY <2>2 DEF Holding, InInteractive, InOrdinary, Queued, One
    <3>2. /\ interactive_waiters' = interactive_waiters + InInteractive(w)' - InInteractive(w)
          /\ ordinary_waiters' = ordinary_waiters + InOrdinary(w)' - InOrdinary(w)
      <4>1. CASE interactive
        <5>1. InInteractive(w)' = 1 /\ InOrdinary(w)' = 0
          BY <3>1, <4>1 DEF One
        <5>2. iw = interactive_waiters - InInteractive(w) + 1 /\ ow = ordinary_waiters - InOrdinary(w) + 0
          BY <4>1 DEF One
        <5> QED BY <5>1, <5>2, <2>1, <1>0, <1>a
      <4>2. CASE ~interactive
        <5>1. InInteractive(w)' = 0 /\ InOrdinary(w)' = 1
          BY <3>1, <4>2 DEF One
        <5>2. iw = interactive_waiters - InInteractive(w) + 0 /\ ow = ordinary_waiters - InOrdinary(w) + 1
          BY <4>2 DEF One
        <5> QED BY <5>1, <5>2, <2>1, <1>0, <1>a
      <4> QED BY <4>1, <4>2
    <3> QED BY <3>1, <3>2, <2>1, <1>0, <1>a DEF Counts
  <2>6. WaitsInVain'
    <3> SUFFICES ASSUME active' = 0, NEW v \in Workers, worker'[v] = "Waiting"
                 PROVE  ~Eligible(registered[v])'
      BY DEF WaitsInVain
    <3>1. CASE v = w
      <4>1. active < limit
        BY <2>1, <1>0
      <4>2. CASE interactive
        BY <4>1, <4>2, <3>1, <2>1, <2>2, <1>2 DEF Eligible, CanAcquire
      <4>3. CASE ~interactive
        BY <4>1, <4>3, <3>1, <2>1, <2>2, <1>2 DEF Eligible, CanAcquire
      <4> QED BY <4>2, <4>3
    <3>2. CASE v # w
      <4>1. ~notify /\ worker[v] = "Waiting" /\ registered'[v] = registered[v]
        BY <3>2, <2>1, <1>0 DEF Notify, WorkerStates
      <4>2. interactive_waiters' = interactive_waiters /\ ordinary_waiters' = ordinary_waiters
        BY <4>1, <2>1
      <4>3. ~Eligible(registered[v])
        BY <4>1, <2>1 DEF WaitsInVain
      <4> QED BY <4>1, <4>2, <4>3, <2>1 DEF Eligible
    <3> QED BY <3>1, <3>2
  <2> QED BY <2>3, <2>4, <2>5, <2>6, Recount
<1> QED BY <1>1, <1>2

(* Exact counters stay exact when nobody moves and nothing is counted.     *)
LEMMA Unmoved ==
  ASSUME CountersExact, Shape', \A v \in Workers : Untouched(v),
         UNCHANGED <<active, interactive_waiters, ordinary_waiters>>
  PROVE  CountersExact'
<1>1. Holders' = Holders
  BY DEF Holders, Untouched
<1>2. Registered(TRUE)' = Registered(TRUE) /\ Registered(FALSE)' = Registered(FALSE)
  BY DEF Registered, Blocked, Queued, Untouched
<1> QED BY <1>1, <1>2 DEF CountersExact, TypeOK, Shape

(* The inductive invariant, and the theorem that it is one.                *)
SlotsInv == CountersExact /\ WaitsInVain

LEMMA AcquireCapacityStep ==
  ASSUME SlotsInv, NEW w \in Workers, NEW interactive \in BOOLEAN,
         worker[w] \in {"Idle", "Suspended"}, AcquireCapacity(w, interactive),
         priority' \in [Workers -> Priorities], promoting' = promoting
  PROVE  SlotsInv'
<1>1. InInteractive(w) = 0 /\ InOrdinary(w) = 0 /\ worker[w] # "Held"
  BY DEF InInteractive, InOrdinary, Queued, One
<1>2. interactive_waiters \in Nat /\ ordinary_waiters \in Nat
  BY DEF SlotsInv, CountersExact, TypeOK
<1> DEFINE iw == interactive_waiters + One(interactive)
           ow == ordinary_waiters + One(~interactive)
<1>3. /\ iw = interactive_waiters - InInteractive(w) + One(interactive)
      /\ ow = ordinary_waiters - InOrdinary(w) + One(~interactive)
  BY <1>1, <1>2
<1>4. GrantOrWait(w, interactive, iw, ow, TRUE)
  BY DEF AcquireCapacity
<1> HIDE DEF iw, ow
<1> QED BY <1>1, <1>3, <1>4, GrantOrWaitStep DEF SlotsInv

LEMMA WakeStep ==
  ASSUME SlotsInv, NEW w \in Workers, Wake(w)
  PROVE  SlotsInv'
<1> DEFINE c == IsInteractive(w)
<1>0. /\ interactive_waiters \in Nat /\ ordinary_waiters \in Nat
      /\ registered \in [Workers -> BOOLEAN] /\ priority \in [Workers -> Priorities]
  BY DEF SlotsInv, CountersExact, TypeOK
<1>1. /\ worker[w] # "Held" /\ c \in BOOLEAN /\ promoting' = promoting
      /\ priority' \in [Workers -> Priorities]
  BY <1>0 DEF Wake, IsInteractive
<1>2. InInteractive(w) = One(registered[w]) /\ InOrdinary(w) = One(~registered[w])
  BY <1>0 DEF Wake, InInteractive, InOrdinary, Queued, One
<1>3. CASE c # registered[w]
  <2> DEFINE iw == interactive_waiters - One(registered[w]) + One(c)
             ow == ordinary_waiters - One(~registered[w]) + One(~c)
  <2>1. GrantOrWait(w, c, iw, ow, TRUE)
    BY <1>3 DEF Wake
  <2>2. /\ iw = interactive_waiters - InInteractive(w) + One(c)
        /\ ow = ordinary_waiters - InOrdinary(w) + One(~c)
    BY <1>2
  <2> HIDE DEF iw, ow, c
  <2> QED BY <1>1, <2>1, <2>2, GrantOrWaitStep DEF SlotsInv
<1>4. CASE c = registered[w]
  <2>1. GrantOrWait(w, c, interactive_waiters, ordinary_waiters, FALSE)
    BY <1>4 DEF Wake
  <2>2. /\ InInteractive(w) = One(c) /\ InOrdinary(w) = One(~c)
        /\ One(c) \in Nat /\ One(~c) \in Nat
    <3>1. CASE c
      BY <3>1, <1>4, <1>2 DEF One
    <3>2. CASE ~c
      BY <3>2, <1>4, <1>2 DEF One
    <3> QED BY <3>1, <3>2, <1>1
  <2>3. /\ interactive_waiters = interactive_waiters - InInteractive(w) + One(c)
        /\ ordinary_waiters = ordinary_waiters - InOrdinary(w) + One(~c)
    BY <2>2, <1>0
  <2> HIDE DEF c
  <2> QED BY <1>1, <2>1, <2>3, GrantOrWaitStep DEF SlotsInv
<1> QED BY <1>3, <1>4

LEMMA TryAcquireStep ==
  ASSUME SlotsInv, NEW w \in Workers, NEW p \in Priorities, TryAcquire(w, p)
  PROVE  SlotsInv'
<1>0. /\ active \in Nat /\ interactive_waiters \in Nat /\ ordinary_waiters \in Nat
      /\ limit \in Nat /\ active < limit /\ active' = active + 1
      /\ MAX_INTERACTIVE_STREAK \in Nat
  BY SlotsAssumption DEF SlotsInv, CountersExact, TypeOK, TryAcquire, CanAcquire, GrantSlot
<1>1. Shape'
  BY <1>0 DEF SlotsInv, CountersExact, TypeOK, Shape, TryAcquire, GrantSlot, StreakAfter,
            WorkerStates
<1>2. /\ Holding(w) = 0 /\ Holding(w)' = 1
      /\ InInteractive(w) = 0 /\ InInteractive(w)' = 0
      /\ InOrdinary(w) = 0 /\ InOrdinary(w)' = 0
  BY DEF SlotsInv, CountersExact, TypeOK, TryAcquire, Holding, InInteractive, InOrdinary,
         Queued, One
<1>3. Counts(w)
  BY <1>0, <1>2 DEF Counts, TryAcquire
<1>4. \A v \in Workers \ {w} : Untouched(v)
  BY DEF SlotsInv, CountersExact, TypeOK, TryAcquire, Untouched, Queued
<1>5. CountersExact'
  BY <1>1, <1>3, <1>4, Recount DEF SlotsInv
<1>6. WaitsInVain'
  BY <1>0 DEF WaitsInVain
<1> QED BY <1>5, <1>6 DEF SlotsInv

LEMMA GiveBackStep ==
  ASSUME SlotsInv, NEW w \in Workers, NEW s \in {"Idle", "Suspended"}, GiveBack(w, s)
  PROVE  SlotsInv'
<1>0. /\ active \in Nat /\ interactive_waiters \in Nat /\ ordinary_waiters \in Nat
      /\ limit \in Nat /\ active <= limit /\ active' = active - 1
  BY SlotsAssumption DEF SlotsInv, CountersExact, TypeOK, GiveBack
<1>1. Shape'
  BY DEF SlotsInv, CountersExact, TypeOK, Shape, GiveBack, WorkerStates, Notify
<1>2. /\ Holding(w) = 1 /\ Holding(w)' = 0
      /\ InInteractive(w) = 0 /\ InInteractive(w)' = 0
      /\ InOrdinary(w) = 0 /\ InOrdinary(w)' = 0
  BY DEF GiveBack, Holding, InInteractive, InOrdinary, Queued, One
<1>3. Counts(w)
  BY <1>0, <1>2 DEF Counts, GiveBack
<1>4. \A v \in Workers \ {w} : Untouched(v)
  BY DEF GiveBack, Untouched, Queued, Notify
<1>5. CountersExact'
  BY <1>1, <1>3, <1>4, Recount DEF SlotsInv
<1>6. \A v \in Workers : worker'[v] # "Waiting"
  BY DEF GiveBack, Notify
<1> QED BY <1>5, <1>6 DEF SlotsInv, WaitsInVain

LEMMA DropSuspendedStep ==
  ASSUME SlotsInv, NEW w \in Workers, DropSuspended(w)
  PROVE  SlotsInv'
<1>1. Shape'
  BY DEF SlotsInv, CountersExact, TypeOK, Shape, DropSuspended, WorkerStates, counters
<1>2. \A v \in Workers : Untouched(v)
  BY DEF SlotsInv, CountersExact, TypeOK, DropSuspended, Untouched, Queued
<1>3. CountersExact'
  BY <1>1, <1>2, Unmoved DEF SlotsInv, DropSuspended, counters
<1>4. WaitsInVain'
  BY DEF SlotsInv, CountersExact, TypeOK, WaitsInVain, Eligible, DropSuspended, counters
<1> QED BY <1>3, <1>4 DEF SlotsInv

LEMMA SpuriousWakeStep ==
  ASSUME SlotsInv, NEW w \in Workers, SpuriousWake(w)
  PROVE  SlotsInv'
<1>1. Shape'
  BY DEF SlotsInv, CountersExact, TypeOK, Shape, SpuriousWake, WorkerStates, counters
<1>2. \A v \in Workers : Untouched(v)
  BY DEF SlotsInv, CountersExact, TypeOK, SpuriousWake, Untouched, Queued
<1>3. CountersExact'
  BY <1>1, <1>2, Unmoved DEF SlotsInv, SpuriousWake, counters
<1>4. WaitsInVain'
  BY DEF SlotsInv, CountersExact, TypeOK, WaitsInVain, Eligible, SpuriousWake, counters
<1> QED BY <1>3, <1>4 DEF SlotsInv

LEMMA PromoteStep ==
  ASSUME SlotsInv, NEW m \in Promoters, NEW w \in Workers, NEW p \in Priorities,
         Promote(m, w, p)
  PROVE  SlotsInv'
<1>1. Shape'
  BY DEF SlotsInv, CountersExact, TypeOK, Shape, Promote, counters
<1>2. \A v \in Workers : Untouched(v)
  BY DEF Promote, Untouched, Queued
<1>3. CountersExact'
  BY <1>1, <1>2, Unmoved DEF SlotsInv, Promote, counters
<1>4. WaitsInVain'
  BY DEF SlotsInv, WaitsInVain, Eligible, Promote, counters
<1> QED BY <1>3, <1>4 DEF SlotsInv

LEMMA PriorityChangedStep ==
  ASSUME SlotsInv, NEW m \in Promoters, PriorityChanged(m)
  PROVE  SlotsInv'
<1>1. Shape'
  BY DEF SlotsInv, CountersExact, TypeOK, Shape, PriorityChanged, WorkerStates, Notify,
         counters
<1>2. \A v \in Workers : Untouched(v)
  BY DEF PriorityChanged, Untouched, Queued, Notify
<1>3. CountersExact'
  BY <1>1, <1>2, Unmoved DEF SlotsInv, PriorityChanged, counters
<1>4. \A v \in Workers : worker'[v] # "Waiting"
  BY DEF PriorityChanged, Notify
<1> QED BY <1>3, <1>4 DEF SlotsInv, WaitsInVain

LEMMA AcquireStep ==
  ASSUME SlotsInv, NEW w \in Workers, NEW p \in Priorities, Acquire(w, p)
  PROVE  SlotsInv'
<1>1. priority' \in [Workers -> Priorities]
  BY DEF SlotsInv, CountersExact, TypeOK, Acquire
<1> DEFINE interactive == p = Interactive
<1>2. interactive \in BOOLEAN /\ AcquireCapacity(w, interactive)
  BY DEF Acquire
<1>3. worker[w] = "Idle" /\ promoting' = promoting
  BY DEF Acquire
<1> HIDE DEF interactive
<1> QED BY <1>1, <1>2, <1>3, AcquireCapacityStep

LEMMA ResumeStep ==
  ASSUME SlotsInv, NEW w \in Workers, Resume(w)
  PROVE  SlotsInv'
<1>1. priority' \in [Workers -> Priorities]
  BY DEF SlotsInv, CountersExact, TypeOK, Resume
<1> DEFINE interactive == IsInteractive(w)
<1>2. interactive \in BOOLEAN /\ AcquireCapacity(w, interactive)
  BY DEF Resume, IsInteractive
<1>3. worker[w] = "Suspended" /\ promoting' = promoting
  BY DEF Resume
<1> HIDE DEF interactive
<1> QED BY <1>1, <1>2, <1>3, AcquireCapacityStep

LEMMA InitSlots == Init => SlotsInv
<1> SUFFICES ASSUME Init PROVE SlotsInv
  OBVIOUS
<1>1. TypeOK
  BY SlotsAssumption DEF Init, TypeOK, WorkerStates, Priorities, Interactive, Normal, Background
<1>2. Holders = {} /\ Registered(TRUE) = {} /\ Registered(FALSE) = {}
  BY DEF Init, Holders, Registered, Blocked
<1>3. /\ Cardinality(Holders) = 0
      /\ Cardinality(Registered(TRUE)) = 0 /\ Cardinality(Registered(FALSE)) = 0
  BY <1>2, FS_EmptySet, Zenon
<1>4. 0 <= limit
  BY SlotsAssumption
<1>5. CountersExact
  BY <1>1, <1>3, <1>4 DEF CountersExact, Init
<1>6. WaitsInVain
  BY DEF WaitsInVain, Init
<1> QED BY <1>5, <1>6 DEF SlotsInv

LEMMA SlotsStep == SlotsInv /\ [Next]_vars => SlotsInv'
<1> SUFFICES ASSUME SlotsInv, [Next]_vars PROVE SlotsInv'
  OBVIOUS
<1>1. CASE UNCHANGED vars
  <2>1. Shape' /\ \A v \in Workers : Untouched(v)
    BY <1>1 DEF SlotsInv, CountersExact, TypeOK, Shape, Untouched, Queued, vars, counters
  <2>2. CountersExact'
    BY <1>1, <2>1, Unmoved DEF SlotsInv, vars, counters
  <2>3. WaitsInVain'
    BY <1>1 DEF SlotsInv, WaitsInVain, Eligible, vars, counters
  <2> QED BY <2>2, <2>3 DEF SlotsInv
<1>2. CASE \E w \in Workers, p \in Priorities : Acquire(w, p) \/ TryAcquire(w, p)
  BY <1>2, AcquireStep, TryAcquireStep
<1>3. CASE \E w \in Workers : Wake(w) \/ SpuriousWake(w)
  BY <1>3, WakeStep, SpuriousWakeStep
<1>4. CASE \E w \in Workers : Release(w) \/ Suspend(w)
  BY <1>4, GiveBackStep DEF Release, Suspend
<1>5. CASE \E w \in Workers : Resume(w) \/ DropSuspended(w)
  BY <1>5, ResumeStep, DropSuspendedStep
<1>6. CASE \E m \in Promoters, w \in Workers, p \in Priorities : Promote(m, w, p)
  BY <1>6, PromoteStep
<1>7. CASE \E m \in Promoters : PriorityChanged(m)
  BY <1>7, PriorityChangedStep
<1> QED BY <1>1, <1>2, <1>3, <1>4, <1>5, <1>6, <1>7 DEF Next

LEMMA SlotsInvariant == Spec => []SlotsInv
<1> QED BY InitSlots, SlotsStep, PTL DEF Spec

(* For any number of workers, slots and promoters the counters of the      *)
(* slots are exact and the budget is kept: what unregister_waiter, suspend *)
(* and drop panic about does not happen.                                   *)
THEOREM CountersAlwaysExact == Spec => []CountersExact
<1>1. SlotsInv => CountersExact
  BY DEF SlotsInv
<1> QED BY <1>1, SlotsInvariant, PTL

LEMMA InvNoLostWakeup == SlotsInv => NoLostWakeup
<1> SUFFICES ASSUME SlotsInv, active = 0, NEW w \in Blocked,
                    \A v \in Blocked : worker[v] # "Notified"
             PROVE  FALSE
  BY DEF NoLostWakeup
<1>1. \A v \in Blocked : v \in Workers /\ worker[v] = "Waiting" /\ ~Eligible(registered[v])
  BY DEF Blocked, SlotsInv, WaitsInVain
<1>2. registered \in [Workers -> BOOLEAN]
  BY DEF SlotsInv, CountersExact, TypeOK
<1>3. /\ interactive_streak \in Nat /\ MAX_INTERACTIVE_STREAK \in Nat
      /\ interactive_waiters = Cardinality(Registered(TRUE))
      /\ ordinary_waiters = Cardinality(Registered(FALSE))
  BY SlotsAssumption DEF SlotsInv, CountersExact, TypeOK
<1>4. ASSUME NEW v \in Blocked, registered[v] = TRUE
      PROVE  /\ interactive_streak >= MAX_INTERACTIVE_STREAK
             /\ \E u \in Blocked : registered[u] = FALSE
  <2>1. ~(interactive_streak < MAX_INTERACTIVE_STREAK) /\ ordinary_waiters # 0
    BY <1>1, <1>4 DEF Eligible
  <2>2. Registered(FALSE) # {}
    BY <2>1, <1>3, FS_EmptySet
  <2> QED BY <2>1, <2>2, <1>3 DEF Registered
<1>5. ASSUME NEW v \in Blocked, registered[v] = FALSE
      PROVE  /\ interactive_streak < MAX_INTERACTIVE_STREAK
             /\ \E u \in Blocked : registered[u] = TRUE
  <2>1. ~(interactive_streak >= MAX_INTERACTIVE_STREAK) /\ interactive_waiters # 0
    BY <1>1, <1>5 DEF Eligible
  <2>2. Registered(TRUE) # {}
    BY <2>1, <1>3, FS_EmptySet
  <2> QED BY <2>1, <2>2, <1>3 DEF Registered
<1>6. ~(interactive_streak < MAX_INTERACTIVE_STREAK /\ interactive_streak >= MAX_INTERACTIVE_STREAK)
  BY <1>3
<1>7. registered[w] = TRUE \/ registered[w] = FALSE
  BY <1>1, <1>2
<1> QED BY <1>4, <1>5, <1>6, <1>7

(* For any number of workers, slots and promoters: when every slot is free *)
(* and somebody is queued, a queued worker has been notified.              *)
THEOREM WakeupsNeverLost == Spec => []NoLostWakeup
<1> QED BY InvNoLostWakeup, SlotsInvariant, PTL

-----------------------------------------------------------------------------
(* Every grant counted by the history since the last ordinary grant is in  *)
(* the streak, which stops at MAX_INTERACTIVE_STREAK while ordinary work   *)
(* is queued.                                                              *)
BypassInv == SlotsInv /\ bypassed \in Nat /\ bypassed <= interactive_streak

(* What a step does to the slots in use and to the streak.                 *)
LEMMA GrantsAreCounted ==
  ASSUME SlotsInv, [Next]_vars, ~OrdinaryGrant, ordinary_waiters' # 0
  PROVE  \/ active' # active + 1 /\ interactive_streak' = interactive_streak
         \/ active' = active + 1 /\ interactive_streak' = interactive_streak + 1
<1>0. /\ active \in Nat /\ interactive_streak \in 0..MAX_INTERACTIVE_STREAK
      /\ ordinary_waiters \in Nat /\ MAX_INTERACTIVE_STREAK \in Nat
  BY SlotsAssumption DEF SlotsInv, CountersExact, TypeOK
<1> DEFINE Goal == \/ active' # active + 1 /\ interactive_streak' = interactive_streak
                   \/ active' = active + 1 /\ interactive_streak' = interactive_streak + 1
<1>1. ASSUME NEW ow \in Int, NEW iw, NEW interactive \in BOOLEAN, GrantSlot(interactive),
             CanAcquire(iw, ow, interactive), ordinary_waiters' = ow - One(~interactive)
      PROVE  Goal
  <2>1. CASE ~interactive
    BY <2>1, <1>1 DEF GrantSlot, StreakAfter, OrdinaryGrant
  <2>2. CASE interactive
    <3>1. ow # 0
      BY <2>2, <1>1 DEF One
    <3>2. interactive_streak < MAX_INTERACTIVE_STREAK
      BY <3>1, <2>2, <1>1 DEF CanAcquire
    <3> QED BY <3>2, <2>2, <1>1 DEF GrantSlot, StreakAfter
  <2> QED BY <2>1, <2>2
<1>2. ASSUME NEW w, NEW ow \in Int, NEW iw, NEW interactive \in BOOLEAN,
             NEW notify \in BOOLEAN, GrantOrWait(w, interactive, iw, ow, notify)
      PROVE  Goal
  <2>1. CASE UNCHANGED <<active, interactive_streak>>
    BY <2>1, <1>0
  <2>2. CASE /\ CanAcquire(iw, ow, interactive) /\ GrantSlot(interactive)
             /\ ordinary_waiters' = ow - One(~interactive)
    BY <2>2, <1>1, Zenon
  <2> QED BY <2>1, <2>2, <1>2, Zenon DEF GrantOrWait
<1>3. \A b : One(b) \in Int
  BY DEF One
<1>4. ASSUME NEW w, NEW interactive \in BOOLEAN, AcquireCapacity(w, interactive)
      PROVE  Goal
  <2>1. ordinary_waiters + One(~interactive) \in Int
    BY <1>0, <1>3
  <2> QED BY <1>4, <2>1, <1>2, Zenon DEF AcquireCapacity
<1>5. ASSUME NEW w \in Workers, NEW p \in Priorities, Acquire(w, p) PROVE Goal
  BY <1>5, <1>4, Zenon DEF Acquire
<1>6. ASSUME NEW w \in Workers, NEW p \in Priorities, TryAcquire(w, p) PROVE Goal
  <2>1. CASE p # Interactive
    BY <2>1, <1>6 DEF TryAcquire, GrantSlot, StreakAfter, OrdinaryGrant
  <2>2. CASE p = Interactive
    BY <2>2, <1>6, <1>0 DEF TryAcquire, GrantSlot, StreakAfter, CanAcquire
  <2> QED BY <2>1, <2>2
<1>7. ASSUME NEW w \in Workers, Wake(w) PROVE Goal
  <2>1. ordinary_waiters - One(~registered[w]) + One(~IsInteractive(w)) \in Int
    BY <1>0, <1>3
  <2>2. IsInteractive(w) \in BOOLEAN /\ ordinary_waiters \in Int
    BY <1>0 DEF IsInteractive
  <2> QED BY <1>7, <1>2, <2>1, <2>2, Zenon DEF Wake
<1>8. ASSUME NEW w \in Workers, Resume(w) PROVE Goal
  BY <1>8, <1>4, Zenon DEF Resume, IsInteractive
<1>9. ASSUME NEW w \in Workers, Release(w) \/ Suspend(w) PROVE Goal
  BY <1>9, <1>0 DEF Release, Suspend, GiveBack
<1>10. ASSUME UNCHANGED counters PROVE Goal
  BY <1>10, <1>0 DEF counters
<1>11. ASSUME NEW w \in Workers, SpuriousWake(w) \/ DropSuspended(w) PROVE UNCHANGED counters
  BY <1>11, Zenon DEF SpuriousWake, DropSuspended
<1>12. ASSUME NEW m \in Promoters,
              (\E w \in Workers, p \in Priorities : Promote(m, w, p)) \/ PriorityChanged(m)
       PROVE  UNCHANGED counters
  BY <1>12, Zenon DEF Promote, PriorityChanged
<1>13. CASE UNCHANGED vars
  BY <1>13, <1>10 DEF vars
<1>14. CASE Next
  BY <1>14, <1>5, <1>6, <1>7, <1>8, <1>9, <1>10, <1>11, <1>12, Zenon DEF Next
<1> QED BY <1>13, <1>14

(* For any number of workers, slots and promoters: no more than            *)
(* MAX_INTERACTIVE_STREAK interactive demands are granted a slot over the  *)
(* head of queued ordinary work before an ordinary demand is.              *)
THEOREM BypassAlwaysBounded == MCSpec => []BoundedBypass
<1>1. MCInit => BypassInv
  BY InitSlots DEF MCInit, BypassInv, Init
<1>2. BypassInv /\ [MCNext]_<<vars, bypassed>> => BypassInv'
  <2> SUFFICES ASSUME BypassInv, [MCNext]_<<vars, bypassed>> PROVE BypassInv'
    OBVIOUS
  <2>0. /\ interactive_streak \in 0..MAX_INTERACTIVE_STREAK /\ bypassed \in Nat
        /\ bypassed <= interactive_streak /\ MAX_INTERACTIVE_STREAK \in Nat
    BY SlotsAssumption DEF BypassInv, SlotsInv, CountersExact, TypeOK
  <2>1. SlotsInv /\ [Next]_vars
    BY DEF BypassInv, MCNext
  <2>2. SlotsInv'
    BY <2>1, SlotsStep
  <2>3. interactive_streak' \in 0..MAX_INTERACTIVE_STREAK
    BY <2>2 DEF SlotsInv, CountersExact, TypeOK
  <2>4. CASE UNCHANGED <<vars, bypassed>>
    BY <2>4, <2>2, <2>0 DEF BypassInv, vars, counters
  <2>5. CASE MCNext /\ (OrdinaryGrant \/ ordinary_waiters' = 0)
    BY <2>5, <2>2, <2>3, <2>0 DEF BypassInv, MCNext
  <2>6. CASE MCNext /\ ~OrdinaryGrant /\ ordinary_waiters' # 0
    <3>1. \/ active' # active + 1 /\ interactive_streak' = interactive_streak
          \/ active' = active + 1 /\ interactive_streak' = interactive_streak + 1
      BY <2>6, <2>1, GrantsAreCounted
    <3>2. bypassed' = IF active' = active + 1 /\ bypassed <= MAX_INTERACTIVE_STREAK
                        THEN bypassed + 1 ELSE bypassed
      BY <2>6 DEF MCNext
    <3> QED BY <3>1, <3>2, <2>0, <2>2 DEF BypassInv
  <2> QED BY <2>4, <2>5, <2>6
<1>3. BypassInv => BoundedBypass
  BY SlotsAssumption DEF BypassInv, BoundedBypass, SlotsInv, CountersExact, TypeOK
<1> QED BY <1>1, <1>2, <1>3, PTL DEF MCSpec
=============================================================================

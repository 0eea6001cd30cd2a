--------------------------- MODULE ExecutionSlots ---------------------------
(***************************************************************************)
(* The execution slots of the query scheduler                              *)
(* (crates/bray-compilation/src/fact/scheduler/execution.rs): at most      *)
(* `limit' workers evaluate at once, interactive demand is preferred, and  *)
(* after MAX_INTERACTIVE_STREAK interactive grants in a row a waiting      *)
(* ordinary worker goes first.  One action is one critical section of the  *)
(* mutex `state'.  `available' is a condition variable: a worker in        *)
(* "Waiting" sleeps until a notify_all (or a spurious wake-up) makes it    *)
(* "Notified"; it then re-evaluates its predicate.                         *)
(***************************************************************************)
EXTENDS Naturals, FiniteSets

CONSTANTS Workers,                \* threads that ask for a slot
          Promoters,              \* threads that promote somebody's demand
          limit,                  \* ExecutionSlots::limit, the worker budget
          MAX_INTERACTIVE_STREAK  \* 8 in the code

ASSUME SlotsAssumption == /\ IsFiniteSet(Workers)
                          /\ limit \in Nat \ {0}
                          /\ MAX_INTERACTIVE_STREAK \in Nat \ {0}

\* QueryPriority by rank: promotion takes the minimum.
Interactive == 0
Normal == 1
Background == 2
Priorities == {Interactive, Normal, Background}

VARIABLES
  active,               \* SlotState.active
  interactive_waiters,  \* SlotState.interactive_waiters
  ordinary_waiters,     \* SlotState.ordinary_waiters
  interactive_streak,   \* SlotState.interactive_streak
  worker,               \* where each worker is in acquire/suspend/resume/drop
  registered,           \* the class a waiting worker is counted under
  priority,             \* the QueryPriorityDemand of each worker's lease
  promoting             \* promoters between `promote' and `priority_changed'

counters == <<active, interactive_waiters, ordinary_waiters, interactive_streak>>
vars == <<counters, worker, registered, priority, promoting>>

WorkerStates == {"Idle", "Waiting", "Notified", "Held", "Suspended"}
Blocked == {w \in Workers : worker[w] \in {"Waiting", "Notified"}}
Holders == {w \in Workers : worker[w] = "Held"}

IsInteractive(w) == priority[w] = Interactive

\* Mutant: an interactive demand goes first however long the streak.
CanAcquireAnyStreak(iw, ow, interactive) ==
  active < limit /\ (interactive \/ iw = 0)

(***************************************************************************)
(* can_acquire: the admission predicate.                                   *)
(***************************************************************************)
CanAcquire(iw, ow, interactive) ==
  /\ active < limit
  /\ IF interactive
       THEN interactive_streak < MAX_INTERACTIVE_STREAK \/ ow = 0
       ELSE iw = 0 \/ interactive_streak >= MAX_INTERACTIVE_STREAK

\* The streak is only ever compared with MAX_INTERACTIVE_STREAK, so the values
\* from there up are one: the model's counter saturates.
StreakAfter(interactive) ==
  IF ~interactive THEN 0
  ELSE IF interactive_streak < MAX_INTERACTIVE_STREAK
         THEN interactive_streak + 1
         ELSE interactive_streak

\* grant_slot
GrantSlot(interactive) ==
  /\ interactive_streak' = StreakAfter(interactive)
  /\ active' = active + 1

Init ==
  /\ active = 0
  /\ interactive_waiters = 0
  /\ ordinary_waiters = 0
  /\ interactive_streak = 0
  /\ worker = [w \in Workers |-> "Idle"]
  /\ registered = [w \in Workers |-> FALSE]
  /\ priority = [w \in Workers |-> Normal]
  /\ promoting = {}

\* notify_all on `available': what becomes of a worker in state s.
Notify(s) == IF s = "Waiting" THEN "Notified" ELSE s

One(b) == IF b THEN 1 ELSE 0

(***************************************************************************)
(* The body of acquire_capacity's loop for a worker counted among iw       *)
(* interactive and ow ordinary waiters: leave the queue with a slot, or    *)
(* release the mutex and wait.  The others are notified when the worker    *)
(* registered itself or changed class in this critical section.            *)
(***************************************************************************)
GrantOrWait(w, interactive, iw, ow, notify) ==
  LET others(s) == [v \in Workers |-> IF v = w THEN s
                                      ELSE IF notify THEN Notify(worker[v])
                                      ELSE worker[v]]
  IN \/ /\ CanAcquire(iw, ow, interactive)
        /\ GrantSlot(interactive)
        /\ interactive_waiters' = iw - One(interactive)
        /\ ordinary_waiters' = ow - One(~interactive)
        /\ worker' = others("Held")
        /\ UNCHANGED registered
     \/ /\ ~CanAcquire(iw, ow, interactive)
        /\ interactive_waiters' = iw
        /\ ordinary_waiters' = ow
        /\ registered' = [registered EXCEPT ![w] = interactive]
        /\ worker' = others("Waiting")
        /\ UNCHANGED <<active, interactive_streak>>

\* acquire_capacity from its start: register_waiter, notify_all, first pass.
AcquireCapacity(w, interactive) ==
  GrantOrWait(w, interactive, interactive_waiters + One(interactive),
              ordinary_waiters + One(~interactive), TRUE)

\* ExecutionSlots::acquire for a request with a demand of priority p.
Acquire(w, p) ==
  /\ worker[w] = "Idle"
  /\ priority' = [priority EXCEPT ![w] = p]
  /\ AcquireCapacity(w, p = Interactive)
  /\ UNCHANGED promoting

\* ExecutionSlots::try_acquire for a nested lane: no registration, no wait.
TryAcquire(w, p) ==
  /\ worker[w] = "Idle"
  /\ CanAcquire(interactive_waiters, ordinary_waiters, p = Interactive)
  /\ GrantSlot(p = Interactive)
  /\ priority' = [priority EXCEPT ![w] = p]
  /\ worker' = [worker EXCEPT ![w] = "Held"]
  /\ UNCHANGED <<interactive_waiters, ordinary_waiters, registered, promoting>>

\* Mutants: the counters keep the old class; the class is never read again.
WakeUncounted(w) ==
  /\ worker[w] = "Notified"
  /\ GrantOrWait(w, IsInteractive(w), interactive_waiters, ordinary_waiters, FALSE)
  /\ UNCHANGED <<priority, promoting>>
WakeKeepsClass(w) ==
  /\ worker[w] = "Notified"
  /\ GrantOrWait(w, registered[w], interactive_waiters, ordinary_waiters, FALSE)
  /\ UNCHANGED <<priority, promoting>>

(***************************************************************************)
(* A notified worker owns the mutex again: it moves to the class of its    *)
(* promoted demand if that changed, then tries once more.                  *)
(***************************************************************************)
Wake(w) ==
  LET c == IsInteractive(w)
      moved == c # registered[w]
  IN /\ worker[w] = "Notified"
     /\ IF moved
          THEN GrantOrWait(w, c,
                 interactive_waiters - One(registered[w]) + One(c),
                 ordinary_waiters - One(~registered[w]) + One(~c), TRUE)
          ELSE GrantOrWait(w, c, interactive_waiters, ordinary_waiters, FALSE)
     /\ UNCHANGED <<priority, promoting>>

\* A condition variable may wake a waiter without a notification.
SpuriousWake(w) ==
  /\ worker[w] = "Waiting"
  /\ worker' = [worker EXCEPT ![w] = "Notified"]
  /\ UNCHANGED <<counters, registered, priority, promoting>>

\* Mutant: nobody is notified.
GiveBackSilently(w, s) ==
  /\ worker[w] = "Held"
  /\ active' = active - 1
  /\ worker' = [worker EXCEPT ![w] = s]
  /\ UNCHANGED <<interactive_waiters, ordinary_waiters, interactive_streak,
                 registered, priority, promoting>>

\* Give the slot back and notify; w goes to s.
GiveBack(w, s) ==
  /\ worker[w] = "Held"
  /\ active' = active - 1
  /\ worker' = [v \in Workers |-> IF v = w THEN s ELSE Notify(worker[v])]
  /\ UNCHANGED <<interactive_waiters, ordinary_waiters, interactive_streak,
                 registered, priority, promoting>>

\* Drop of an ExecutionSlot whose lease is held.
Release(w) == GiveBack(w, "Idle")

\* ExecutionLease::suspend, by the coordinator of nested lanes.
Suspend(w) == GiveBack(w, "Suspended")

\* ExecutionLease::resume, with the demand of the lease.
Resume(w) ==
  /\ worker[w] = "Suspended"
  /\ AcquireCapacity(w, IsInteractive(w))
  /\ UNCHANGED <<priority, promoting>>

\* Mutant: the capacity of a suspended lease is returned once more.
DropSuspendedTwice(w) ==
  /\ worker[w] = "Suspended"
  /\ active' = active - 1
  /\ worker' = [worker EXCEPT ![w] = "Idle"]
  /\ UNCHANGED <<interactive_waiters, ordinary_waiters, interactive_streak,
                 registered, priority, promoting>>

\* Drop of an ExecutionSlot whose lease is suspended (a lane unwound): held is
\* false, so no capacity is returned.
DropSuspended(w) ==
  /\ worker[w] = "Suspended"
  /\ worker' = [worker EXCEPT ![w] = "Idle"]
  /\ UNCHANGED <<counters, registered, priority, promoting>>

\* FactScheduler::promote, first half: fetch_min on the shared demand.
Promote(m, w, p) ==
  /\ m \notin promoting
  /\ worker[w] # "Idle"
  /\ priority' = [priority EXCEPT ![w] = IF p < @ THEN p ELSE @]
  /\ promoting' = promoting \cup {m}
  /\ UNCHANGED <<counters, worker, registered>>

\* FactScheduler::promote, second half: notify_all under the mutex.
PriorityChanged(m) ==
  /\ m \in promoting
  /\ promoting' = promoting \ {m}
  /\ worker' = [v \in Workers |-> Notify(worker[v])]
  /\ UNCHANGED <<counters, registered, priority>>

Next ==
  \/ \E w \in Workers :
       \/ \E p \in Priorities : Acquire(w, p) \/ TryAcquire(w, p)
       \/ Wake(w) \/ SpuriousWake(w)
       \/ Release(w) \/ Suspend(w) \/ Resume(w) \/ DropSuspended(w)
  \/ \E m \in Promoters :
       \/ \E w \in Workers, p \in Priorities : Promote(m, w, p)
       \/ PriorityChanged(m)

(***************************************************************************)
(* Fairness.  A notified thread gets the mutex eventually (Wake), a        *)
(* promotion that was started is finished, and evaluations end: a held     *)
(* slot is given back and a suspended lease resumed or dropped.  Nothing   *)
(* is assumed of new requests, and nothing of which waiter runs first.     *)
(***************************************************************************)
Fairness ==
  /\ \A w \in Workers : /\ WF_vars(Wake(w))
                        /\ SF_vars(Release(w))
                        /\ WF_vars(Resume(w) \/ DropSuspended(w))
  /\ \A m \in Promoters : WF_vars(PriorityChanged(m))

Spec == Init /\ [][Next]_vars
FairSpec == Spec /\ Fairness

-----------------------------------------------------------------------------
(***************************************************************************)
(* Properties                                                              *)
(***************************************************************************)

TypeOK ==
  /\ active \in Nat
  /\ interactive_waiters \in Nat
  /\ ordinary_waiters \in Nat
  /\ interactive_streak \in 0..MAX_INTERACTIVE_STREAK
  /\ worker \in [Workers -> WorkerStates]
  /\ registered \in [Workers -> BOOLEAN]
  /\ priority \in [Workers -> Priorities]
  /\ promoting \in SUBSET Promoters

Registered(c) == {w \in Blocked : registered[w] = c}

\* The counters are exact: `active' is the number of leases held and never
\* exceeds the worker budget, and each waiter is counted once, under the class
\* it registered with, across promotions, suspensions and drops.  The panics of
\* unregister_waiter, suspend and drop (a counter below one) are unreachable.
CountersExact ==
  /\ TypeOK
  /\ active = Cardinality(Holders)
  /\ active <= limit
  /\ interactive_waiters = Cardinality(Registered(TRUE))
  /\ ordinary_waiters = Cardinality(Registered(FALSE))

\* No lost wake-up: when no slot is in use and somebody is queued, a queued
\* worker has been notified and will re-evaluate its predicate.  With every slot
\* free there is no later release to wake the queue.
NoLostWakeup ==
  (active = 0 /\ Blocked # {}) => \E w \in Blocked : worker[w] = "Notified"

\* An ordinary demand is granted a slot.
OrdinaryGrant == active' = active + 1 /\ interactive_streak' = 0

\* Preference without starvation: while ordinary work stays queued, ordinary
\* demands keep being granted slots, however much interactive demand arrives
\* and whoever of the notified workers gets the mutex first.
OrdinaryNotStarved ==
  <>[](ordinary_waiters > 0) => []<><<OrdinaryGrant>>_vars

\* Promotion reaches the queue: a queued worker whose demand was promoted to
\* interactive is eventually counted as interactive, or has its slot, even when
\* the promotion falls between its predicate check and its wait.
PromotionReachesQueue ==
  \A w \in Workers :
    (w \in Registered(FALSE) /\ IsInteractive(w)) ~> w \notin Registered(FALSE)
=============================================================================

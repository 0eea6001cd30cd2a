---------------------------- MODULE RunScheduler ----------------------------
(***************************************************************************)
(* The threads that drive a scheduler domain: crates/bray-runtime/src/     *)
(* scheduler.  The native side keeps a binding per task and the timers     *)
(* under a mutex of its own; a step under that mutex includes the domain   *)
(* operation it calls.  Threads look for ready work, or for a slot to      *)
(* reclaim, and park on one of two signal words of the domain.             *)
(*                                                                         *)
(* A parked thread registered in a group before it looked.  Whatever makes *)
(* work available sets the word of every group that has waiters and, after *)
(* the lock, notifies it; the last waiter to leave resets the word.        *)
(* Threads wait without a deadline of their own, as the root driver does.  *)
(***************************************************************************)
EXTENDS SchedulerDomain

CONSTANTS
  Workers,
  Serves,      \* lanes each worker takes work from
  MaxTimers,   \* SchedulerLimits.timers
  MaxTime,     \* bound on the clock
  MaxStimuli   \* bound on outside wakes, timers and suspensions of cancelled tasks

ASSUME RunAssumption ==
  /\ IsFiniteSet(Workers) /\ Serves \in [Workers -> SUBSET Lanes]
  /\ MaxTimers \in Nat /\ MaxTime \in Nat /\ MaxStimuli \in Nat

VARIABLES
  signals,    \* groups whose word is set
  waiters,    \* registered waiters of each group
  notices,    \* groups whose notify_all is still to come
  bindings,   \* SchedulerState.tasks: the registration bound to a task
  timers,     \* SchedulerState.timers
  now,
  requested,  \* tasks whose cancellation was requested
  calls,      \* calls of other threads under way
  threads,    \* the workers
  stimuli,
  due         \* history: registrations woken since their last dispatch

parking == <<signals, waiters, notices>>
native == <<bindings, timers, requested>>
outside == <<now, stimuli>>
vars == <<domain, parking, native, outside, calls, threads, due>>

Groups == 0..1
NoTime == MaxTime + 1   \* wait without a deadline
Timer == [task : Tasks, registration : Registrations, deadline : 0..MaxTime]
MaybeRegistration == Registrations \union {None}
Call == [op : {"bind", "withdraw", "observe", "wake", "signal"},
         task : Tasks \union {None}, registration : MaybeRegistration]
Thread ==
  [pc : {"off", "start", "promote", "fire", "pop", "deadline", "reclaim", "slot", "wait",
         "asleep", "leave", "run"},
   after : {"start", "reclaim", "run"}, group : 0..2, dispatch : MaybeRegistration,
   until : 0..NoTime, timer : MaybeRegistration]
TypeOK ==
  /\ entries \in Seq(Entry) /\ Len(entries) <= MaxIndex
  /\ running \in 0..limit
  /\ signals \subseteq Groups /\ notices \subseteq Groups
  /\ waiters \in [Groups -> 0..Cardinality(Workers)]
  /\ bindings \in [Tasks -> MaybeRegistration]
  /\ timers \subseteq Timer /\ Cardinality(timers) <= MaxTimers
  /\ now \in 0..MaxTime /\ stimuli \in 0..MaxStimuli
  /\ requested \subseteq Tasks
  /\ calls \subseteq Call
  /\ threads \in [Workers -> Thread]
  /\ due \subseteq Registrations

\* A worker is off until the run starts it.
NewThread(pc) == [pc |-> pc, after |-> "start", group |-> 2, dispatch |-> None,
                  until |-> NoTime, timer |-> None]
Init ==
  /\ DomainInit
  /\ signals = {} /\ notices = {} /\ waiters = [g \in Groups |-> 0]
  /\ bindings = [t \in Tasks |-> None] /\ timers = {} /\ requested = {}
  /\ now = 0 /\ stimuli = 0
  /\ calls = {}
  /\ threads \in [Workers -> {NewThread("off"), NewThread("start")}]
  /\ due = {}

-----------------------------------------------------------------------------
(* Domain operations with the signals they prepare.                         *)

\* Mutant: only the first group is signalled.
PrepareSignalFirst ==
  LET woken == {g \in {0} : waiters[g] # 0} \ signals
  IN /\ signals' = signals \union woken
     /\ notices' = notices \union woken
     /\ UNCHANGED waiters
PrepareSignal ==
  LET woken == {g \in Groups : waiters[g] # 0} \ signals
  IN /\ signals' = signals \union woken
     /\ notices' = notices \union woken
     /\ UNCHANGED waiters

WakeAndSignal(r) ==
  /\ Wake(r)
  /\ IF WakeEnqueues(r) THEN PrepareSignal ELSE UNCHANGED parking
  /\ due' = IF Live(r) THEN due \union {r} ELSE due

WithdrawAndSignal(r) ==
  /\ Withdrawal(r)
  /\ IF Live(r) THEN PrepareSignal ELSE UNCHANGED parking
  /\ due' = due \ {r}

NotifyAll(g) ==
  /\ g \in notices
  /\ notices' = notices \ {g}
  /\ threads' = [w \in Workers |->
       IF threads[w].pc = "asleep" /\ threads[w].group = g
       THEN [threads[w] EXCEPT !.pc = "leave"] ELSE threads[w]]
  /\ UNCHANGED <<domain, signals, waiters, native, outside, calls, due>>

-----------------------------------------------------------------------------
(* A thread waits for ready work or for its lent slot.                      *)

Become(w, changes) ==
  threads' = [threads EXCEPT ![w] =
     [f \in DOMAIN threads[w] |-> IF f \in DOMAIN changes THEN changes[f] ELSE threads[w][f]]]

\* parking_registration, before the first look.
RegisterParking(w) ==
  LET free == Groups \ signals
      g == IF free = {} THEN 2 ELSE IF 0 \in free THEN 0 ELSE 1
  IN /\ threads[w].pc \in {"start", "reclaim"}
     /\ waiters' = [h \in Groups |-> IF h = g THEN waiters[h] + 1 ELSE waiters[h]]
     /\ Become(w, [group |-> g, after |-> threads[w].pc,
                   pc |-> IF threads[w].pc = "start" THEN "promote" ELSE "slot"])
     /\ UNCHANGED <<domain, signals, notices, native, outside, calls, due>>

\* Mutant: every waiter that leaves resets the word.
LeaveParkingResets(w) ==
  LET g == threads[w].group
  IN /\ threads[w].pc = "leave"
     /\ IF g = 2 THEN UNCHANGED <<signals, waiters>>
        ELSE waiters' = [waiters EXCEPT ![g] = @ - 1] /\ signals' = signals \ {g}
     /\ Become(w, [pc |-> threads[w].after, group |-> 2, until |-> NoTime])
     /\ UNCHANGED <<domain, notices, native, outside, calls, due>>
\* Mutant: nobody resets the word.
LeaveParkingKeeps(w) ==
  LET g == threads[w].group
  IN /\ threads[w].pc = "leave"
     /\ waiters' = [h \in Groups |-> IF h = g THEN waiters[h] - 1 ELSE waiters[h]]
     /\ Become(w, [pc |-> threads[w].after, group |-> 2, until |-> NoTime])
     /\ UNCHANGED <<domain, signals, notices, native, outside, calls, due>>
\* parking_withdrawal: the last to leave a group resets its word.
LeaveParking(w) ==
  LET g == threads[w].group
  IN /\ threads[w].pc = "leave"
     /\ IF g = 2 THEN UNCHANGED <<signals, waiters>>
        ELSE /\ waiters' = [waiters EXCEPT ![g] = @ - 1]
             /\ signals' = IF waiters[g] = 1 THEN signals \ {g} ELSE signals
     /\ Become(w, [pc |-> threads[w].after, group |-> 2, until |-> NoTime])
     /\ UNCHANGED <<domain, notices, native, outside, calls, due>>

\* promote_elapsed_timers pops one timer under the mutex ...
Elapsed == {t \in timers : t.deadline <= now}
First == {t \in Elapsed : \A u \in Elapsed : t.deadline <= u.deadline}
Promote(w) ==
  /\ threads[w].pc = "promote"
  /\ IF Elapsed = {} THEN Become(w, [pc |-> "pop"]) /\ UNCHANGED timers
     ELSE \E t \in First :
            /\ timers' = timers \ {t}
            /\ Become(w, [pc |-> "fire", timer |-> t.registration])
  /\ UNCHANGED <<domain, parking, bindings, requested, outside, calls, due>>

\* ... and wakes its registration after the unlock.
Fire(w) ==
  /\ threads[w].pc = "fire"
  /\ WakeAndSignal(threads[w].timer)
  /\ Become(w, [pc |-> "promote", timer |-> None])
  /\ UNCHANGED <<native, outside, calls>>

PopReady(w) ==
  LET selected == Selected(Serves[w])
  IN /\ threads[w].pc = "pop"
     /\ Acquisition(Serves[w])
     /\ IF selected = None THEN Become(w, [pc |-> "deadline"])
        ELSE Become(w, [pc |-> "leave", after |-> "run", dispatch |-> selected])
     /\ due' = due \ {selected}
     /\ UNCHANGED <<parking, native, outside, calls>>

\* next_deadline.
ReadDeadline(w) ==
  /\ threads[w].pc = "deadline"
  /\ \E d \in {t.deadline : t \in timers} \union {NoTime} :
       /\ \A t \in timers : d <= t.deadline
       /\ Become(w, [pc |-> "wait", until |-> d])
  /\ UNCHANGED <<domain, parking, native, outside, calls, due>>

\* slot_acquisition for a lent slot.
ReclaimSlot(w) ==
  LET r == threads[w].dispatch
  IN /\ threads[w].pc = "slot"
     /\ SlotAcquisition(r)
     /\ IF SlotStatus(r) = 0 THEN Become(w, [pc |-> "wait", until |-> NoTime])
        ELSE Become(w, [pc |-> "leave", after |-> "run"])
     /\ UNCHANGED <<parking, native, outside, calls, due>>

\* platform_wait_word_for sleeps only while the word is still 0.
Park(w) ==
  /\ threads[w].pc = "wait"
  /\ Become(w, [pc |-> IF threads[w].group = 2 \/ threads[w].group \in signals
                       THEN "leave" ELSE "asleep"])
  /\ UNCHANGED <<domain, parking, native, outside, calls, due>>

Timeout(w) ==
  /\ threads[w].pc = "asleep" /\ threads[w].until <= now
  /\ Become(w, [pc |-> "leave"])
  /\ UNCHANGED <<domain, parking, native, outside, calls, due>>
\* The platform wait may also return for no reason.
Spurious(w) ==
  /\ threads[w].pc = "asleep"
  /\ Become(w, [pc |-> "leave"])
  /\ UNCHANGED <<domain, parking, native, outside, calls, due>>

-----------------------------------------------------------------------------
(* A thread runs its dispatch.                                              *)

Stimulus == stimuli < MaxStimuli /\ stimuli' = stimuli + 1
Bound(r) == {t \in Tasks : bindings[t] = r}

\* Mutant: the cancellation is not looked at again.
RecheckNever(t) == FALSE
\* recheck_dispatch of the task's cancellation context.
Recheck(t) == t \in requested

\* ReadyTask.suspend, and its drop; without its binding the dispatch is void.
Suspend(w, lane) ==
  LET r == threads[w].dispatch
  IN /\ threads[w].pc = "run"
     /\ IF Bound(r) = {} THEN UNCHANGED <<domain, parking, stimuli>>
        ELSE /\ \E t \in Bound(r) :
                  /\ Release(r, lane, Recheck(t))
                  /\ IF t \in requested THEN Stimulus ELSE UNCHANGED stimuli
             /\ PrepareSignal
     /\ Become(w, [pc |-> "start", after |-> "start", dispatch |-> None])
     /\ UNCHANGED <<native, now, calls, due>>

\* park_execution around a blocking call: ReclaimSlot follows.
Lend(w) ==
  LET r == threads[w].dispatch
  IN /\ threads[w].pc = "run" /\ Lends(r) /\ Stimulus
     /\ SlotRelease(r) /\ PrepareSignal
     /\ Become(w, [pc |-> "reclaim", after |-> "reclaim"])
     /\ UNCHANGED <<native, now, calls, due>>

\* unregister_task of a bound task: one step under the mutex.
Unregister(t) ==
  /\ bindings[t] # None
  /\ \A c \in calls : c.op = "observe" => c.registration # bindings[t]
  /\ bindings' = [bindings EXCEPT ![t] = None]
  /\ timers' = {u \in timers : u.task # t}
  /\ WithdrawAndSignal(bindings[t])
  /\ UNCHANGED <<requested, outside, calls, threads>>

\* The task completes in its dispatch, whose release then finds no binding.
Complete(w) ==
  /\ threads[w].pc = "run"
  /\ \E t \in Bound(threads[w].dispatch) : Unregister(t)

-----------------------------------------------------------------------------
(* Calls of other threads.                                                  *)

Called(op, t, r) == [op |-> op, task |-> t, registration |-> r]

\* register admits the task, then binds it.
Register(t, lane, r) ==
  /\ Admission(t, lane, r)
  /\ calls' = calls \union {Called("bind", t, r)}
  /\ UNCHANGED <<parking, native, outside, threads, due>>

\* Mutant: a second registration of a task replaces the first.
BindAlways(c) ==
  /\ bindings' = [bindings EXCEPT ![c.task] = c.registration]
  /\ calls' = (calls \ {c}) \union {[c EXCEPT !.op = "observe"]}
\* A task that is registered already has the new admission withdrawn.
Bind(c) ==
  IF bindings[c.task] # None
  THEN calls' = (calls \ {c}) \union {[c EXCEPT !.op = "withdraw"]} /\ UNCHANGED bindings
  ELSE /\ bindings' = [bindings EXCEPT ![c.task] = c.registration]
       /\ calls' = (calls \ {c}) \union {[c EXCEPT !.op = "observe"]}

\* Mutant: a cancellation requested before the wake is registered is not seen.
ObserveOnly(c) == calls' = calls \ {c}
\* register_wake of the cancellation context calls the wake if it is requested.
Observe(c) ==
  calls' = IF c.task \in requested THEN (calls \ {c}) \union {[c EXCEPT !.op = "wake"]}
           ELSE calls \ {c}

Return(c) ==
  /\ c \in calls
  /\ \/ c.op = "bind" /\ Bind(c) /\ UNCHANGED <<domain, parking, due>>
     \/ c.op = "observe" /\ Observe(c) /\ UNCHANGED <<domain, parking, bindings, due>>
     \/ /\ calls' = calls \ {c}
        /\ \/ c.op = "withdraw" /\ WithdrawAndSignal(c.registration)
           \/ c.op = "wake" /\ WakeAndSignal(c.registration)
           \/ c.op = "signal" /\ PrepareSignal /\ UNCHANGED <<domain, due>>
        /\ UNCHANGED bindings
  /\ UNCHANGED <<timers, requested, outside, threads>>

\* A wake handle comes from a bound registration, which it may outlive.
ExplicitWake(r) ==
  /\ r.index \in DOMAIN entries /\ r.generation <= Row(r).generation
  /\ \A c \in calls : c.op \in {"bind", "withdraw"} => c.registration # r
  /\ Stimulus
  /\ WakeAndSignal(r)
  /\ UNCHANGED <<native, now, calls, threads>>

\* The waiters are woken after the unlock, to wait for the new deadline.
RegisterTimer(t, d) ==
  /\ bindings[t] # None /\ Cardinality(timers) < MaxTimers /\ Stimulus
  /\ timers' = timers \union
       {[task |-> t, registration |-> bindings[t], deadline |-> d]}
  /\ calls' = calls \union {Called("signal", None, None)}
  /\ UNCHANGED <<domain, parking, bindings, requested, now, threads, due>>

DropTimer(u) ==
  /\ timers' = timers \ {u}
  /\ UNCHANGED <<domain, parking, bindings, requested, outside, calls, threads, due>>

\* request of the context and its notification of the registered wake.
RequestCancellation(t) ==
  LET r == bindings[t]
      registered == r # None /\ Called("observe", t, r) \notin calls
  IN /\ t \notin requested
     /\ requested' = requested \union {t}
     /\ calls' = IF registered THEN calls \union {Called("wake", t, r)} ELSE calls
     /\ UNCHANGED <<domain, parking, bindings, timers, outside, threads, due>>

Tick ==
  /\ now < MaxTime /\ now' = now + 1
  /\ UNCHANGED <<domain, parking, native, stimuli, calls, threads, due>>

-----------------------------------------------------------------------------
WorkerStep(w) ==
  \/ RegisterParking(w) \/ LeaveParking(w) \/ Promote(w) \/ Fire(w) \/ PopReady(w)
  \/ ReadDeadline(w) \/ ReclaimSlot(w) \/ Park(w) \/ Timeout(w)
  \/ (\E lane \in Lanes : Suspend(w, lane)) \/ Lend(w) \/ Complete(w)

Next ==
  \/ \E w \in Workers : WorkerStep(w) \/ Spurious(w)
  \/ \E g \in Groups : NotifyAll(g)
  \/ \E c \in calls : Return(c)
  \/ \E t \in Tasks :
       \/ \E lane \in Lanes, r \in Registrations : Register(t, lane, r)
       \/ Unregister(t) \/ RequestCancellation(t)
       \/ \E d \in 0..MaxTime : RegisterTimer(t, d)
  \/ \E r \in Registrations : ExplicitWake(r)
  \/ \E u \in timers : DropTimer(u)
  \/ Tick

Spec == Init /\ [][Next]_vars
Fairness ==
  /\ \A w \in Workers : WF_vars(WorkerStep(w))
  /\ WF_vars(\E g \in Groups : NotifyAll(g))
  /\ WF_vars(\E c \in calls : Return(c))
  /\ WF_vars(Tick)
FairSpec == Spec /\ Fairness

-----------------------------------------------------------------------------
(* Properties.                                                              *)

\* No wake-up is lost: a thread that sleeps, or is about to, was registered
\* before it looked.  While its word is clear there is nothing for it to do:
\* no entry it could take, no slot it could reclaim, no deadline before the one
\* it waits for unless the registering thread is still to signal it.  Once its
\* word is set, the notification of a sleeper is under way.
Reclaims(w) == threads[w].after = "reclaim"
NoLostWakeup ==
  \A w \in Workers :
    /\ threads[w].pc \in {"wait", "asleep"} /\ threads[w].group \notin signals \union {2} =>
         IF Reclaims(w) THEN SlotStatus(threads[w].dispatch) = 0
         ELSE /\ Selected(Serves[w]) = None
              /\ \/ \A u \in timers : threads[w].until <= u.deadline
                 \/ Called("signal", None, None) \in calls
    /\ threads[w].pc = "asleep" /\ threads[w].group \in signals =>
         threads[w].group \in notices

\* The waiter counts are exact and a set word has waiters: no broadcast is
\* reset under a registered waiter, none is left to an empty group.
GroupsExact ==
  \A g \in Groups :
    /\ waiters[g] = Cardinality({w \in Workers : threads[w].group = g})
    /\ g \in signals => waiters[g] # 0

\* All counts of the scheduler are exact: the waiters of the two groups, the
\* ready entries of each lane and the slots in use, within their bounds.
CountsExact == TypeOK /\ GroupsExact /\ LanesExact /\ QuotaExact

\* The assertions of pop_ready and release and the aborts of the domain: a
\* ready entry has its binding, with its own registration, unless its native
\* registration is on its way out; a dispatch has one holder.
DispatchBound ==
  /\ ~aborted
  /\ \A i \in DOMAIN entries : LET r == [index |-> i, generation |-> entries[i].generation]
       IN /\ entries[i].phase \in {"queued", "running"} => bindings[entries[i].task] = r
          /\ entries[i].phase = "running" =>
               Cardinality({w \in Workers : threads[w].dispatch = r}) = 1
  /\ \A t \in Tasks : bindings[t] # None => Live(bindings[t]) /\ Row(bindings[t]).task = t

\* Every wake reaches a later dispatch of exactly the registration it was for:
\* until then the entry is ready, or runs and will be ready when it suspends.
WakesKept ==
  \A r \in due : Live(r) /\ (Row(r).phase = "queued" \/ (Row(r).phase = "running" /\ Row(r).pending))

\* Once nothing stimulates it from outside, the scheduler settles: every wake
\* has been dispatched or withdrawn with its registration, every timer has
\* fired, every lent slot came back and its dispatch ended, every registered
\* task whose cancellation was requested has run to its completion.
Settles ==
  <>[](/\ due = {} /\ timers = {} /\ calls = {}
       /\ \A w \in Workers : threads[w].dispatch = None
       /\ \A t \in requested : bindings[t] = None)
=============================================================================

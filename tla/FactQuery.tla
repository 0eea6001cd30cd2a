------------------------------ MODULE FactQuery ------------------------------
(***************************************************************************)
(* Demand-driven evaluation of compiler facts                              *)
(* (crates/bray-compilation/src/fact): the fact cells (cache.rs), the      *)
(* runtime's owners, wait graph and dependency records (runtime.rs), the   *)
(* tasks and thread-local evaluation stacks (task.rs), shared cancellation *)
(* (cancellation.rs) and nested parallel lanes (scheduler/core.rs).        *)
(*                                                                         *)
(* Root threads request one fact each.  A request claims the cell and      *)
(* evaluates it, calling get_or_compute for each fact its computation      *)
(* needs; or it waits for the task that owns the cell, polling.  One       *)
(* action is one critical section: the cell mutex, the runtime mutex or a  *)
(* cancellation check.  The facts' computations are data: Requests[f] is   *)
(* what f asks for, in order.  Slots are ExecutionSlots without classes.   *)
(***************************************************************************)
EXTENDS Naturals, Sequences, FiniteSets

CONSTANTS
  Facts,      \* fact keys (a fact's cycle key is its key)
  Roots,      \* request threads
  Helpers,    \* pool threads that run nested lanes
  RootFact,   \* [Roots -> Facts]: what each root requests
  Requests,   \* [Facts -> Seq(Facts)]: what each computation requests
  Par,        \* facts whose computation requests with map_indexed
  Absorbs,    \* facts whose computation turns a Cycle error into a value
  Requested,  \* facts computed under the shared token (get_or_compute_requested);
              \* the others pass their caller's token on (get_or_compute)
  Cancellable,  \* roots whose caller may cancel
  Limit,      \* worker_count
  PollOutlastsPass,  \* assume that CANCELLATION_POLL_INTERVAL is longer than
              \* another request's pass through the polling loop
  MaxTasks    \* bound on task identities

Threads == Roots \cup Helpers
Tasks == 1..MaxTasks
None == 0

ASSUME FactQueryAssumption ==
  /\ Facts # {}
  /\ IsFiniteSet(Threads)
  /\ Roots \cap Helpers = {}
  /\ Roots \cap Tasks = {}
  /\ RootFact \in [Roots -> Facts]
  /\ Requests \in [Facts -> Seq(Facts)]
  /\ Limit \in Nat \ {0}
  /\ PollOutlastsPass \in BOOLEAN
  /\ MaxTasks \in Nat

VARIABLES
  cell,       \* FactCellState of each fact; "Publishing": its mutex is held
              \* between the runtime commit and the Ready store
  owners,     \* RuntimeState.owners
  waiting,    \* RuntimeState.waiting: the count of each edge, by requester and
              \* owner (the edge's fact is the owner's)
  records,    \* RuntimeState.records: dependencies of each committed fact
  task,       \* FactTaskData of every task and where its evaluation is
  next_task,  \* FactRuntime.next_task
  interests,  \* per task, the <<thread, token>> registered in its
              \* SharedCancellation; a token is a root or a task
  cancelled,  \* roots whose request token is cancelled
  stack,      \* per thread, its pending get_or_compute calls, innermost first
  base,       \* per helper, the lane it runs: the task and captured stack
  slots,      \* threads that hold an execution slot
  result      \* per root, what its request returned

runtime == <<owners, waiting, records>>
vars == <<cell, runtime, task, next_task, interests, cancelled, stack, base,
          slots, result>>

-----------------------------------------------------------------------------
(***************************************************************************)
(* Threads and tasks                                                       *)
(***************************************************************************)

\* Where a request is, with and without a task that it runs or waits for.
TaskPcs == {"run", "wait_for", "register", "wait", "drop"}
FreePcs == {"request", "check", "look", "admit", "claim"}

Phases == {"Free", "Claimed", "Recording", "Joining", "Computed", "Prepare",
           "Publishing", "Published", "Abandoning", "Abandoned", "Done"}

Errors == {"Cycle", "Cancelled"}
Tokens == Roots \cup Tasks
NoLane == [task |-> None, facts |-> {}]

NewFrame(f, tok) == [fact |-> f, pc |-> "request", tok |-> tok, task |-> None]
NewTask(f, tok) == [fact |-> f, phase |-> "Claimed", next |-> 1, deps |-> {},
                    errors |-> {}, tok |-> tok, forked |-> FALSE]

At(th, pc) == stack[th] # <<>> /\ Head(stack[th]).pc = pc
Top(th) == Head(stack[th])

\* The task whose evaluation the innermost request of th belongs to
\* (current_task_context), None for a request from outside.
Context(th) == IF Len(stack[th]) > 1 THEN stack[th][2].task ELSE base[th].task

\* The facts under evaluation on th's LOCAL_EVALUATIONS.
Evaluating(th) ==
  {stack[th][i].fact : i \in 2..Len(stack[th])} \cup base[th].facts

\* A frame that entered through FactScheduler::execute gives its slot back.
SlotsAfter(th) == IF th \in Roots /\ Len(stack[th]) = 1 THEN slots \ {th} ELSE slots

\* th goes on to pc; in the second form, with this task as the one it runs or
\* waits for.
Goto(th, pc) ==
  stack' = [stack EXCEPT ![th] = <<[Top(th) EXCEPT !.pc = pc]>> \o Tail(@)]
GotoWith(th, pc, t) ==
  stack' = [stack EXCEPT ![th] = <<[Top(th) EXCEPT !.pc = pc, !.task = t]>> \o Tail(@)]

\* Mutant: a completed request is not recorded.
SettleUnrecorded(tk, c, f, outcome) ==
  IF c = None \/ outcome = "Ok" \/ (outcome = "Cycle" /\ tk[c].fact \in Absorbs) THEN tk
  ELSE [tk EXCEPT ![c].errors = @ \cup {outcome}]

\* The task, in the tasks tk, hears the outcome of a request for f: a value is a
\* recorded dependency, a cycle may be absorbed, any other error is kept.
Settle(tk, c, f, outcome) ==
  IF c = None \/ (outcome = "Cycle" /\ tk[c].fact \in Absorbs) THEN tk
  ELSE IF outcome = "Ok" THEN [tk EXCEPT ![c].deps = @ \cup {f}]
  ELSE [tk EXCEPT ![c].errors = @ \cup {outcome}]

\* The innermost request of th returns, the tasks being tk.
Return(th, outcome, tk) ==
  /\ stack' = [stack EXCEPT ![th] = Tail(@)]
  /\ task' = Settle(tk, Context(th), Top(th).fact, outcome)
  /\ result' = IF th \in Roots /\ Len(stack[th]) = 1
                 THEN [result EXCEPT ![th] = outcome] ELSE result

-----------------------------------------------------------------------------
(***************************************************************************)
(* Shared cancellation                                                     *)
(***************************************************************************)

\* Mutant: one cancelled interest cancels the shared work.
IsCancelledByAny(tok) ==
  \/ tok \in cancelled
  \/ \E S \in SUBSET Tasks :
       /\ tok \in S
       /\ \A u \in S : \E i \in interests[u] : i[2] \in S \cup cancelled

\* is_cancelled: a request token is cancelled when it was told so, a shared one
\* when every interest registered in it is (none at all included).
IsCancelled(tok) ==
  \/ tok \in cancelled
  \/ \E S \in SUBSET Tasks :
       /\ tok \in S
       /\ \A u \in S : \A i \in interests[u] : i[2] \in S \cup cancelled

Register(u, th, tok) == interests' = [interests EXCEPT ![u] = @ \cup {<<th, tok>>}]
Unregister(u, th, tok) == interests' = [interests EXCEPT ![u] = @ \ {<<th, tok>>}]

-----------------------------------------------------------------------------
(***************************************************************************)
(* The wait graph                                                          *)
(***************************************************************************)

\* Task t waits for task u, and u still owns the fact t waits for.
Edge(t, u) == waiting[t][u] > 0 /\ owners[task[u].fact] = u

\* Mutants: no search; from the wrong end.
ReachesNothing(owner, requester) == FALSE
ReachesBackwards(owner, requester) ==
  \A S \in SUBSET Tasks :
    (requester \in S /\ \A t \in S, u \in Tasks : Edge(t, u) => u \in S) => owner \in S

\* cross_task_cycle: requester is reached from owner along edges.
Reaches(owner, requester) ==
  \A S \in SUBSET Tasks :
    (owner \in S /\ \A t \in S, u \in Tasks : Edge(t, u) => u \in S)
      => requester \in S

\* Mutant: the edge goes with the first of several waits.
RemoveAllWaits(t, u) ==
  waiting' = IF t = None THEN waiting ELSE [waiting EXCEPT ![t][u] = 0]

\* remove_wait: one wait less on the edge.
RemoveWait(t, u) ==
  waiting' = IF t = None THEN waiting
             ELSE [waiting EXCEPT ![t][u] = IF @ > 0 THEN @ - 1 ELSE 0]

\* remove_evaluation
RemoveEvaluation(t) ==
  /\ owners' = [f \in Facts |-> IF f = task[t].fact /\ owners[f] = t THEN None
                                ELSE owners[f]]
  /\ waiting' = [waiting EXCEPT ![t] = [u \in Tasks |-> 0]]

-----------------------------------------------------------------------------
(***************************************************************************)
(* Init: nothing computed, every root about to request its fact            *)
(***************************************************************************)
Init ==
  /\ cell = [f \in Facts |-> [st |-> "Vacant", task |-> None]]
  /\ owners = [f \in Facts |-> None]
  /\ waiting = [t \in Tasks |-> [u \in Tasks |-> 0]]
  /\ records = [f \in {} |-> {}]
  /\ task = [t \in Tasks |-> [NewTask(CHOOSE f \in Facts : TRUE, t)
                                EXCEPT !.phase = "Free"]]
  /\ next_task = 1
  /\ interests = [t \in Tasks |-> {}]
  /\ cancelled = {}
  /\ stack = [th \in Threads |-> IF th \in Roots
                                   THEN <<NewFrame(RootFact[th], th)>> ELSE <<>>]
  /\ base = [th \in Threads |-> NoLane]
  /\ slots = {}
  /\ result = [r \in Roots |-> "Pending"]

\* CancellationToken::cancel by the owner of a request.
Cancel(r) ==
  /\ r \in Cancellable \ cancelled
  /\ stack[r] # <<>>
  /\ cancelled' = cancelled \cup {r}
  /\ UNCHANGED <<cell, runtime, task, next_task, interests, stack, base, slots,
                 result>>

-----------------------------------------------------------------------------
(***************************************************************************)
(* A request, until it evaluates the fact or waits for its owner           *)
(***************************************************************************)

\* The lock-free fast path, the cycle check on the local stack, and the way
\* into the loop.
Request(th) ==
  LET f == Top(th).fact
      ready == cell[f].st = "Ready"
  IN /\ At(th, "request")
     /\ \/ /\ f \in Evaluating(th)
           /\ Return(th, "Cycle", task)
        \/ /\ f \notin Evaluating(th) /\ ready
           /\ Return(th, IF IsCancelled(Top(th).tok) THEN "Cancelled" ELSE "Ok", task)
        \/ /\ f \notin Evaluating(th) /\ ~ready
           /\ Goto(th, "check")
           /\ UNCHANGED <<task, result>>
     /\ UNCHANGED <<cell, runtime, next_task, interests, cancelled, base, slots>>

\* The head of the loop: cancellation.check().
Check(th) ==
  /\ At(th, "check")
  /\ \/ /\ IsCancelled(Top(th).tok)
        /\ Return(th, "Cancelled", task)
     \/ /\ ~IsCancelled(Top(th).tok)
        /\ Goto(th, "look")
        /\ UNCHANGED <<task, result>>
  /\ UNCHANGED <<cell, runtime, next_task, interests, cancelled, base, slots>>

\* The match on the cell's state, under its mutex.  The same-task cycle of the
\* Computing arm is not here: the local stack already caught it.
Look(th) ==
  LET c == cell[Top(th).fact]
  IN /\ At(th, "look")
     /\ \/ /\ c.st = "Ready"
           /\ Return(th, "Ok", task)
        \/ /\ c.st = "Vacant"
           /\ Goto(th, "admit")
           /\ UNCHANGED <<task, result>>
        \/ /\ c.st = "Computing"
           /\ GotoWith(th, "wait_for", c.task)
           /\ UNCHANGED <<task, result>>
     /\ UNCHANGED <<cell, runtime, next_task, interests, cancelled, base, slots>>

\* run_demand: inline on a thread that holds a slot, otherwise a slot is taken
\* first; then cancellation.check() again.
Admit(th) ==
  /\ At(th, "admit")
  /\ th \in slots \/ Cardinality(slots) < Limit
  /\ \/ /\ IsCancelled(Top(th).tok)
        /\ Return(th, "Cancelled", task)
        /\ UNCHANGED slots
     \/ /\ ~IsCancelled(Top(th).tok)
        /\ slots' = slots \cup {th}
        /\ Goto(th, "claim")
        /\ UNCHANGED <<task, result>>
  /\ UNCHANGED <<cell, runtime, next_task, interests, cancelled, base>>

\* Mutant: the cell is not looked at again after admission.
ClaimUnchecked(th) ==
  LET f == Top(th).fact
      t == next_task
  IN /\ At(th, "claim")
     /\ t \in Tasks
     /\ next_task' = t + 1
     /\ cell' = [cell EXCEPT ![f] = [st |-> "Computing", task |-> t]]
     /\ task' = [task EXCEPT ![t] = NewTask(f, IF f \in Requested THEN t ELSE Top(th).tok)]
     /\ Register(t, th, Top(th).tok)
     /\ GotoWith(th, "run", t)
     /\ UNCHANGED <<runtime, cancelled, base, slots, result>>

\* Claim a cell that is still vacant for a fresh task, with the requester's
\* interest; or give the slot back and start over.
Claim(th) ==
  LET f == Top(th).fact
      tok == Top(th).tok
      t == next_task
  IN /\ At(th, "claim")
     /\ \/ /\ cell[f].st = "Vacant"
           /\ t \in Tasks
           /\ next_task' = t + 1
           /\ cell' = [cell EXCEPT ![f] = [st |-> "Computing", task |-> t]]
           /\ task' = [task EXCEPT ![t] =
                         NewTask(f, IF f \in Requested THEN t ELSE tok)]
           /\ Register(t, th, tok)
           /\ GotoWith(th, "run", t)
           /\ UNCHANGED slots
        \/ /\ cell[f].st \in {"Computing", "Ready"}
           /\ slots' = SlotsAfter(th)
           /\ Goto(th, "check")
           /\ UNCHANGED <<cell, task, next_task, interests>>
     /\ UNCHANGED <<runtime, cancelled, base, result>>

\* wait_for: the observed owner may be gone; an edge that closes a cycle is
\* taken back and reported.
WaitFor(th) ==
  LET u == Top(th).task
      c == Context(th)
      owned == owners[Top(th).fact] = u
      cycle == c # None /\ Reaches(u, c)
  IN /\ At(th, "wait_for")
     /\ \/ /\ ~owned
           /\ GotoWith(th, "check", None)
           /\ UNCHANGED <<waiting, task, result>>
        \/ /\ owned /\ cycle
           /\ Return(th, "Cycle", task)
           /\ UNCHANGED waiting
        \/ /\ owned /\ ~cycle
           /\ waiting' = IF c = None THEN waiting
                         ELSE [waiting EXCEPT ![c][u] = @ + 1]
           /\ Goto(th, "register")
           /\ UNCHANGED <<task, result>>
     /\ UNCHANGED <<cell, owners, records, next_task, interests, cancelled, base,
                    slots>>

RegisterInterest(th) ==
  /\ At(th, "register")
  /\ Register(Top(th).task, th, Top(th).tok)
  /\ Goto(th, "wait")
  /\ UNCHANGED <<cell, runtime, task, next_task, cancelled, base, slots, result>>

\* th is on its way through the loop towards a wait.
InPass(th) ==
  \E pc \in {"drop", "check", "look", "wait_for", "register"} : At(th, pc)

\* wait_timeout ends, because the cell changed or after
\* CANCELLATION_POLL_INTERVAL, and the wait edge is dropped.
Unwait(th) ==
  /\ At(th, "wait")
  /\ \/ ~PollOutlastsPass
     \/ cell[Top(th).fact] # [st |-> "Computing", task |-> Top(th).task]
     \/ ~\E other \in Threads : InPass(other)
  /\ RemoveWait(Context(th), Top(th).task)
  /\ Goto(th, "drop")
  /\ UNCHANGED <<cell, owners, records, task, next_task, interests, cancelled,
                 base, slots, result>>

\* Mutant: the interest outlives the wait.
DropInterestLeaked(th) ==
  /\ At(th, "drop")
  /\ Goto(th, "check")
  /\ UNCHANGED <<cell, runtime, task, next_task, interests, cancelled, base, slots, result>>

\* The interest is dropped at the end of the loop's body.
DropInterest(th) ==
  /\ At(th, "drop")
  /\ Unregister(Top(th).task, th, Top(th).tok)
  /\ Goto(th, "check")
  /\ UNCHANGED <<cell, runtime, task, next_task, cancelled, base, slots, result>>

-----------------------------------------------------------------------------
(***************************************************************************)
(* The evaluation of a claimed fact                                        *)
(***************************************************************************)

\* th runs the evaluation of its innermost frame's task, now in this phase.
Runs(th, phase) == At(th, "run") /\ task[Top(th).task].phase = phase

SetPhase(t, phase) == task' = [task EXCEPT ![t].phase = phase]

\* FactRuntime::begin
Begin(th) ==
  LET t == Top(th).task
  IN /\ Runs(th, "Claimed")
     /\ owners' = [owners EXCEPT ![task[t].fact] = t]
     /\ SetPhase(t, "Recording")
     /\ UNCHANGED <<cell, waiting, records, next_task, interests, cancelled, stack,
                    base, slots, result>>

\* th is where t's computation issues its next request: it evaluates t, or it is
\* a lane of t between two items.
Dispatches(th, t) ==
  IF stack[th] = <<>> THEN base[th].task = t ELSE At(th, "run") /\ Top(th).task = t

Items(t) == Len(Requests[task[t].fact])
Parallel(t) == task[t].fact \in Par

\* The computation requests its next fact, on this thread.
Call(th, t) ==
  /\ Dispatches(th, t)
  /\ task[t].phase = "Recording"
  /\ task[t].next <= Items(t)
  /\ Parallel(t) \/ task[t].errors = {}
  /\ stack' = [stack EXCEPT ![th] =
       <<NewFrame(Requests[task[t].fact][task[t].next], task[t].tok)>> \o @]
  /\ task' = [task EXCEPT ![t].next = @ + 1]
  /\ UNCHANGED <<cell, runtime, next_task, interests, cancelled, base, slots,
                 result>>

\* spawn_indexed_lane, by the coordinator or by a lane: one more item is left
\* for a lane and try_acquire gets it a slot.
SpawnLane(th, t, h) ==
  /\ Parallel(t) /\ Dispatches(th, t)
  /\ task[t].phase = "Recording"
  /\ Limit > 1 /\ task[t].next < Items(t)
  /\ base[h] = NoLane
  /\ Cardinality(slots) < Limit
  /\ slots' = slots \cup {h}
  /\ base' = [base EXCEPT ![h] =
       [task |-> t, facts |-> IF stack[th] = <<>> THEN base[th].facts
                              ELSE Evaluating(th) \cup {task[t].fact}]]
  /\ task' = [task EXCEPT ![t].forked = TRUE]
  /\ UNCHANGED <<cell, runtime, next_task, interests, cancelled, stack, result>>

\* A lane finds no item left and drops its slot.
LaneEnds(h) ==
  LET t == base[h].task
  IN /\ t # None /\ stack[h] = <<>>
     /\ task[t].next > Items(t)
     /\ slots' = slots \ {h}
     /\ base' = [base EXCEPT ![h] = NoLane]
     /\ UNCHANGED <<cell, runtime, task, next_task, interests, cancelled, stack,
                    result>>

\* The coordinator finds no item left: it suspends its slot to join the lanes.
Suspend(th) ==
  LET t == Top(th).task
  IN /\ Runs(th, "Recording")
     /\ task[t].forked /\ task[t].next > Items(t)
     /\ slots' = slots \ {th}
     /\ SetPhase(t, "Joining")
     /\ UNCHANGED <<cell, runtime, next_task, interests, cancelled, stack, base,
                    result>>

\* Mutants: the coordinator does not wait for its lanes; it takes no slot.
ResumeEarly(th) ==
  LET t == Top(th).task
  IN /\ Runs(th, "Joining")
     /\ Cardinality(slots) < Limit
     /\ slots' = slots \cup {th}
     /\ task' = [task EXCEPT ![t].phase = "Recording", ![t].forked = FALSE]
     /\ UNCHANGED <<cell, runtime, next_task, interests, cancelled, stack, base,
                    result>>
ResumeUncounted(th) ==
  LET t == Top(th).task
  IN /\ Runs(th, "Joining")
     /\ ~\E h \in Helpers : base[h].task = t
     /\ task' = [task EXCEPT ![t].phase = "Recording", ![t].forked = FALSE]
     /\ UNCHANGED <<cell, runtime, next_task, interests, cancelled, stack, base,
                    slots, result>>

\* All lanes have ended: the coordinator takes a slot again.
Resume(th) ==
  LET t == Top(th).task
  IN /\ Runs(th, "Joining")
     /\ ~\E h \in Helpers : base[h].task = t
     /\ Cardinality(slots) < Limit
     /\ slots' = slots \cup {th}
     /\ task' = [task EXCEPT ![t].phase = "Recording", ![t].forked = FALSE]
     /\ UNCHANGED <<cell, runtime, next_task, interests, cancelled, stack, base,
                    result>>

Joined(t) == task[t].next > Items(t) /\ ~task[t].forked

\* The computation returns a value; execution capacity is given back first.
Compute(th) ==
  LET t == Top(th).task
  IN /\ Runs(th, "Recording")
     /\ Joined(t) /\ task[t].errors = {}
     /\ slots' = SlotsAfter(th)
     /\ SetPhase(t, "Computed")
     /\ UNCHANGED <<cell, runtime, next_task, interests, cancelled, stack, base,
                    result>>

\* The computation returns an error: at once from sequential requests, after the
\* join from parallel ones.
Fail(th) ==
  LET t == Top(th).task
  IN /\ Runs(th, "Recording")
     /\ Parallel(t) => Joined(t)
     /\ \E e \in task[t].errors :
          task' = [task EXCEPT ![t].phase = "Abandoning", ![t].errors = {e}]
     /\ UNCHANGED <<cell, runtime, next_task, interests, cancelled, stack, base,
                    slots, result>>

\* shared_cancellation.token().check() before publication.
CheckShared(th) ==
  LET t == Top(th).task
  IN /\ Runs(th, "Computed")
     /\ task' = IF IsCancelled(t)
          THEN [task EXCEPT ![t].phase = "Abandoning", ![t].errors = {"Cancelled"}]
          ELSE [task EXCEPT ![t].phase = "Prepare"]
     /\ UNCHANGED <<cell, runtime, next_task, interests, cancelled, stack, base,
                    slots, result>>

\* Mutant: the runtime commit happens outside the cell mutex.
CommitOutsideCell(th) ==
  LET t == Top(th).task
      f == task[t].fact
  IN /\ Runs(th, "Prepare")
     /\ RemoveEvaluation(t)
     /\ records' = [g \in DOMAIN records \cup {f} |->
                      IF g = f THEN task[t].deps ELSE records[g]]
     /\ task' = [task EXCEPT ![t].phase = "Publishing", ![t].deps = {}]
     /\ UNCHANGED <<cell, next_task, interests, cancelled, stack, base, slots, result>>

\* prepare and commit under the runtime mutex, which publish holds together with
\* the cell mutex: the record is in and the owner out before the cell is Ready.
Commit(th) ==
  LET t == Top(th).task
      f == task[t].fact
  IN /\ Runs(th, "Prepare")
     /\ RemoveEvaluation(t)
     /\ records' = [g \in DOMAIN records \cup {f} |->
                      IF g = f THEN task[t].deps ELSE records[g]]
     /\ cell' = [cell EXCEPT ![f].st = "Publishing"]
     /\ task' = [task EXCEPT ![t].phase = "Publishing", ![t].deps = {}]
     /\ UNCHANGED <<next_task, interests, cancelled, stack, base, slots, result>>

\* The cell becomes Ready and its mutex is released.
Publish(th) ==
  LET t == Top(th).task
  IN /\ Runs(th, "Publishing")
     /\ cell' = [cell EXCEPT ![task[t].fact].st = "Ready"]
     /\ SetPhase(t, "Published")
     /\ UNCHANGED <<runtime, next_task, interests, cancelled, stack, base, slots,
                    result>>

\* The publisher's own request returns; its interest ends with it.
Deliver(th) ==
  LET t == Top(th).task
      tok == Top(th).tok
  IN /\ Runs(th, "Published")
     /\ Return(th, IF IsCancelled(tok) THEN "Cancelled" ELSE "Ok",
               [task EXCEPT ![t].phase = "Done"])
     /\ Unregister(t, th, tok)
     /\ UNCHANGED <<cell, runtime, next_task, cancelled, base, slots>>

\* PublicationGuard drops the evaluation first: discard and abandon_evaluation.
Abandon(th) ==
  LET t == Top(th).task
  IN /\ Runs(th, "Abandoning")
     /\ RemoveEvaluation(t)
     /\ task' = [task EXCEPT ![t].phase = "Abandoned", ![t].deps = {}]
     /\ UNCHANGED <<cell, records, next_task, interests, cancelled, stack, base,
                    slots, result>>

\* Mutant: the cell forgets its task but stays Computing.
VacateHalf(th) ==
  LET t == Top(th).task
  IN /\ Runs(th, "Abandoned")
     /\ cell' = [cell EXCEPT ![task[t].fact].task = None]
     /\ \E e \in task[t].errors :
          Return(th, e, [task EXCEPT ![t].phase = "Done"])
     /\ Unregister(t, th, Top(th).tok)
     /\ slots' = SlotsAfter(th)
     /\ UNCHANGED <<runtime, next_task, cancelled, base>>

\* ... then FactCell::abandon, and the request returns the error.
Vacate(th) ==
  LET t == Top(th).task
  IN /\ Runs(th, "Abandoned")
     /\ cell' = [cell EXCEPT ![task[t].fact] = [st |-> "Vacant", task |-> None]]
     /\ \E e \in task[t].errors :
          Return(th, e, [task EXCEPT ![t].phase = "Done"])
     /\ Unregister(t, th, Top(th).tok)
     /\ slots' = SlotsAfter(th)
     /\ UNCHANGED <<runtime, next_task, cancelled, base>>

-----------------------------------------------------------------------------
ThreadStep(th) ==
  \/ Request(th) \/ Check(th) \/ Look(th) \/ Admit(th) \/ Claim(th)
  \/ WaitFor(th) \/ RegisterInterest(th) \/ Unwait(th) \/ DropInterest(th)
  \/ Begin(th) \/ Suspend(th) \/ Resume(th)
  \/ Compute(th) \/ Fail(th) \/ CheckShared(th) \/ Commit(th) \/ Publish(th)
  \/ Deliver(th) \/ Abandon(th) \/ Vacate(th)
  \/ LaneEnds(th)
  \/ \E t \in Tasks : Call(th, t)

\* Every request has returned.
Finished == \A th \in Threads : stack[th] = <<>> /\ base[th] = NoLane

Next ==
  \/ \E th \in Threads : ThreadStep(th)
  \/ \E th \in Threads, t \in Tasks, h \in Helpers : SpawnLane(th, t, h)
  \/ \E r \in Roots : Cancel(r)
  \/ Finished /\ UNCHANGED vars

Spec == Init /\ [][Next]_vars

\* Every thread that can take a step is eventually scheduled; callers need not
\* cancel, and lanes need not be spawned.
FairSpec == Spec /\ \A th \in Threads : WF_vars(ThreadStep(th))

-----------------------------------------------------------------------------
(***************************************************************************)
(* The cells implement FactStore: a fact counts as Ready from the commit   *)
(* of its record on, when nobody can see its cell but through the mutex.   *)
(***************************************************************************)
Store == INSTANCE FactStore WITH
  status <- [f \in Facts |-> IF cell[f].st = "Publishing" THEN "Ready" ELSE cell[f].st],
  deps <- records

\* Every step of the engine claims, abandons or publishes one fact as FactStore
\* allows, or changes nothing a user of the cells can see.
ImplementsFactStore == Store!Spec

-----------------------------------------------------------------------------
(***************************************************************************)
(* Properties                                                              *)
(***************************************************************************)

Frame ==
  [fact : Facts, pc : TaskPcs, tok : Tokens, task : Tasks] \cup
  [fact : Facts, pc : FreePcs, tok : Tokens, task : Tasks \cup {None}]
Cell ==
  [st : {"Computing"}, task : Tasks] \cup
  [st : {"Vacant", "Publishing", "Ready"}, task : Tasks \cup {None}]
Task == [fact : Facts, phase : Phases, next : Nat \ {0}, deps : SUBSET Facts,
         errors : SUBSET Errors, tok : Tokens, forked : BOOLEAN]

TypeOK ==
  /\ cell \in [Facts -> Cell]
  /\ owners \in [Facts -> Tasks \cup {None}]
  /\ waiting \in [Tasks -> [Tasks -> Nat]]
  /\ DOMAIN records \subseteq Facts
  /\ \A f \in DOMAIN records : records[f] \subseteq Facts
  /\ task \in [Tasks -> Task]
  /\ next_task \in Nat
  /\ interests \in [Tasks -> SUBSET (Threads \X Tokens)]
  /\ cancelled \subseteq Roots
  /\ stack \in [Threads -> Seq(Frame)]
  /\ base \in [Threads -> [task : Tasks \cup {None}, facts : SUBSET Facts]]
  /\ slots \subseteq Threads
  /\ result \in [Roots -> {"Pending", "Ok"} \cup Errors]

Begun == {"Recording", "Joining", "Computed", "Prepare", "Abandoning"}
Active == Begun \cup {"Claimed", "Publishing", "Abandoned"}

\* Single flight: a task between its claim and its publication or abandonment is
\* the one its cell names, so no two tasks evaluate a fact at once and the
\* assertions of `publish' hold; the runtime names it as owner exactly from
\* `begin' to `commit' or `abandon_evaluation', so `begin' never finds an owner.
SingleFlight ==
  \A t \in Tasks :
    LET f == task[t].fact
        phase == task[t].phase
    IN /\ phase \in Active =>
            cell[f] = [st |-> IF phase = "Publishing" THEN phase ELSE "Computing",
                       task |-> t]
       /\ (phase \in Begun) <=> (owners[f] = t)
       /\ phase = "Claimed" => owners[f] = None

\* Dependency records: whatever a task has recorded is committed already, so
\* `prepare_evaluation' finds a record for each dependency; committed records
\* are closed under dependency; and a committed fact that absorbs no cycle
\* recorded everything its computation asked for.
RecordsComplete ==
  /\ \A t \in Tasks : task[t].deps \subseteq DOMAIN records
  /\ \A f \in DOMAIN records :
       /\ records[f] \subseteq DOMAIN records
       /\ f \notin Absorbs =>
            records[f] = {Requests[f][i] : i \in 1..Len(Requests[f])}
  /\ \A f \in Facts : cell[f].st = "Ready" => f \in DOMAIN records

\* Only a computation that is still recording hears the outcome of a request:
\* the InvalidTaskState panic of `record' is unreachable, lanes included.
ContextRecording ==
  \A th \in Threads :
    LET c == Context(th)
    IN (stack[th] # <<>> /\ c # None) => task[c].phase \in {"Recording", "Joining"}

\* No cyclic wait is ever registered: `wait_for' lets an edge in only when the
\* tasks waiting for each other stay without a cycle.
WaitGraphAcyclic ==
  \A S \in SUBSET Tasks : S # {} => \E t \in S : \A u \in S : ~Edge(t, u)

\* The registered edges are exactly the waits in progress: polling, errors and
\* abandonment leave no stale edge that a later cycle search could follow.
EdgesExact ==
  \A t, u \in Tasks :
    waiting[t][u] = Cardinality({th \in Threads :
      /\ At(th, "register") \/ At(th, "wait")
      /\ Context(th) = t /\ Top(th).task = u})

\* The tokens that some thread may be about to check.
CheckedTokens ==
  {Top(th).tok : th \in {h \in Threads : \/ At(h, "request") \/ At(h, "check")
                                         \/ At(h, "admit") \/ Runs(h, "Published")}}
  \cup {Top(th).task : th \in {h \in Threads : Runs(h, "Computed")}}

\* A cancellation check never runs into a token that is interested in itself, the
\* RecursiveCancellationInterest panic, though interests outlive wait edges.
NoRecursiveInterest ==
  ~\E S \in SUBSET Tasks :
     /\ S \cap CheckedTokens # {}
     /\ \A u \in S : \E i \in interests[u] : i[2] \in S

\* A request returns Cancelled only when its own token was cancelled, whatever
\* happened to the shared work it waited for.
OwnCancellation == \A r \in Roots : result[r] = "Cancelled" => r \in cancelled

\* Facts whose requests lead into a cycle.
Cyclic(f) ==
  \E S \in SUBSET Facts :
    /\ f \in S
    /\ \A g \in S : \E i \in 1..Len(Requests[g]) : Requests[g][i] \in S

\* A cycle is reported only for a fact that really leads into one: no stale edge
\* or foreign stack entry turns an order of events into a Cycle error.
CyclesAreReal ==
  /\ \A t \in Tasks : "Cycle" \in task[t].errors => Cyclic(task[t].fact)
  /\ \A r \in Roots : result[r] = "Cycle" => Cyclic(RootFact[r])

\* A publication is final: a Ready cell and a committed record never change,
\* whatever claims, retries and abandonments follow.
KeepsPublished ==
  /\ \A f \in Facts : cell[f].st = "Ready" => cell'[f] = cell[f]
  /\ \A f \in DOMAIN records : f \in DOMAIN records' /\ records'[f] = records[f]
PublicationFinal == [][KeepsPublished]_vars

\* Thread th waits for a task that thread h evaluates, innermost or further out.
WaitsOn(th, h) ==
  At(th, "wait") /\ \E i \in 1..Len(stack[h]) :
                       stack[h][i].pc = "run" /\ stack[h][i].task = Top(th).task

\* Threads never all wait for each other.
NoThreadDeadlock ==
  \A S \in SUBSET Threads : S # {} => \E th \in S : \A h \in S : ~WaitsOn(th, h)

\* Every request returns.
AllReturn == <>(\A r \in Roots : result[r] # "Pending")

\* A check that would follow interests around a cycle for certain: every other
\* interest on the way is cancelled, so none ends the search.
NoRecursivePanic ==
  ~\E S \in SUBSET Tasks :
     /\ S \cap CheckedTokens # {}
     /\ \A u \in S : /\ \E i \in interests[u] : i[2] \in S
                     /\ \A i \in interests[u] : i[2] \in S \cup cancelled
=============================================================================

---------------------------- MODULE TaskControl ----------------------------
(***************************************************************************)
(* The life of native tasks: the counted control cell of each task, the    *)
(* intrusive lists of tasks waiting for another task to end or to retire,  *)
(* the atomic cancellation word, the runtime event, and the worker thread  *)
(* that drives one dispatch of a ready task from the moment the scheduler  *)
(* hands it over to the moment it is given back.                           *)
(*                                                                         *)
(* Every step below is one critical section of the code (a cell lock, the  *)
(* resident lease over the task directory, one atomic exchange, one call   *)
(* of the scheduler), or several of one thread that no other thread can    *)
(* tell apart.  The scheduler itself is RunScheduler's subject: here a     *)
(* task is off, idle, ready or running and a wake of a running task is     *)
(* kept until the task is given back.                                      *)
(***************************************************************************)
EXTENDS Integers, FiniteSets

CONSTANTS
  Tasks,        \* task handles: a slot of the directory and its generation
  Main,         \* the thread that owns the root tasks
  None,
  Owner,        \* the task (or Main) that holds each task's source claim
  Joins,        \* pairs <<waiter, target>> of joins by a task that is no owner
  MaxStimuli,   \* bound: explicit wakes and requests from outside
  MaxDefers     \* bound: yields and deferred retirements

Links == {<<Owner[t], t>> : t \in Tasks} \cup Joins

VARIABLES
  cell,         \* Control: phase, source_owner, dispatching, retiring, ...
  word,         \* the cancellation word: requested, terminal, shields
  waits,        \* WaitRegistration in the waiter's slot, or None
  heads,        \* terminal_waiters and retirement_waiters of each slot
  sched,        \* the scheduler's view of the task
  pending,      \* running tasks with a retained wake
  event,        \* the runtime event: closed, registered waiters
  parked,       \* tasks whose suspended_wait holds an event registration
  driver,       \* the thread driving each task
  views,        \* how far the observation of each link has come
  calls,        \* wakes decided on by a thread and not yet delivered
  native,       \* tasks whose NativeCancellation still holds its reference
  dying,        \* tasks whose last reference is gone, slot not yet freed
  delivered,    \* history: tasks whose frame has seen a request
  aborted,      \* an abort, assertion or expect of the code was reached
  surprised,    \* results of the scheduler that the driver did not expect
  budget

wakes == <<sched, pending>>
links == <<waits, heads>>
events == <<event, parked>>
others == <<views, calls, native, delivered, surprised, budget>>

vars == <<cell, word, waits, heads, sched, pending, event, parked, driver,
          views, calls, native, dying, delivered, aborted, surprised, budget>>

Phases == {"Active", "Executing", "Terminal", "Resolved", "free"}
Over(t) == cell[t].phase \in {"Terminal", "Resolved"}
Handles == Tasks \cup {None}
Idle == [pc |-> "none", at |-> None, retirement |-> FALSE,
         chain |-> None, held |-> None, then |-> "none"]

TypeOK ==
  /\ cell \in [Tasks -> [phase : Phases, source_owner : BOOLEAN,
                         dispatching : BOOLEAN, retiring : BOOLEAN,
                         retired : BOOLEAN, references : Nat]]
  /\ word \in [Tasks -> [requested : BOOLEAN, terminal : BOOLEAN, shields : Nat]]
  /\ \A t \in Tasks : waits[t] = None \/
       waits[t] \in [target : Tasks, retirement : BOOLEAN,
                     previous : Handles, next : Handles]
  /\ heads \in [Tasks -> [BOOLEAN -> Handles]]
  /\ sched \in [Tasks -> {"off", "idle", "ready", "running"}]
  /\ pending \subseteq Tasks /\ parked \subseteq Tasks /\ native \subseteq Tasks
  /\ dying \subseteq Tasks /\ delivered \subseteq Tasks
  /\ event \in [closed : BOOLEAN, waiters : SUBSET Tasks]
  /\ driver \in [Tasks -> [pc : STRING, at : Handles, retirement : BOOLEAN,
                           chain : Handles, held : Handles, then : STRING]]
  /\ views \in [Links -> {"pending", "ready", "retired", "done"}]
  /\ calls \subseteq Tasks \X {"cancel", "yield", "event"}
  /\ aborted \in BOOLEAN /\ surprised \subseteq {"yield", "suspend"}
  /\ budget \in [stimuli : 0 .. MaxStimuli, defers : 0 .. MaxDefers]
-----------------------------------------------------------------------------
(* A task as start leaves it: published, registered with the scheduler,    *)
(* awake for the first time.  Its cell counts the source claim, the        *)
(* NativeCancellation and each observation of it by a task.                *)
Started(t) ==
  [phase |-> "Active", source_owner |-> TRUE, dispatching |-> FALSE,
   retiring |-> FALSE, retired |-> FALSE,
   references |-> 2 + Cardinality({l \in Links : l[2] = t /\ l[1] # Main})]

Init ==
  /\ cell = [t \in Tasks |-> Started(t)]
  /\ word = [t \in Tasks |-> [requested |-> FALSE, terminal |-> FALSE, shields |-> 0]]
  /\ waits = [t \in Tasks |-> None]
  /\ heads = [t \in Tasks |-> [k \in BOOLEAN |-> None]]
  /\ sched = [t \in Tasks |-> "ready"]
  /\ pending = {} /\ parked = {} /\ native = Tasks /\ dying = {}
  /\ event = [closed |-> FALSE, waiters |-> {}]
  /\ driver = [t \in Tasks |-> Idle]
  /\ views = [l \in Links |-> "pending"]
  /\ calls = {} /\ delivered = {} /\ aborted = FALSE /\ surprised = {}
  /\ budget = [stimuli |-> 0, defers |-> 0]
-----------------------------------------------------------------------------
At(t, pc) == driver[t].pc = pc
Go(t, pc) == driver' = [driver EXCEPT ![t].pc = pc]
GoAt(t, pc, c) == driver' = [driver EXCEPT ![t].pc = pc, ![t].at = c]
Abort == aborted' = TRUE
Require(condition) == aborted' = (aborted \/ ~condition)

(* The wake of one registration: a ready task absorbs it, a running one    *)
(* keeps it, an unregistered one is unknown.                               *)
Wake(t) ==
  /\ sched' = IF sched[t] = "idle" THEN [sched EXCEPT ![t] = "ready"] ELSE sched
  /\ pending' = IF sched[t] = "running" THEN pending \cup {t} ELSE pending

NoWake == UNCHANGED <<sched, pending>>

observable(t) == word[t] = [requested |-> TRUE, terminal |-> FALSE, shields |-> 0]

(* release, applied once for every member of the bag given as a function:  *)
(* the count may reach zero only in a resolved and retired cell.           *)
Sound(c, n) ==
  /\ c.references >= n
  /\ (c.references = n /\ n > 0) => (c.phase = "Resolved" /\ c.retired)

Release(drops) ==
  [t \in Tasks |-> [cell[t] EXCEPT !.references = @ - drops[t]]]

Freed(drops) == {t \in Tasks : drops[t] > 0 /\ cell[t].references = drops[t]}

Drops(t, u) == [x \in Tasks |-> (IF x = t THEN 1 ELSE 0) + (IF x = u THEN 1 ELSE 0)]

(* dispose_reference of t and of u (None for one only).                    *)
Dispose(t, u) ==
  LET drops == Drops(t, u) IN
  /\ cell' = Release(drops)
  /\ dying' = dying \cup Freed(drops)
  /\ Require(\A x \in Tasks : Sound(cell[x], drops[x]))
-----------------------------------------------------------------------------
(* The thread that drives t, up to its frame.                              *)

Take(t) ==
  /\ sched[t] = "ready" /\ At(t, "none")
  /\ sched' = [sched EXCEPT ![t] = "running"]
  /\ driver' = [driver EXCEPT ![t] = [Idle EXCEPT !.pc = "drive"]]
  /\ UNCHANGED <<cell, word, pending, dying, aborted, others, events, links>>

(* drive_ready: a task parked on an event that is still open, not asked to *)
(* cancel and not over is given back as it is; any other drops the wait.   *)
Drive(t) ==
  /\ At(t, "drive")
  /\ IF t \in parked /\ ~event.closed /\ ~observable(t) /\ ~Over(t)
     THEN /\ driver' = [driver EXCEPT ![t].pc = "giveback", ![t].then = "event"]
          /\ UNCHANGED <<events>>
     ELSE /\ Go(t, "withdraw")
          /\ event' = [event EXCEPT !.waiters = @ \ {t}]
          /\ parked' = parked \ {t}
  /\ UNCHANGED <<cell, word, dying, aborted, others, links, wakes>>

(* Mutant: no registration is ever committed.                              *)
CommittedNever(w) == FALSE

(* wait_committed: what the registration waits for has happened.           *)
Committed(w) == IF w.retirement THEN cell[w.target].retired ELSE Over(w.target)

Live(t) == cell[t].phase # "free"

(* Mutant: the next registration keeps pointing at the one that is gone.   *)
UnlinkedOneWay(t) ==
  LET w == waits[t] IN
  [x \in Tasks |->
     CASE x = t -> None
       [] x # t /\ x = w.previous /\ waits[x] # None -> [waits[x] EXCEPT !.next = w.next]
       [] OTHER -> waits[x]]

(* unlink_registration: the list of the target closes over the registration *)
(* of t, through its neighbours' slots or the target's head.                *)
Unlinked(t) ==
  LET w == waits[t] IN
  [x \in Tasks |->
     CASE x = t -> None
       [] x # t /\ x = w.previous /\ waits[x] # None -> [waits[x] EXCEPT !.next = w.next]
       [] x # t /\ x # w.previous /\ x = w.next /\ waits[x] # None ->
            [waits[x] EXCEPT !.previous = w.previous]
       [] OTHER -> waits[x]]

UnlinkedHeads(t) ==
  LET w == waits[t] IN
  IF w.previous = None
    THEN [heads EXCEPT ![w.target][w.retirement] = w.next] ELSE heads

Neighbours(t) == {waits[t].previous, waits[t].next} \ {None}

(* withdraw_wait: a committed registration belongs to its deliverer, and   *)
(* the dispatch is refused; any other is unlinked and released.            *)
Withdraw(t) ==
  /\ At(t, "withdraw")
  /\ \/ /\ waits[t] = None
        /\ Go(t, "begin")
        /\ UNCHANGED <<cell, dying, aborted, links>>
     \/ /\ waits[t] # None /\ Committed(waits[t])
        /\ driver' = [driver EXCEPT ![t].pc = "giveback", ![t].then = "wait",
                                    ![t].at = waits[t].target]
        /\ UNCHANGED <<cell, dying, aborted, links>>
     \/ /\ waits[t] # None /\ ~Committed(waits[t])
        /\ Go(t, "begin")
        /\ waits' = Unlinked(t)
        /\ heads' = UnlinkedHeads(t)
        /\ LET drops == Drops(waits[t].target, t) IN
           /\ cell' = Release(drops)
           /\ dying' = dying \cup Freed(drops)
           /\ Require(/\ \A x \in Tasks : Sound(cell[x], drops[x])
                      /\ Live(waits[t].target)
                      /\ \A n \in Neighbours(t) : Live(n) /\ waits[n] # None)
  /\ UNCHANGED <<word, others, events, wakes>>

(* acquire_dispatch takes the claim, and advance_dispatch decides from its *)
(* first snapshot: a retired task is refused, a terminal one has no work,  *)
(* a resolved one retires when asked to, any other runs its frame, which   *)
(* is told whether a cancellation request is observable.                   *)
Begin(t) ==
  /\ At(t, "begin")
  /\ LET c == cell[t] IN
     IF c.dispatching \/ c.retired \/ c.references = 0
     THEN Go(t, "giveback") /\ UNCHANGED <<cell, delivered>>
     ELSE
       /\ cell' = [cell EXCEPT ![t].dispatching = TRUE, ![t].references = @ + 1,
                               ![t].phase = IF Over(t) THEN @ ELSE "Executing"]
       /\ Go(t, CASE c.phase = "Resolved" /\ c.retiring -> "retire"
                  [] Over(t) /\ ~(c.phase = "Resolved" /\ c.retiring) -> "end"
                  [] OTHER -> "frame")
       /\ delivered' = IF ~Over(t) /\ observable(t) THEN delivered \cup {t}
                       ELSE delivered
  /\ UNCHANGED <<word, views, calls, native, dying, aborted, surprised,
                  budget, events, links, wakes>>
-----------------------------------------------------------------------------
(* The end of a dispatch.                                                  *)

Ended(t) == [cell EXCEPT ![t].dispatching = FALSE, ![t].references = @ - 1]

(* end_dispatch: never the last reference, never in the middle of a frame. *)
EndSound(t) == /\ cell[t].dispatching
               /\ cell[t].references > 1

(* suspend_dispatch and the release of the claim.                          *)
Suspend(t) ==
  /\ At(t, "suspend")
  /\ cell' = [Ended(t) EXCEPT ![t].phase = "Active"]
  /\ Go(t, IF driver[t].then = "event" THEN "register" ELSE "giveback")
  /\ Require(EndSound(t) /\ cell[t].phase = "Executing")
  /\ UNCHANGED <<word, dying, others, events, links, wakes>>

(* Mutant: the event is not looked at again on registration.               *)
RegisterUnseen(t) ==
  /\ At(t, "register")
  /\ event' = [event EXCEPT !.waiters = @ \cup {t}] /\ NoWake
  /\ parked' = parked \cup {t}
  /\ Require(t \notin parked)
  /\ Go(t, "giveback")
  /\ UNCHANGED <<cell, word, dying, others, links>>

(* suspend_on_task_event: registration with a closed event wakes at once,  *)
(* while the task still runs.                                              *)
Register(t) ==
  /\ At(t, "register")
  /\ IF event.closed THEN Wake(t) /\ UNCHANGED event
     ELSE event' = [event EXCEPT !.waiters = @ \cup {t}] /\ NoWake
  /\ parked' = parked \cup {t}
  /\ Require(t \notin parked)
  /\ Go(t, "giveback")
  /\ UNCHANGED <<cell, word, dying, others, links>>

(* Mutant: a wake kept while the task ran is dropped.                      *)
GiveBackForgetful(t) ==
  /\ At(t, "giveback")
  /\ sched' = IF sched[t] = "off" THEN sched ELSE [sched EXCEPT ![t] = "idle"]
  /\ pending' = pending \ {t}
  /\ surprised' = IF sched[t] = "off" THEN surprised \cup {"suspend"} ELSE surprised
  /\ calls' = IF driver[t].then = "yield" /\ sched[t] # "off"
              THEN calls \cup {<<t, "yield">>} ELSE calls
  /\ Go(t, "none")
  /\ UNCHANGED <<cell, word, views, native, dying, delivered, aborted, budget,
                  events, links>>

(* ready.suspend: a wake kept while the task ran makes it ready again.  A  *)
(* task destroyed meanwhile is unknown to the scheduler.  The thread of a  *)
(* yielded task then wakes it.                                             *)
GiveBack(t) ==
  /\ At(t, "giveback")
  /\ sched' = IF sched[t] = "off" THEN sched
              ELSE [sched EXCEPT ![t] = IF t \in pending THEN "ready" ELSE "idle"]
  /\ pending' = pending \ {t}
  /\ surprised' = IF sched[t] = "off" THEN surprised \cup {"suspend"} ELSE surprised
  /\ calls' = IF driver[t].then = "yield" /\ sched[t] # "off"
              THEN calls \cup {<<t, "yield">>} ELSE calls
  /\ Go(t, "none")
  /\ UNCHANGED <<cell, word, views, native, dying, delivered, aborted, budget,
                  events, links>>

(* complete_dispatch: close_cancellation, then the outcome.                *)
Complete(t) ==
  /\ At(t, "complete")
  /\ word' = [word EXCEPT ![t].terminal = TRUE]
  /\ cell' = [cell EXCEPT ![t].phase = "Terminal"]
  /\ Require(cell[t].phase = "Executing" /\ cell[t].dispatching)
  /\ Go(t, "take")
  /\ UNCHANGED <<dying, others, events, links, wakes>>

(* retire_dispatch: the frame's destruction may be deferred, in which case *)
(* the dispatch ends as yielded; otherwise the cell is retired.            *)
RetireDeferred(t) ==
  /\ At(t, "retire") /\ budget.defers < MaxDefers
  /\ budget' = [budget EXCEPT !.defers = @ + 1]
  /\ driver' = [driver EXCEPT ![t].pc = "end", ![t].then = "yield"]
  /\ UNCHANGED <<cell, word, views, calls, native, dying, delivered, aborted,
                  surprised, events, links, wakes>>

Retire(t) ==
  /\ At(t, "retire")
  /\ cell' = [cell EXCEPT ![t].retired = TRUE]
  /\ Require(cell[t].phase = "Resolved" /\ cell[t].retiring /\ cell[t].dispatching)
  /\ driver' = [driver EXCEPT ![t].pc = "take", ![t].retirement = TRUE]
  /\ UNCHANGED <<word, dying, others, events, links, wakes>>

(* notify_waiters: the list is detached in one step and delivered one      *)
(* registration at a time; each is popped, its waiter woken, and only then *)
(* its two references are released.                                        *)
Popping(chain) == IF chain = None THEN "end" ELSE "pop"

TakeWaiters(t) ==
  /\ At(t, "take")
  /\ LET chain == heads[t][driver[t].retirement] IN
     driver' = [driver EXCEPT ![t].pc = Popping(chain), ![t].chain = chain]
  /\ heads' = [heads EXCEPT ![t][driver[t].retirement] = None]
  /\ Require(Live(t))
  /\ UNCHANGED <<cell, word, waits, dying, others, events, wakes>>

Pop(t) ==
  /\ At(t, "pop")
  /\ LET w == driver[t].chain IN
     IF waits[w] = None
     THEN Abort /\ UNCHANGED <<driver, waits>>
     ELSE /\ driver' = [driver EXCEPT ![t].pc = "wake", ![t].held = w,
                                      ![t].chain = waits[w].next]
          /\ waits' = [waits EXCEPT ![w] = None]
          /\ Require(Live(w))
  /\ UNCHANGED <<cell, word, heads, dying, others, events, wakes>>

WakeWaiter(t) ==
  /\ At(t, "wake")
  /\ Wake(driver[t].held)
  /\ Go(t, "release")
  /\ UNCHANGED <<cell, word, dying, aborted, others, events, links>>

ReleaseWait(t) ==
  /\ At(t, "release")
  /\ Dispose(t, driver[t].held)
  /\ driver' = [driver EXCEPT ![t].pc = Popping(driver[t].chain), ![t].held = None]
  /\ UNCHANGED <<word, others, events, links, wakes>>

End(t) ==
  /\ At(t, "end")
  /\ cell' = Ended(t)
  /\ Require(EndSound(t) /\ cell[t].phase # "Executing")
  /\ Go(t, "giveback")
  /\ UNCHANGED <<word, dying, others, events, links, wakes>>
-----------------------------------------------------------------------------
(* The frame of t.  It polls what it has links to, in the order of the     *)
(* observer: observe, wait for the end, wait for retirement, destroy.      *)
Owned(t, c) == <<t, c>> \in Links /\ Owner[c] = t

(* check_wait: whether the wait is answered, refused or registered.        *)
Status(c, retirement) ==
  CASE ~cell[c].source_owner -> 7
    [] cell[c].source_owner /\ retirement ->
         IF cell[c].phase = "Resolved" /\ cell[c].retired THEN 0 ELSE 6
    [] cell[c].source_owner /\ ~retirement -> IF Over(c) THEN 0 ELSE 6

Registers(c, retirement) ==
  Status(c, retirement) = 6 /\ (retirement => cell[c].phase = "Resolved")

(* admit_wait and publish_wait: two more references, and the registration  *)
(* in front of the target's list.  A waiter that has one already keeps it, *)
(* and a poll that finds it waiting for something else aborts.             *)
Published(t, c, retirement) ==
  LET head == heads[c][retirement]
      asked == [cell EXCEPT ![c].retiring = @ \/ retirement]
  IN IF waits[t] # None
     THEN /\ UNCHANGED <<waits, heads>>
          /\ cell' = asked
          /\ Require(waits[t].target = c /\ waits[t].retirement = retirement)
     ELSE /\ waits' = [x \in Tasks |->
               CASE x = t -> [target |-> c, retirement |-> retirement,
                              previous |-> None, next |-> head]
                 [] x # t /\ x = head /\ waits[x] # None ->
                      [waits[x] EXCEPT !.previous = t]
                 [] OTHER -> waits[x]]
          /\ heads' = [heads EXCEPT ![c][retirement] = t]
          /\ cell' = [asked EXCEPT ![c].references = @ + 1, ![t].references = @ + 1]
          /\ Require(/\ Live(c) /\ Live(t) /\ cell[c].references > 0
                     /\ head # None => Live(head) /\ waits[head] # None)

(* wait(c, t, retirement): the waiter goes to `answered' on status 0 or    *)
(* (for a join) 7, and to `registered' on 6.                               *)
Wait(t, c, retirement, answered, registered) ==
  \/ /\ ~Registers(c, retirement)
     /\ GoAt(t, IF Status(c, retirement) = 6 THEN registered ELSE answered, c)
     /\ Require(Status(c, retirement) = 7 => ~Owned(t, c))
     /\ UNCHANGED <<cell, links>>
  \/ /\ Registers(c, retirement)
     /\ driver' = [driver EXCEPT ![t].pc = registered, ![t].at = c, ![t].then = "wait"]
     /\ Published(t, c, retirement)

(* observe: the outcome moves out of a terminal cell; anything else than   *)
(* that or a task still going aborts the poll.                             *)
Observe(t, c) ==
  /\ At(t, "frame") /\ Owned(t, c) /\ views[<<t, c>>] = "pending"
  /\ t \in delivered => word[c].requested \/ word[c].terminal
  /\ IF cell[c].phase = "Terminal"
     THEN /\ cell' = [cell EXCEPT ![c].phase = "Resolved"]
          /\ views' = [views EXCEPT ![<<t, c>>] = "ready"]
          /\ UNCHANGED driver
     ELSE GoAt(t, "wait", c) /\ UNCHANGED <<cell, views>>
  /\ Require(cell[c].source_owner /\ cell[c].phase # "Resolved")
  /\ UNCHANGED <<word, calls, native, dying, delivered, surprised, budget,
                  events, links, wakes>>

WaitTerminal(t) ==
  /\ At(t, "wait")
  /\ Wait(t, driver[t].at, FALSE, "frame", "suspend")
  /\ UNCHANGED <<word, dying, others, events, wakes>>

(* A join by a task that holds a reference and no source claim.            *)
Join(t, c) ==
  /\ At(t, "frame") /\ <<t, c>> \in Joins /\ views[<<t, c>>] = "pending"
  /\ Wait(t, c, FALSE, "joined", "suspend")
  /\ UNCHANGED <<word, dying, others, events, wakes>>

(* retire_task from a task: wait for retirement, then wake the child so    *)
(* that its dispatch retires it.                                           *)
AwaitRetirement(t, c) ==
  /\ At(t, "frame") /\ Owned(t, c) /\ views[<<t, c>>] = "ready"
  /\ Wait(t, c, TRUE, "frame", "wakechild")
  /\ views' = IF Status(c, TRUE) = 0 THEN [views EXCEPT ![<<t, c>>] = "retired"] ELSE views
  /\ UNCHANGED <<word, calls, native, dying, delivered, surprised, budget,
                  events, wakes>>

WakeChild(t) ==
  /\ At(t, "wakechild")
  /\ Wake(driver[t].at)
  /\ Require(sched[driver[t].at] # "off")
  /\ Go(t, "suspend")
  /\ UNCHANGED <<cell, word, dying, others, events, links>>

(* destroy_task: the source claim is given up, the task leaves the         *)
(* scheduler, and the observation's own reference goes last.               *)
Destroy(t, c) ==
  /\ At(t, "frame") /\ Owned(t, c) /\ views[<<t, c>>] = "retired"
  /\ cell' = [cell EXCEPT ![c].source_owner = FALSE, ![c].references = @ - 1]
  /\ Require(/\ cell[c].source_owner /\ cell[c].phase = "Resolved"
             /\ cell[c].retired /\ cell[c].references > 1)
  /\ GoAt(t, "unregister", c)
  /\ UNCHANGED <<word, dying, others, events, links, wakes>>

Unregister(t) ==
  /\ At(t, "unregister")
  /\ sched' = [sched EXCEPT ![driver[t].at] = "off"]
  /\ pending' = pending \ {driver[t].at}
  /\ Go(t, "joined")
  /\ UNCHANGED <<cell, word, dying, aborted, others, events, links>>

DropReference(t) ==
  /\ At(t, "joined")
  /\ Dispose(driver[t].at, None)
  /\ views' = [views EXCEPT ![<<t, driver[t].at>>] = "done"]
  /\ Go(t, "frame")
  /\ UNCHANGED <<word, calls, native, delivered, surprised, budget, events,
                  links, wakes>>

(* request_cancel of a child by a frame, and the wake it may owe.          *)
Requested(t) == IF word[t].terminal THEN word ELSE [word EXCEPT ![t].requested = TRUE]

OwesWake(t) == ~word[t].requested /\ ~word[t].terminal /\ word[t].shields = 0

CancelChild(t, c) ==
  /\ At(t, "frame") /\ Owned(t, c) /\ views[<<t, c>>] = "pending"
  /\ t \in delivered /\ ~word[c].requested /\ ~word[c].terminal
  /\ word' = Requested(c)
  /\ IF OwesWake(c) THEN GoAt(t, "cancelwake", c) ELSE UNCHANGED driver
  /\ UNCHANGED <<cell, dying, aborted, others, events, links, wakes>>

CancelWake(t) ==
  /\ At(t, "cancelwake")
  /\ Wake(driver[t].at)
  /\ Go(t, "frame")
  /\ UNCHANGED <<cell, word, dying, aborted, others, events, links>>

(* Cleanup shields, a wait for the event, a yield, and the frame's end,    *)
(* which comes after every child is destroyed and every shield left.       *)
Enter(t) ==
  /\ At(t, "frame") /\ word[t].shields = 0 /\ budget.defers < MaxDefers
  /\ word' = [word EXCEPT ![t].shields = @ + 1]
  /\ budget' = [budget EXCEPT !.defers = @ + 1]
  /\ UNCHANGED <<cell, driver, views, calls, native, dying, delivered,
                  aborted, surprised, events, links, wakes>>

(* Leaving the outermost shield owes the task a wake when a request waits. *)
Leave(t) ==
  /\ At(t, "frame") /\ word[t].shields > 0
  /\ word' = [word EXCEPT ![t].shields = @ - 1]
  /\ IF word[t].shields = 1 /\ word[t].requested /\ ~word[t].terminal
     THEN GoAt(t, "cancelwake", t) ELSE UNCHANGED driver
  /\ UNCHANGED <<cell, dying, aborted, others, events, links, wakes>>

AwaitEvent(t) ==
  /\ At(t, "frame") /\ ~event.closed
  /\ driver' = [driver EXCEPT ![t].pc = "suspend", ![t].then = "event"]
  /\ UNCHANGED <<cell, word, dying, aborted, others, events, links, wakes>>

Yield(t) ==
  /\ At(t, "frame") /\ budget.defers < MaxDefers
  /\ budget' = [budget EXCEPT !.defers = @ + 1]
  /\ driver' = [driver EXCEPT ![t].pc = "suspend", ![t].then = "yield"]
  /\ UNCHANGED <<cell, word, views, calls, native, dying, delivered, aborted,
                  surprised, events, links, wakes>>

Finish(t) ==
  /\ At(t, "frame") /\ word[t].shields = 0
  /\ \A l \in Links : l[1] = t => views[l] = "done"
  /\ Go(t, "complete")
  /\ UNCHANGED <<cell, word, dying, aborted, others, events, links, wakes>>

Frame(t) ==
  \/ \E c \in Tasks : \/ Observe(t, c) \/ Join(t, c) \/ AwaitRetirement(t, c)
                      \/ Destroy(t, c) \/ CancelChild(t, c)
  \/ WaitTerminal(t) \/ WakeChild(t) \/ Unregister(t) \/ DropReference(t)
  \/ CancelWake(t) \/ Finish(t)
  \/ Leave(t)

Dispatch(t) ==
  \/ Take(t) \/ Drive(t) \/ Withdraw(t) \/ Begin(t)
  \/ Frame(t)
  \/ Suspend(t) \/ Register(t) \/ Complete(t) \/ Retire(t)
  \/ TakeWaiters(t) \/ Pop(t) \/ WakeWaiter(t) \/ ReleaseWait(t)
  \/ End(t) \/ GiveBack(t)

(* What a frame may do and need not.                                       *)
Choice(t) == Enter(t) \/ AwaitEvent(t) \/ Yield(t) \/ RetireDeferred(t)
-----------------------------------------------------------------------------
(* The other threads.                                                      *)

Rest == <<cell, waits, heads, parked, views, native, dying, delivered, driver>>

(* A wake decided on earlier arrives.  An unknown task is ignored, except  *)
(* by the thread of a yielded task, which expects its registration.        *)
Deliver(t, kind) ==
  /\ <<t, kind>> \in calls
  /\ calls' = calls \ {<<t, kind>>}
  /\ Wake(t)
  /\ surprised' = IF kind = "yield" /\ sched[t] = "off"
                  THEN surprised \cup {"yield"} ELSE surprised
  /\ UNCHANGED <<Rest, word, event, aborted, budget>>

(* close: every registered waiter is taken and woken once.                 *)
Close ==
  /\ ~event.closed
  /\ event' = [closed |-> TRUE, waiters |-> {}]
  /\ calls' = calls \cup (event.waiters \X {"event"})
  /\ UNCHANGED <<Rest, word, aborted, surprised, budget, wakes>>

(* A request through a handle that retains the task's services.            *)
RequestCancellation(t) ==
  /\ sched[t] # "off" /\ ~word[t].requested /\ budget.stimuli < MaxStimuli
  /\ budget' = [budget EXCEPT !.stimuli = @ + 1]
  /\ word' = Requested(t)
  /\ calls' = IF OwesWake(t) THEN calls \cup {<<t, "cancel">>} ELSE calls
  /\ UNCHANGED <<Rest, event, aborted, surprised, wakes>>

(* An explicit wake by handle.                                             *)
ExplicitWake(t) ==
  /\ sched[t] # "off" /\ budget.stimuli < MaxStimuli
  /\ budget' = [budget EXCEPT !.stimuli = @ + 1]
  /\ Wake(t)
  /\ UNCHANGED <<Rest, word, event, calls, aborted, surprised>>

(* The main thread resolves a root: observe, ask for retirement and wake   *)
(* the task, destroy it and take it from the scheduler.  What becomes of   *)
(* it when wait_main_thread fails in between is the host's: see TestRun.   *)
MainObserve(t) ==
  /\ Owner[t] = Main /\ views[<<Main, t>>] = "pending" /\ cell[t].phase = "Terminal"
  /\ cell' = [cell EXCEPT ![t].phase = "Resolved"]
  /\ views' = [views EXCEPT ![<<Main, t>>] = "ready"]
  /\ UNCHANGED <<word, driver, calls, native, dying, delivered, aborted,
                  surprised, budget, events, links, wakes>>

(* request_retirement answers only for a resolved root; one whose          *)
(* observation failed stays pending, and is woken all the same.            *)
MainRetire(t) ==
  /\ Owner[t] = Main /\ views[<<Main, t>>] \in {"pending", "ready"}
  /\ IF cell[t].phase = "Resolved" /\ cell[t].retired
     THEN /\ views' = [views EXCEPT ![<<Main, t>>] = "retired"]
          /\ NoWake
          /\ UNCHANGED <<cell, aborted>>
     ELSE /\ cell' = [cell EXCEPT ![t].retiring = @ \/ cell[t].phase = "Resolved"]
          /\ Wake(t)
          /\ Require(sched[t] # "off")
          /\ UNCHANGED views
  /\ UNCHANGED <<word, driver, calls, native, dying, delivered, surprised,
                  budget, events, links>>

MainDestroy(t) ==
  /\ Owner[t] = Main /\ views[<<Main, t>>] = "retired"
  /\ cell' = [cell EXCEPT ![t].source_owner = FALSE, ![t].references = @ - 1]
  /\ Require(cell[t].references > 1)
  /\ sched' = [sched EXCEPT ![t] = "off"]
  /\ pending' = pending \ {t}
  /\ views' = [views EXCEPT ![<<Main, t>>] = "done"]
  /\ UNCHANGED <<word, driver, calls, native, dying, delivered, surprised,
                  budget, events, links>>

(* The last user of the task's services drops them: the binding is gone,   *)
(* its thread has returned, no call through them is under way.             *)
Users(t) ==
  \/ sched[t] # "off" \/ ~At(t, "none")
  \/ <<t, "cancel">> \in calls \/ <<t, "yield">> \in calls
  \/ \E p \in Tasks : driver[p].at = t /\ driver[p].pc \in {"unregister", "wakechild", "cancelwake"}

DropNative(t) ==
  /\ t \in native /\ ~Users(t)
  /\ native' = native \ {t}
  /\ Dispose(t, None)
  /\ UNCHANGED <<word, driver, views, calls, delivered, surprised, budget,
                  events, links, wakes>>

(* take_released: the slot of a cell without references is freed.          *)
Recycle(t) ==
  /\ t \in dying
  /\ dying' = dying \ {t}
  /\ cell' = [cell EXCEPT ![t].phase = "free"]
  /\ Require(Live(t) /\ waits[t] = None /\ \A k \in BOOLEAN : heads[t][k] = None)
  /\ UNCHANGED <<word, driver, others, events, links, wakes>>

Resolve(t) ==
  \/ MainObserve(t)
  \/ cell[t].phase = "Resolved" /\ MainRetire(t)
  \/ MainDestroy(t)
Reclaim(t) == DropNative(t) \/ Recycle(t)
Calls(t) == \E kind \in {"cancel", "yield", "event"} : Deliver(t, kind)
Stimulus(t) == RequestCancellation(t) \/ ExplicitWake(t)

Advance(t) == Dispatch(t) \/ Resolve(t) \/ Reclaim(t) \/ Calls(t)

Next ==
  \/ \E t \in Tasks : Advance(t) \/ Choice(t) \/ Stimulus(t)
  \/ Close

(* Something goes on while anything can: weaker than fairness of each      *)
(* worker, of each call under way, of the main thread resolving its roots  *)
(* and of the thread that closes the event.                                *)
Fairness == WF_vars(Close \/ \E t \in Tasks : Advance(t))

Spec == Init /\ [][Next]_vars /\ Fairness
-----------------------------------------------------------------------------
(* No abort or assertion of the task runtime is ever reached: a claim is   *)
(* never the last reference to end, no count goes below zero or to zero    *)
(* early, no list names a slot without its registration, no slot is freed  *)
(* while linked, no poll meets a state it does not know (task/control.bray,*)
(* waiting/*.bray, retirement.bray, execution.rs).  What the driver expects *)
(* of a late wake is not among them: see YieldKeepsRegistration.           *)
NeverAborts == ~aborted

(* The registrations reached from a list head or from the rest of a        *)
(* detached chain.                                                         *)
Following(first) ==
  LET walk[n \in 0 .. Cardinality(Tasks)] ==
        IF n = 0 THEN {first}
        ELSE walk[n - 1] \cup
             ({waits[x].next : x \in {y \in walk[n - 1] : waits[y] # None}} \ {None})
  IN IF first = None THEN {} ELSE walk[Cardinality(Tasks)]

Delivering(t, retirement) ==
  driver[t].pc \in {"pop", "wake", "release"} /\ driver[t].retirement = retirement

Queued(t, k) == Following(heads[t][k])
Detached(t, k) == IF Delivering(t, k) THEN Following(driver[t].chain) ELSE {}

Count(b) == IF b THEN 1 ELSE 0

References(t) ==
  Count(cell[t].source_owner) + Count(t \in native) + Count(cell[t].dispatching)
  + Count(waits[t] # None)
  + Cardinality({x \in Tasks : waits[x] # None /\ waits[x].target = t})
  + Cardinality({x \in Tasks : driver[x].held = t}) + Count(driver[t].held # None)
  + Cardinality({l \in Links : l[2] = t /\ l[1] # Main /\ views[l] # "done"})

(* The directory is exact between any two critical sections: every         *)
(* registration is in exactly one place, the list of its target or the     *)
(* chain its target is delivering, the links of a list agree in both       *)
(* directions, and every cell counts exactly the references that exist     *)
(* (waiting/registration.bray, withdrawal.bray, delivery.bray).            *)
LinksExact ==
  /\ TypeOK
  /\ \A t \in Tasks, k \in BOOLEAN :
       /\ Queued(t, k) \cap Detached(t, k) = {}
       /\ Queued(t, k) \cup Detached(t, k) =
            {x \in Tasks : waits[x] # None /\ waits[x].target = t /\ waits[x].retirement = k}
       /\ \A x \in Queued(t, k) :
            /\ waits[x].previous = None <=> heads[t][k] = x
            /\ waits[x].next # None => waits[waits[x].next].previous = x
  /\ \A t \in Tasks : Live(t) => cell[t].references = References(t)

(* A wake of t that some thread has committed to.                          *)
WakeComing(t) ==
  \/ \E kind \in {"cancel", "yield", "event"} : <<t, kind>> \in calls
  \/ \E x \in Tasks :
       \/ driver[x].pc \in {"cancelwake", "wakechild"} /\ driver[x].at = t
       \/ At(x, "wake") /\ driver[x].held = t
       \/ waits[t] # None /\ waits[t].target = x
          /\ \/ At(x, "take") /\ driver[x].retirement = waits[t].retirement
             \/ Delivering(x, waits[t].retirement) /\ t \in Following(driver[x].chain)

(* What t waits for in its poll has happened.                              *)
PollReady(t) ==
  /\ driver[t].then = "wait" /\ cell[t].phase = "Active"
  /\ LET c == driver[t].at IN
     CASE views[<<t, c>>] = "pending" -> Over(c)
       [] views[<<t, c>>] = "ready" -> cell[c].retired
       [] OTHER -> TRUE

(* No wake is lost.  A task at rest whose awaited task is over or retired, *)
(* whose event is closed, which yielded, which has not seen an observable  *)
(* request or has not carried out its retirement, has a thread committed   *)
(* to waking it (execution.rs drive_ready, suspend_on_task_event,          *)
(* retire_task; delivery.bray notify_waiters; cancellation/native.rs).     *)
NoLostWait ==
  \A t \in Tasks :
    /\ sched[t] = "idle"
    /\ \/ PollReady(t)
       \/ t \in parked /\ event.closed
       \/ driver[t].then = "yield" /\ ~cell[t].retired
       \/ observable(t) /\ t \notin delivered
       \/ cell[t].retiring /\ ~cell[t].retired
    => WakeComing(t)

(* "a yielded task retains its admitted registration" (execution.rs:261)   *)
(* does not hold: between the give-back of a yielded task and its wake,    *)
(* another wake can have it dispatched, retired, destroyed and unregistered.*)
YieldKeepsRegistration == "yield" \notin surprised
=============================================================================

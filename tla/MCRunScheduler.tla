--------------------------- MODULE MCRunScheduler ---------------------------
(* RunScheduler for TLC in one of four profiles, each a reachable state to   *)
(* start from and the outside calls that go on from there: "work" wakes two  *)
(* registered tasks and lends slots, "crowd" does so with a third worker,    *)
(* "timer" has one registered task with timers, "register" registers,        *)
(* cancels and withdraws one task repeatedly before a single worker.  The    *)
(* workers serve both lanes, the first and the second.                       *)
EXTENDS RunScheduler, Functions, TLC

CONSTANTS w1, w2, w3, la, lb, ta, tb
CONSTANT MaxAdmissions   \* registrations of the register profile
ServedLanes == (w1 :> {la, lb}) @@ (w2 :> {la}) @@ (w3 :> {lb})

VARIABLE profile
mcvars == <<vars, profile>>

Idle(t, lane) == [generation |-> 1, phase |-> "idle", task |-> t, lane |-> lane,
                  pending |-> FALSE, slot |-> FALSE]
FirstOf(i) == [index |-> i, generation |-> 1]

MCInit ==
  /\ profile \in {"work", "crowd", "timer", "register"}
  /\ entries = CASE profile \in {"work", "crowd"} -> <<Idle(ta, la), Idle(tb, lb)>>
                 [] profile = "timer" -> <<Idle(ta, la)>>
                 [] OTHER -> <<>>
  /\ bindings = [t \in Tasks |-> IF profile # "register" /\ t = ta THEN FirstOf(1)
                                 ELSE IF profile \in {"work", "crowd"} THEN FirstOf(2) ELSE None]
  /\ now = IF profile = "timer" THEN 0 ELSE MaxTime
  /\ ready = <<>> /\ running = 0 /\ aborted = FALSE
  /\ signals = {} /\ notices = {} /\ waiters = [g \in Groups |-> 0]
  /\ timers = {} /\ requested = {} /\ calls = {} /\ due = {}
  /\ stimuli = CASE profile = "crowd" -> 2 [] profile = "timer" -> 1 [] OTHER -> 0
  /\ threads = [w \in Workers |->
       NewThread(IF (w = w3 /\ profile # "crowd") \/ (w = w2 /\ profile = "register")
                 THEN "off" ELSE "start")]

Admissions == FoldFunction(LAMBDA row, n : row.generation + n, 0, entries)
MCNext ==
  /\ \/ \E w \in Workers : WorkerStep(w) \/ Spurious(w)
     \/ \E g \in Groups : NotifyAll(g)
     \/ \E c \in calls : Return(c)
     \/ Tick
     \/ profile \in {"work", "crowd"} /\ \E r \in Registrations : ExplicitWake(r)
     \/ /\ profile = "timer"
        /\ \/ Unregister(ta)
           \/ \E d \in 0..MaxTime : RegisterTimer(ta, d)
           \/ \E u \in timers : DropTimer(u)
     \/ /\ profile = "register"
        /\ \/ Unregister(ta)
           \/ RequestCancellation(ta)
           \/ Admissions < MaxAdmissions /\ \E r \in Registrations : Register(ta, la, r)
           \/ \E r \in Registrations : ExplicitWake(r)
  /\ UNCHANGED profile
MCFairSpec == MCInit /\ [][MCNext]_mcvars /\ Fairness
=============================================================================

----------------------------- MODULE MCTestRun -----------------------------
(***************************************************************************)
(* Tasks and test runs, small instances.  The profile says which calls are *)
(* made and from which reachable state:                                    *)
(*   family   the root tp owns tc; every call of TaskControl;              *)
(*   crowd    tp, tq and tr already wait for tc, in one list; its owner tp *)
(*            and one of the three go on, and that one is woken early;     *)
(*   race     one test run with a limit, Cancel from the runner and a      *)
(*            request of its own, and no faults;                           *)
(*   failures one test run with a limit, in which the timeout service, the *)
(*            root, its cleanup, the capture and the waits of the main     *)
(*            thread may fail, with Cancel once the session has a failure  *)
(*            of the host;                                                 *)
(*   deaths   one test run with a limit and Cancel, whose process may die  *)
(*            or be killed;                                                *)
(*   group    one test run whose root tp owns tc, with Cancel while the    *)
(*            root is observed, or one of the things that tc's frame and   *)
(*            its other callers may do.                                    *)
(* Tasks that a profile does not use have ended before.                    *)
(***************************************************************************)
EXTENDS TestRun, TLC

CONSTANTS tp, tq, tr, tc

VARIABLE profile          \* the kind of run, and the crowd's early waiter

MCVars == <<allVars, profile>>

CrowdOwner == (tp :> Main) @@ (tc :> tp) @@ (tq :> Main) @@ (tr :> Main)
CrowdJoins == {<<tq, tc>>, <<tr, tc>>}

Kind == profile.kind

Profiles ==
  {[kind |-> k, early |-> None] : k \in {"family", "race", "failures", "deaths", "group"}}
  \cup {[kind |-> "crowd", early |-> x] : x \in {tp, tq, tr}}

Used == CASE Kind \in {"family", "group"} -> {tp, tc}
          [] Kind = "crowd" -> Tasks
          [] OTHER -> {tp}

InUse(l) == (l[1] = Main \/ l[1] \in Used) /\ l[2] \in Used

Gone == [phase |-> "free", source_owner |-> FALSE, dispatching |-> FALSE,
         retiring |-> TRUE, retired |-> TRUE, references |-> 0]

Fresh(t) ==
  [Started(t) EXCEPT !.references =
     2 + Cardinality({l \in Links : l[2] = t /\ l[1] # Main /\ InUse(l)})]

\* tp, tq and tr have registered with tc, in the order tq, tp, tr, while tc
\* runs its frame.
Joined(previous, next) ==
  [target |-> tc, retirement |-> FALSE, previous |-> previous, next |-> next]

CrowdInit ==
  /\ cell = [t \in Tasks |->
       IF t = tc THEN [Fresh(tc) EXCEPT !.references = @ + 4, !.phase = "Executing",
                                        !.dispatching = TRUE]
       ELSE [Fresh(t) EXCEPT !.references = @ + 1]]
  /\ waits = (tr :> Joined(None, tp)) @@ (tp :> Joined(tr, tq)) @@ (tq :> Joined(tp, None))
             @@ (tc :> None)
  /\ heads = [t \in Tasks |-> [k \in BOOLEAN |-> IF t = tc /\ ~k THEN tr ELSE None]]
  /\ sched = [t \in Tasks |-> IF t = tc THEN "running" ELSE "idle"]
  /\ driver = [t \in Tasks |->
       IF t = tc THEN [Idle EXCEPT !.pc = "frame"]
       ELSE [Idle EXCEPT !.at = tc, !.then = "wait"]]

UsualInit ==
  /\ cell = [t \in Tasks |-> IF t \in Used THEN Fresh(t) ELSE Gone]
  /\ waits = [t \in Tasks |-> None]
  /\ heads = [t \in Tasks |-> [k \in BOOLEAN |-> None]]
  /\ sched = [t \in Tasks |-> IF t \in Used THEN "ready" ELSE "off"]
  /\ driver = [t \in Tasks |-> Idle]

Runs == {"race", "failures", "deaths", "group"}

SessionInit ==
  IF Kind \in Runs
  THEN RunInit(Kind # "group")
  ELSE /\ host = [alive |-> FALSE, failed |-> FALSE, lost |-> FALSE, ended |-> "none",
                  main |-> "exit", file |-> "none"]
       /\ session = [limited |-> FALSE, outcome |-> "none", suppressed |-> {},
                     capture_failed |-> FALSE]
       /\ command = [pipe |-> "none", requested |-> FALSE, handle |-> FALSE,
                     listener |-> "read"]
       /\ source = "none"
       /\ timer = [armed |-> FALSE, elapsed |-> FALSE, stopping |-> FALSE, worker |-> "none"]
       /\ request = [th \in Threads |-> "idle"]
       /\ runner = [pc |-> "reported", due |-> FALSE, report |-> "Missing"]
       /\ asked = {} /\ seen = {}

MCInit ==
  /\ profile \in Profiles
  /\ IF Kind = "crowd" THEN CrowdInit ELSE UsualInit
  /\ word = [t \in Tasks |-> [requested |-> FALSE, terminal |-> t \notin Used, shields |-> 0]]
  /\ pending = {} /\ parked = {} /\ native = Used /\ dying = {}
  /\ event = [closed |-> FALSE, waiters |-> {}]
  /\ views = [l \in Links |-> IF InUse(l) THEN "pending" ELSE "done"]
  /\ calls = {} /\ delivered = {} /\ aborted = FALSE /\ surprised = {}
  /\ budget = [stimuli |-> 0, defers |-> 0]
  /\ SessionInit

\* Outside of failures the session is told of no failure and no wait of the
\* main thread fails, outside of deaths the process fails at most when it
\* shuts down.
Faults ==
  /\ Kind # "failures" =>
       /\ session'.outcome \notin Failures
       /\ ~session'.capture_failed /\ ~host'.lost
       /\ host'.ended \notin {"PANICKED", "RUNTIME_FAILURE"}
       /\ host.main = "retire" /\ host'.main # "retire" => views'[<<Main, Root>>] = "done"
  /\ Kind # "deaths" /\ host'.failed => host.failed \/ host.main = "shutdown"

Unused == budget = [stimuli |-> 0, defers |-> 0] /\ ~event.closed

CrowdAdvance ==
  \/ \E t \in {tc, tp, profile.early} : Dispatch(t)
  \/ \E t \in Tasks : Reclaim(t) \/ Calls(t)

MCProgress ==
  /\ \/ Kind = "family" /\ (Close \/ \E t \in Used : Advance(t)) /\ UNCHANGED runVars
     \/ Kind = "crowd" /\ CrowdAdvance /\ UNCHANGED runVars
     \/ Kind \in Runs /\ Progress /\ Faults
  /\ UNCHANGED profile

MCNext ==
  \/ MCProgress
  \/ /\ \/ /\ Kind = "family"
           /\ \E t \in Used : Choice(t) \/ Stimulus(t)
           /\ UNCHANGED runVars
        \/ Kind = "crowd" /\ Stimulus(profile.early) /\ UNCHANGED runVars
        \/ Kind = "race" /\ (RootChoice \/ OwnRequest \/ Elapse \/ SendCancel)
           /\ budget'.defers = 0
        \/ Kind = "failures" /\ SendCancel /\ session.outcome = "Host"
        \/ Kind = "deaths" /\ SendCancel
        \/ Kind = "group" /\ SendCancel /\ Unused /\ host.main = "observe"
        \/ Kind = "group" /\ FamilyChoice /\ Unused /\ command.pipe = "none"
        \/ Kind = "deaths" /\ (Due \/ Crash)
     /\ UNCHANGED profile

MCSpec == MCInit /\ [][MCNext]_MCVars /\ WF_MCVars(MCProgress)

(* Every task of a family ends: it finishes, is observed, retired and      *)
(* destroyed, its last reference is released and its slot is freed, and it *)
(* stays so (execution.rs drive_ready; delivery.bray; retirement.bray).    *)
FamilyEnds == <>[](Kind = "family" => \A t \in Tasks : cell[t].phase = "free")
=============================================================================

------------------------------ MODULE TestRun ------------------------------
(***************************************************************************)
(* One test invocation, from both ends: Tack's runner, which starts the    *)
(* test host process, may send it Cancel and may kill it; and in the host  *)
(* the session on the main thread, the listener thread reading Cancel, the *)
(* worker of the timeout scheduler, and the root task of the test, which   *)
(* is TaskControl's.  Cancel and timeout reach the root through clones of  *)
(* one RootCancellationHandle.                                             *)
(***************************************************************************)
EXTENDS TaskControl

CONSTANT Root             \* the task that runs the test entry
ASSUME RootAssumption == Root \in Tasks /\ Owner[Root] = Main /\ Main \notin Tasks

VARIABLES
  host,       \* the host process: its main thread and its result file
  session,    \* NativeTestSession: outcome, suppressed, capture_failed
  command,    \* CommandCancellation and the pipe that feeds its listener
  source,     \* the atomic source of the root's handle
  timer,      \* RunTimeoutScheduler: registration, stopping, worker
  request,    \* how far each thread is in request_with_source
  runner,     \* run_host_process
  asked,      \* history: who has asked for cancellation
  seen        \* history: failures the session was told of

process == <<host, session, command, source, timer, request, seen>>
runVars == <<process, runner, asked>>
allVars == <<vars, runVars>>

Threads == {"main", "listener", "worker"}
Failures == {"Host", "Panic", "Error", "Protocol", "Cleanup"}
Cancels == {"TimedOut", "Command", "Invocation"}
Outcomes == {"none", "Passed"} \cup Failures \cup Cancels
Reports == Outcomes \cup {"Capture", "Missing", "Forced"}

(* ended is how the root's frame ended; lost says that the main thread     *)
(* gave up waiting for it.                                                 *)
HostState ==
  [alive : BOOLEAN, failed : BOOLEAN, lost : BOOLEAN,
   ended : {"none", "COMPLETED", "CANCELLED", "PANICKED", "RUNTIME_FAILURE"},
   main : {"register", "arm", "observe", "record", "report", "retire", "incidents",
           "shutdown", "create", "write", "drop", "join", "exit"},
   file : {"none", "empty", "partial", "complete"}]
SessionState ==
  [limited : BOOLEAN, outcome : Outcomes, suppressed : SUBSET Outcomes,
   capture_failed : BOOLEAN]
CommandState ==
  [pipe : {"none", "sent", "read"}, requested : BOOLEAN, handle : BOOLEAN,
   listener : {"read", "lock"}]
TimerState ==
  [armed : BOOLEAN, elapsed : BOOLEAN, stopping : BOOLEAN,
   worker : {"none", "look", "asleep", "gone"}]
RunnerState == [pc : {"poll", "checked", "reported"}, due : BOOLEAN, report : Reports]
RequestStates == {"idle", "source", "word", "wake"}

RunTypeOK ==
  /\ host \in HostState
  /\ session \in SessionState
  /\ command \in CommandState
  /\ source \in {"none", "Timeout", "Explicit"}
  /\ timer \in TimerState
  /\ request \in [Threads -> RequestStates]
  /\ runner \in RunnerState
  /\ asked \subseteq Cancels /\ seen \subseteq Outcomes

(* The host has read its command, started the listener and the root.       *)
RunInit(limited) ==
  /\ host = [alive |-> TRUE, failed |-> FALSE, lost |-> FALSE, ended |-> "none",
             main |-> "register", file |-> "none"]
  /\ session = [limited |-> limited, outcome |-> "none", suppressed |-> {},
                capture_failed |-> FALSE]
  /\ command = [pipe |-> "none", requested |-> FALSE, handle |-> FALSE,
                listener |-> "read"]
  /\ source = "none"
  /\ timer = [armed |-> FALSE, elapsed |-> FALSE, stopping |-> FALSE, worker |-> "none"]
  /\ request = [th \in Threads |-> "idle"]
  /\ runner = [pc |-> "poll", due |-> FALSE, report |-> "none"]
  /\ asked = {} /\ seen = {}
-----------------------------------------------------------------------------
(* request_with_source: the first source is kept, and only then does the   *)
(* root's cancellation word change; the thread returns once the wake it    *)
(* owes is delivered.                                                      *)
CauseLost(th) == "Explicit"      \* mutant: a timeout asks as a command does
Cause(th) == IF th = "worker" THEN "Timeout" ELSE "Explicit"

RequestSource(th) ==
  /\ host.alive /\ request[th] = "source"
  /\ source' = IF source = "none" THEN Cause(th) ELSE source
  /\ request' = [request EXCEPT ![th] = "word"]
  /\ UNCHANGED <<vars, host, session, command, timer, runner, asked, seen>>

RequestWord(th) ==
  /\ host.alive /\ request[th] = "word"
  /\ word' = Requested(Root)
  /\ calls' = IF OwesWake(Root) THEN calls \cup {<<Root, "cancel">>} ELSE calls
  /\ request' = [request EXCEPT ![th] = IF OwesWake(Root) THEN "wake" ELSE "idle"]
  /\ UNCHANGED <<Rest, event, aborted, surprised, budget, wakes>>
  /\ UNCHANGED <<host, session, command, source, timer, runner, asked, seen>>

RequestReturn(th) ==
  /\ host.alive /\ request[th] = "wake" /\ <<Root, "cancel">> \notin calls
  /\ request' = [request EXCEPT ![th] = "idle"]
  /\ UNCHANGED <<vars, host, session, command, source, timer, runner, asked, seen>>
-----------------------------------------------------------------------------
(* The session on the main thread.                                         *)

On(pc) == host.alive /\ host.main = pc /\ request["main"] = "idle"
Step(pc) == host' = [host EXCEPT !.main = pc]

(* Mutant: a Cancel that came before the handle is not looked for.         *)
RegisterHandleBlind ==
  /\ On("register")
  /\ command' = [command EXCEPT !.handle = TRUE]
  /\ Step("arm")
  /\ UNCHANGED <<vars, session, source, timer, request, runner, asked, seen>>

(* register_timeout: the handle is stored and the request flag read under  *)
(* the lock of CommandCancellation, which is held over the request.        *)
RegisterHandle ==
  /\ On("register")
  /\ command' = [command EXCEPT !.handle = TRUE]
  /\ request' = [request EXCEPT !["main"] = IF command.requested THEN "source" ELSE @]
  /\ Step("arm")
  /\ UNCHANGED <<vars, session, source, timer, runner, asked, seen>>

(* With a limit the timeout service is started and the deadline entered;   *)
(* either may fail, and no worker is left behind.                          *)
Arm ==
  /\ On("arm")
  /\ Step("observe")
  /\ \/ /\ ~session.limited
        /\ UNCHANGED <<session, timer, seen>>
     \/ /\ session.limited
        /\ timer' = [timer EXCEPT !.armed = TRUE, !.worker = "look"]
        /\ UNCHANGED <<session, seen>>
     \/ /\ session.limited
        /\ session' = [session EXCEPT !.outcome = "Host"]
        /\ seen' = seen \cup {"Host"}
        /\ UNCHANGED timer
  /\ UNCHANGED <<vars, command, source, request, runner, asked>>

(* resolve_task, as observe_root calls it: the outcome of a terminal root, *)
(* or a runtime failure when wait_main_thread fails while it is pending.   *)
ObserveRoot ==
  /\ On("observe")
  /\ \/ MainObserve(Root) /\ Step("record")
     \/ /\ cell[Root].phase # "Terminal"
        /\ host' = [host EXCEPT !.main = "record", !.lost = TRUE]
        /\ UNCHANGED vars
  /\ UNCHANGED <<session, command, source, timer, request, runner, asked, seen>>

(* Mutant: a failure after the first is forgotten.                         *)
ObservingFirst(kind) ==
  /\ seen' = seen \cup {kind}
  /\ IF session.outcome \in {"none", "Passed"}
     THEN session' = [session EXCEPT !.outcome = kind]
     ELSE UNCHANGED session

(* NativeTestSession::observe: the first failure is the outcome, the next  *)
(* ones are suppressed, and one that cannot be stored is a capture failure.*)
Observing(kind) ==
  /\ seen' = seen \cup {kind}
  /\ IF session.outcome \in {"none", "Passed"}
     THEN session' = [session EXCEPT !.outcome = kind]
     ELSE session' \in {[session EXCEPT !.suppressed = @ \cup {kind}],
                        [session EXCEPT !.capture_failed = TRUE]}

cancellation_outcome ==
  CASE source = "Timeout" -> "TimedOut"
    [] source = "Explicit" /\ command.requested -> "Command"
    [] OTHER -> "Invocation"

(* record_outcome, after the root's terminal observation.                  *)
Observed == IF host.lost THEN "RUNTIME_FAILURE" ELSE host.ended

RecordOutcome ==
  /\ On("record")
  /\ CASE Observed = "COMPLETED" ->
            /\ session' = [session EXCEPT !.outcome = IF @ = "none" THEN "Passed" ELSE @]
            /\ UNCHANGED seen
       [] Observed = "CANCELLED" ->
            /\ seen' = seen \cup {cancellation_outcome}
            /\ LET cancelled == [session EXCEPT !.outcome = cancellation_outcome] IN
               IF session.outcome \in {"none", "Passed"} THEN session' = cancelled
               ELSE session' \in
                      {[cancelled EXCEPT !.suppressed = @ \cup {session.outcome}],
                       [cancelled EXCEPT !.capture_failed = TRUE]}
       [] Observed = "PANICKED" -> UNCHANGED <<session, seen>>
       [] Observed = "RUNTIME_FAILURE" -> Observing("Host")
  /\ Step("report")
  /\ UNCHANGED <<vars, command, source, timer, request, runner, asked>>

(* record_report: a panic, which may be too large to keep, or a returned   *)
(* error, for which the command may name no type (record_returned_error);  *)
(* record_cleanup_failure, for incidents left at the end.                  *)
Report ==
  /\ On("report")
  /\ Step("retire")
  /\ \/ Observed # "PANICKED" /\ UNCHANGED <<session, seen>>
     \/ Observed = "PANICKED" /\ Observing("Panic")
     \/ Observed = "COMPLETED" /\ \E kind \in {"Error", "Protocol"} : Observing(kind)
     \/ /\ Observed = "PANICKED"
        /\ session' = [session EXCEPT !.capture_failed = TRUE]
        /\ UNCHANGED seen
  /\ UNCHANGED <<vars, command, source, timer, request, runner, asked>>

(* resolve_root_completion, whose status the generated host ignores: when  *)
(* wait_main_thread fails, a root that is not retired is left registered.  *)
RetireRoot ==
  /\ On("retire")
  /\ \/ MainRetire(Root) /\ UNCHANGED host
     \/ MainDestroy(Root) /\ Step("incidents")
     \/ ~cell[Root].retired /\ MainRetire(Root) /\ Step("incidents")
  /\ UNCHANGED <<session, command, source, timer, request, runner, asked, seen>>

Incidents ==
  /\ On("incidents")
  /\ Step("shutdown")
  /\ \/ UNCHANGED <<session, seen>>
     \/ Observing("Cleanup")
  /\ UNCHANGED <<vars, command, source, timer, request, runner, asked>>

(* execution_shutdown joins the workers and asserts that no task is left;  *)
(* a failed assertion is contained, finish is not reached and the process  *)
(* exits with a failure.  Whether exit drops the session depends on the    *)
(* platform.                                                               *)
Stopped == {"create", "write", "drop", "join", "exit"}

Shutdown ==
  /\ On("shutdown")
  /\ \A t \in Tasks : At(t, "none") /\ <<t, "yield">> \notin calls
  /\ IF \A t \in Tasks : sched[t] = "off" THEN Step("create")
     ELSE \E pc \in {"drop", "exit"} : host' = [host EXCEPT !.main = pc, !.failed = TRUE]
  /\ UNCHANGED <<vars, session, command, source, timer, request, runner, asked, seen>>

(* finish and write_result: the file is created and written, or neither.   *)
CreateFile ==
  /\ On("create")
  /\ \/ host' = [host EXCEPT !.main = "write", !.file = "empty"]
     \/ host' = [host EXCEPT !.main = "drop", !.failed = TRUE]
  /\ UNCHANGED <<vars, session, command, source, timer, request, runner, asked, seen>>

WriteFile ==
  /\ On("write")
  /\ \/ host' = [host EXCEPT !.main = "drop", !.file = "complete"]
     \/ \E torn \in {"empty", "partial"} :
          host' = [host EXCEPT !.main = "drop", !.file = torn, !.failed = TRUE]
  /\ UNCHANGED <<vars, session, command, source, timer, request, runner, asked, seen>>

(* The session is dropped: the timeout service is told to stop, loses its  *)
(* registrations, is woken and then joined.                                *)
Awake(worker) == IF worker = "asleep" THEN "look" ELSE worker

DropTimeouts ==
  /\ On("drop")
  /\ timer' = [timer EXCEPT !.stopping = TRUE, !.armed = FALSE, !.worker = Awake(@)]
  /\ Step(IF timer.worker = "none" THEN "exit" ELSE "join")
  /\ UNCHANGED <<vars, session, command, source, request, runner, asked, seen>>

JoinWorker ==
  /\ On("join") /\ timer.worker = "gone"
  /\ Step("exit")
  /\ UNCHANGED <<vars, session, command, source, timer, request, runner, asked, seen>>

Exit ==
  /\ On("exit")
  /\ host' = [host EXCEPT !.alive = FALSE]
  /\ UNCHANGED <<vars, session, command, source, timer, request, runner, asked, seen>>

Session ==
  \/ RegisterHandle \/ Arm \/ ObserveRoot \/ RecordOutcome \/ Report \/ RetireRoot
  \/ Incidents \/ Shutdown \/ CreateFile \/ WriteFile \/ DropTimeouts \/ JoinWorker \/ Exit
-----------------------------------------------------------------------------
(* run_timeout_worker.  Looking and going to sleep are one step under the  *)
(* lock; a sleeper is woken by a notification or at its deadline.          *)
Elapse ==
  /\ host.alive /\ timer.armed /\ ~timer.elapsed
  /\ timer' = [timer EXCEPT !.elapsed = TRUE, !.worker = Awake(@)]
  /\ UNCHANGED <<vars, host, session, command, source, request, runner, asked, seen>>

WorkerLook ==
  /\ host.alive /\ timer.worker = "look" /\ request["worker"] = "idle"
  /\ IF ~timer.stopping /\ timer.armed /\ timer.elapsed
     THEN /\ timer' = [timer EXCEPT !.armed = FALSE]
          /\ request' = [request EXCEPT !["worker"] = "source"]
          /\ asked' = asked \cup {"TimedOut"}
     ELSE /\ timer' = [timer EXCEPT !.worker = IF timer.stopping THEN "gone" ELSE "asleep"]
          /\ UNCHANGED <<request, asked>>
  /\ UNCHANGED <<vars, host, session, command, source, runner, seen>>

(* CommandCancellation::listen and request: the flag is raised, then the   *)
(* handle is copied under the lock, then used outside it.                  *)
ListenerRead ==
  /\ host.alive /\ command.listener = "read" /\ request["listener"] = "idle"
  /\ command.pipe = "sent"
  /\ command' = [command EXCEPT !.pipe = "read", !.requested = TRUE, !.listener = "lock"]
  /\ UNCHANGED <<vars, host, session, source, timer, request, runner, asked, seen>>

ListenerLock ==
  /\ host.alive /\ command.listener = "lock"
  /\ request["main"] = "idle"
  /\ command' = [command EXCEPT !.listener = "read"]
  /\ request' = [request EXCEPT !["listener"] = IF command.handle THEN "source" ELSE @]
  /\ UNCHANGED <<vars, host, session, source, timer, runner, asked, seen>>
-----------------------------------------------------------------------------
(* The root's dispatch.  A frame can end as cancelled only after it was    *)
(* told of a request.  The handle keeps the root's services alive: the     *)
(* listener, which ends with the process, always holds a copy of it.       *)
Ending ==
  IF At(Root, "frame") /\ driver'[Root].pc = "complete"
  THEN \E ended \in {"COMPLETED", "PANICKED", "RUNTIME_FAILURE"} \cup
                    (IF Root \in delivered THEN {"CANCELLED"} ELSE {}) :
         host' = [host EXCEPT !.ended = ended]
  ELSE UNCHANGED host

RootStep ==
  /\ host.alive
  /\ (host.main \notin Stopped /\ Dispatch(Root)) \/ Calls(Root)
  /\ Ending
  /\ UNCHANGED <<session, command, source, timer, request, runner, asked, seen>>

(* What the test's frame may do and need not.                              *)
RootChoice ==
  /\ host.alive /\ host.main \notin Stopped
  /\ Choice(Root)
  /\ UNCHANGED runVars

(* The other tasks of the test: what their workers owe them, and what      *)
(* their frames and other threads may do.                                  *)
FamilyStep ==
  /\ host.alive
  /\ \E t \in Tasks \ {Root} :
       (host.main \notin Stopped /\ Dispatch(t)) \/ Calls(t) \/ Reclaim(t)
  /\ UNCHANGED runVars

FamilyChoice ==
  /\ host.alive /\ host.main \notin Stopped
  /\ Close \/ \E t \in Tasks \ {Root} : Choice(t) \/ Stimulus(t)
  /\ UNCHANGED runVars

(* A request of the product's own, which names no source.                  *)
OwnRequest ==
  /\ host.alive
  /\ RequestCancellation(Root)
  /\ asked' = asked \cup {"Invocation"}
  /\ UNCHANGED <<process, runner>>

(* The process dies: an abort, or a fault of the product.  A result that   *)
(* is being written stays as far as it came.                               *)
Die(file) == host' = [host EXCEPT !.alive = FALSE, !.failed = TRUE, !.file = file]

Torn == IF host.main = "write" THEN {"empty", "partial", "complete"} ELSE {host.file}

Crash ==
  /\ host.alive
  /\ \E file \in Torn : Die(file)
  /\ UNCHANGED <<vars, session, command, source, timer, request, runner, asked, seen>>
-----------------------------------------------------------------------------
(* run_host_process and host_result.                                       *)

(* write_result's outcome: a capture failure hides any other, a session    *)
(* without outcome has missed it.                                          *)
Primary ==
  IF session.capture_failed THEN "Capture"
  ELSE IF session.outcome = "none" THEN "Missing" ELSE session.outcome

(* terminal_result, and infrastructure_result_after_exit for a host that   *)
(* failed and left no result that can be read.                             *)
Result ==
  IF host.file = "complete" THEN Primary
  ELSE IF host.failed THEN "Host"
  ELSE IF host.file = "partial" THEN "Protocol" ELSE "Missing"

(* A pass of the loop over a live host changes nothing unless a deadline   *)
(* has passed.                                                             *)
TryWait ==
  /\ runner.pc = "poll"
  /\ host.alive => runner.due
  /\ runner' = IF host.alive THEN [runner EXCEPT !.pc = "checked"]
               ELSE [runner EXCEPT !.pc = "reported", !.report = Result]
  /\ UNCHANGED <<vars, process, asked>>

(* The command is cancelled: Cancel is written once, and the grace period  *)
(* begins.                                                                 *)
SendCancel ==
  /\ runner.pc = "poll" /\ host.alive /\ command.pipe = "none"
  /\ command' = [command EXCEPT !.pipe = "sent"]
  /\ asked' = asked \cup {"Command"}
  /\ UNCHANGED <<vars, host, session, source, timer, request, runner, seen>>

(* A deadline of the runner passes.  Its clock started before the host's,  *)
(* so nothing orders it with the host's own timeout.                       *)
Due ==
  /\ runner.pc = "poll" /\ host.alive /\ ~runner.due
  /\ session.limited \/ command.pipe # "none"
  /\ runner' = [runner EXCEPT !.due = TRUE]
  /\ UNCHANGED <<vars, process, asked>>

(* force_terminate: also when the host has ended since it was last polled. *)
ForceTerminate ==
  /\ runner.pc = "checked"
  /\ runner' = [runner EXCEPT !.pc = "reported", !.report = "Forced"]
  /\ IF host.alive THEN \E file \in Torn : Die(file) ELSE UNCHANGED host
  /\ UNCHANGED <<vars, session, command, source, timer, request, asked, seen>>

Poll == TryWait \/ ForceTerminate

Requests(th) == RequestSource(th) \/ RequestWord(th) \/ RequestReturn(th)
Listener == ListenerRead \/ ListenerLock

(* Something goes on while anything can: weaker than fairness of each      *)
(* thread of the host and of the runner's loop, so what holds under it     *)
(* holds under that.  Nothing says when a deadline passes or a command is  *)
(* cancelled, and a test need not end.                                     *)
Progress ==
  \/ Poll \/ Session \/ WorkerLook \/ Listener
  \/ \E th \in Threads : Requests(th)
  \/ RootStep \/ FamilyStep

RunNext ==
  \/ Progress
  \/ RootChoice \/ FamilyChoice \/ OwnRequest \/ Elapse \/ Crash \/ SendCancel \/ Due

RunFairness == WF_allVars(Progress)

RunSpec ==
  /\ Init /\ \E limited \in BOOLEAN : RunInit(limited)
  /\ [][RunNext]_allVars
  /\ RunFairness
-----------------------------------------------------------------------------
(* What is reported happened.  A timeout is reported only after the        *)
(* deadline, a cancelled command only after Cancel was sent, a             *)
(* cancellation of the invocation's own only after it asked itself: the    *)
(* source is known before the root can see the request (root.rs            *)
(* request_with_source, session.rs cancellation_outcome).  A test outcome  *)
(* is reported only after its root was retired and destroyed, and a passed *)
(* one only for a root that completed and a session told of no failure     *)
(* (docs/design/testing.md, "Invocation and cleanup").                     *)
OutcomeTruthful ==
  /\ session.outcome \in Cancels => session.outcome \in asked
  /\ runner.report \in Cancels => runner.report \in asked
  /\ runner.report \in Cancels \cup {"Passed", "Panic", "Error"} =>
       cell[Root].retired /\ ~cell[Root].source_owner
  /\ runner.report = "Passed" => host.ended = "COMPLETED" /\ seen = {}

(* No failure is masked: what the session was told of is its outcome or    *)
(* among the suppressed ones, or the result says that capture failed       *)
(* (session.rs observe, record_outcome, write_result).                     *)
NothingMasked ==
  /\ RunTypeOK
  /\ session.capture_failed \/ seen \subseteq {session.outcome} \cup session.suppressed

(* In the end requests have arrived and invocations are reported.  Once    *)
(* the listener has read Cancel, or the worker has taken an expired        *)
(* deadline, the root is asked to cancel, unless it is over or its process *)
(* gone: neither a handle registered at the same time nor a lock in        *)
(* between loses the request (session.rs register, request; timeout.rs     *)
(* run_timeout_worker).  When the root is over the host writes its result, *)
(* joins its worker and exits, and when the host is gone or a deadline of  *)
(* the runner has passed, the runner returns (host.rs run_host_process).   *)
(* Every one of these facts stays true once it is.  A live host that has   *)
(* lost its root is excepted: nobody resolves that root any more, and      *)
(* resolve_task_retirement asks for its retirement again and again.        *)
RunSettles ==
  <>[](/\ ~host.lost /\ (command.requested \/ "TimedOut" \in asked)
            => word[Root].requested \/ word[Root].terminal \/ ~host.alive
       /\ ~host.alive \/ (~host.lost /\ (Over(Root) \/ runner.due))
            => runner.pc = "reported")
=============================================================================

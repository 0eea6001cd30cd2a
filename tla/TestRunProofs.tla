---------------------------- MODULE TestRunProofs ----------------------------
(***************************************************************************)
(* What a test run reports, for any family of tasks and any bounds: the    *)
(* outcome is what happened (OutcomeTruthful) and no failure is masked     *)
(* (NothingMasked).  The first half is about the tasks: what a step of the *)
(* root, and what a step of another task, can do to the parts of the root  *)
(* that the session looks at.                                              *)
(***************************************************************************)
EXTENDS TestRun, TLAPS

(* The root's cell, word and driver are records with the fields read here. *)
Shape ==
  /\ Root \in DOMAIN cell
  /\ {"phase", "source_owner", "retired"} \subseteq DOMAIN cell[Root]
  /\ Root \in DOMAIN word /\ "requested" \in DOMAIN word[Root]
  /\ Root \in DOMAIN driver /\ "pc" \in DOMAIN driver[Root]
  /\ <<Main, Root>> \in DOMAIN views

(* The root's driver is inside its frame.                                  *)
FramePcs == {"frame", "wait", "joined", "wakechild", "unregister", "cancelwake",
             "suspend", "complete"}
FrameExecutes == driver[Root].pc \in FramePcs => cell[Root].phase = "Executing"

(* The root is known to the scheduler until the main thread destroys it:   *)
(* a frame takes only children from the scheduler.                         *)
Listed ==
  /\ Root \in DOMAIN sched
  /\ DOMAIN driver = Tasks
  /\ \A t \in Tasks : /\ {"pc", "at"} \subseteq DOMAIN driver[t]
                      /\ driver[t].pc = "unregister" => driver[t].at # Root

(* What a step of a task may do to what the session reads of the root.     *)
RootMoves ==
  /\ Shape' /\ FrameExecutes'
  /\ cell[Root].retired => cell'[Root].retired
  /\ ~cell[Root].source_owner => ~cell'[Root].source_owner
  /\ cell[Root].phase = "Resolved" => cell'[Root].phase = "Resolved"
  /\ cell'[Root].phase \in {"Terminal", "Resolved"} =>
       cell[Root].phase \in {"Terminal", "Resolved"} \/ driver[Root].pc = "complete"
  /\ driver'[Root].pc = "complete" => driver[Root].pc \in {"frame", "complete"}
  /\ views'[<<Main, Root>>] = views[<<Main, Root>>]
  /\ word'[Root].requested = word[Root].requested
  /\ Root \in delivered' => Root \in delivered \/ word[Root].requested
  /\ Root \in delivered => Root \in delivered'

(* No task owns the root, and none is the main thread.                     *)
LEMMA NotItself == Root # Main /\ ~Owned(Root, Root)
  BY RootAssumption, Zenon DEF Owned

LEMMA Unowned ==
  ASSUME NEW t \in Tasks
  PROVE  t # Main /\ ~Owned(t, Root)
  BY RootAssumption, Zenon DEF Owned

(* A step that leaves the root's cell, word, view and history alone and    *)
(* keeps its driver in or out of the frame.                                *)
LEMMA RootStays ==
  ASSUME Shape, FrameExecutes, cell'[Root] = cell[Root], word'[Root] = word[Root],
         Root \in DOMAIN cell', Root \in DOMAIN word', <<Main, Root>> \in DOMAIN views',
         Root \in DOMAIN driver', "pc" \in DOMAIN driver'[Root],
         driver'[Root].pc \in FramePcs => driver[Root].pc \in FramePcs,
         driver'[Root].pc = "complete" => driver[Root].pc \in {"frame", "complete"},
         views'[<<Main, Root>>] = views[<<Main, Root>>],
         delivered' = delivered
  PROVE  RootMoves
  BY Zenon DEF RootMoves, Shape, FrameExecutes

-----------------------------------------------------------------------------
LEMMA BeforeFrame ==
  ASSUME Shape, FrameExecutes, Take(Root) \/ Drive(Root) \/ GiveBack(Root) \/ Register(Root)
                               \/ TakeWaiters(Root) \/ Pop(Root) \/ WakeWaiter(Root)
  PROVE  RootMoves
<1>1. UNCHANGED <<cell, word, views, delivered>>
  BY Zenon DEF Take, Drive, GiveBack, Register, TakeWaiters, Pop, WakeWaiter, others
<1>2. /\ Root \in DOMAIN driver' /\ "pc" \in DOMAIN driver'[Root]
      /\ driver'[Root].pc \in {"drive", "giveback", "withdraw", "none", "pop", "end", "wake",
                               "release"}
  BY DEF Shape, Take, Drive, GiveBack, Register, TakeWaiters, Pop, WakeWaiter, Go, Idle, At,
         Popping, Abort
<1> QED BY <1>1, <1>2, RootStays, Zenon DEF Shape, FramePcs

(* The root's cell with another number of references, or other claims.     *)
LEMMA CellStays ==
  ASSUME Shape, FrameExecutes, Root \in DOMAIN cell',
         {"phase", "source_owner", "retired"} \subseteq DOMAIN cell'[Root],
         cell'[Root].phase = cell[Root].phase,
         cell[Root].retired => cell'[Root].retired,
         ~cell[Root].source_owner => ~cell'[Root].source_owner,
         UNCHANGED <<word, delivered>>,
         <<Main, Root>> \in DOMAIN views', views'[<<Main, Root>>] = views[<<Main, Root>>],
         Root \in DOMAIN driver', "pc" \in DOMAIN driver'[Root],
         driver'[Root].pc \in FramePcs => driver[Root].pc \in FramePcs,
         driver'[Root].pc = "complete" => driver[Root].pc \in {"frame", "complete"}
  PROVE  RootMoves
  BY Zenon DEF RootMoves, Shape, FrameExecutes

LEMMA ReleasedCell ==
  ASSUME Shape, NEW drops, cell' = Release(drops)
  PROVE  /\ Root \in DOMAIN cell'
         /\ {"phase", "source_owner", "retired"} \subseteq DOMAIN cell'[Root]
         /\ cell'[Root].phase = cell[Root].phase
         /\ cell'[Root].retired = cell[Root].retired
         /\ cell'[Root].source_owner = cell[Root].source_owner
  BY RootAssumption, Zenon DEF Shape, Release

LEMMA WithdrawMoves ==
  ASSUME Shape, FrameExecutes, Withdraw(Root)
  PROVE  RootMoves
<1>1. UNCHANGED <<word, views, delivered>>
  BY Zenon DEF Withdraw, others
<1>2. /\ Root \in DOMAIN driver' /\ "pc" \in DOMAIN driver'[Root]
      /\ driver'[Root].pc \in {"begin", "giveback"}
  BY Zenon DEF Shape, Withdraw, Go
<1>3. cell' = cell \/ \E drops : cell' = Release(drops)
  BY Zenon DEF Withdraw
<1> QED BY <1>1, <1>2, <1>3, ReleasedCell, CellStays, Zenon DEF Shape, FramePcs

LEMMA BeginMoves ==
  ASSUME Shape, FrameExecutes, Begin(Root)
  PROVE  RootMoves
<1>1. UNCHANGED <<word, views>>
  BY Zenon DEF Begin
<1>2. CASE cell' = cell /\ delivered' = delivered /\ Go(Root, "giveback")
  BY <1>1, <1>2, RootStays, Zenon DEF Shape, FramePcs, Go
<1>3. CASE ~(cell[Root].dispatching \/ cell[Root].retired \/ cell[Root].references = 0)
  <2>1. /\ cell' = [cell EXCEPT ![Root].dispatching = TRUE, ![Root].references = @ + 1,
                                ![Root].phase = IF Over(Root) THEN @ ELSE "Executing"]
        /\ delivered' = IF ~Over(Root) /\ observable(Root) THEN delivered \cup {Root}
                        ELSE delivered
    BY <1>3, Zenon DEF Begin
  <2>2. /\ Root \in DOMAIN driver' /\ "pc" \in DOMAIN driver'[Root]
        /\ driver'[Root].pc \in {"retire", "end", "frame"}
        /\ Over(Root) => driver'[Root].pc # "frame"
    BY <1>3 DEF Begin, Shape, Go, Over
  <2>3. /\ Root \in DOMAIN cell'
        /\ {"phase", "source_owner", "retired"} \subseteq DOMAIN cell'[Root]
        /\ cell'[Root].phase = IF Over(Root) THEN cell[Root].phase ELSE "Executing"
        /\ cell'[Root].retired = cell[Root].retired
        /\ cell'[Root].source_owner = cell[Root].source_owner
    BY <2>1, Zenon DEF Shape
  <2>4. /\ Root \in delivered' => Root \in delivered \/ word[Root].requested
        /\ Root \in delivered => Root \in delivered'
    BY <2>1 DEF observable
  <2>5. FrameExecutes'
    BY <2>2, <2>3, Zenon DEF FrameExecutes, FramePcs
  <2> QED BY <1>1, <2>2, <2>3, <2>4, <2>5, Zenon DEF RootMoves, Shape, Over
<1> QED BY <1>2, <1>3, Zenon DEF Begin

LEMMA EndMoves ==
  ASSUME Shape, FrameExecutes,
         Suspend(Root) \/ End(Root) \/ Complete(Root) \/ Retire(Root) \/ ReleaseWait(Root)
  PROVE  RootMoves
<1>0. UNCHANGED <<views, delivered>>
  BY Zenon DEF Suspend, End, Complete, Retire, ReleaseWait, others
<1>1. CASE Suspend(Root)
  <2>1. cell[Root].phase = "Executing"
    BY <1>1, Zenon DEF Suspend, At, FrameExecutes, FramePcs
  <2>2. /\ Root \in DOMAIN cell'
        /\ {"phase", "source_owner", "retired"} \subseteq DOMAIN cell'[Root]
        /\ cell'[Root].phase = "Active"
        /\ cell'[Root].retired = cell[Root].retired
        /\ cell'[Root].source_owner = cell[Root].source_owner
    BY <1>1, Zenon DEF Suspend, Ended, Shape
  <2>3. /\ Root \in DOMAIN driver' /\ "pc" \in DOMAIN driver'[Root]
        /\ driver'[Root].pc \in {"register", "giveback"}
    BY <1>1, Zenon DEF Suspend, Go, Shape
  <2>4. word' = word
    BY <1>1, Zenon DEF Suspend
  <2> QED BY <1>0, <2>1, <2>2, <2>3, <2>4, Zenon DEF RootMoves, Shape, FrameExecutes, FramePcs
<1>2. CASE End(Root)
  <2>1. /\ Root \in DOMAIN cell'
        /\ {"phase", "source_owner", "retired"} \subseteq DOMAIN cell'[Root]
        /\ cell'[Root].phase = cell[Root].phase
        /\ cell'[Root].retired = cell[Root].retired
        /\ cell'[Root].source_owner = cell[Root].source_owner
    BY <1>2, Zenon DEF End, Ended, Shape
  <2>2. /\ Root \in DOMAIN driver' /\ "pc" \in DOMAIN driver'[Root]
        /\ driver'[Root].pc = "giveback" /\ word' = word
    BY <1>2, Zenon DEF End, Go, Shape
  <2> QED BY <1>0, <2>1, <2>2, CellStays, Zenon DEF Shape, FramePcs
<1>3. CASE Complete(Root)
  <2>1. cell[Root].phase = "Executing" /\ driver[Root].pc = "complete"
    BY <1>3, Zenon DEF Complete, At, FrameExecutes, FramePcs
  <2>2. /\ Root \in DOMAIN cell'
        /\ {"phase", "source_owner", "retired"} \subseteq DOMAIN cell'[Root]
        /\ cell'[Root].retired = cell[Root].retired
        /\ cell'[Root].source_owner = cell[Root].source_owner
    BY <1>3, Zenon DEF Complete, Shape
  <2>3. /\ Root \in DOMAIN driver' /\ "pc" \in DOMAIN driver'[Root]
        /\ driver'[Root].pc = "take"
    BY <1>3, Zenon DEF Complete, Go, Shape
  <2>4. /\ Root \in DOMAIN word' /\ "requested" \in DOMAIN word'[Root]
        /\ word'[Root].requested = word[Root].requested
    BY <1>3, Zenon DEF Complete, Shape
  <2> QED BY <1>0, <2>1, <2>2, <2>3, <2>4, Zenon DEF RootMoves, Shape, FrameExecutes, FramePcs
<1>4. CASE Retire(Root)
  <2>1. /\ Root \in DOMAIN cell'
        /\ {"phase", "source_owner", "retired"} \subseteq DOMAIN cell'[Root]
        /\ cell'[Root].phase = cell[Root].phase
        /\ cell'[Root].retired
        /\ cell'[Root].source_owner = cell[Root].source_owner
    BY <1>4, Zenon DEF Retire, Shape
  <2>2. /\ Root \in DOMAIN driver' /\ "pc" \in DOMAIN driver'[Root]
        /\ driver'[Root].pc = "take" /\ word' = word
    BY <1>4, Zenon DEF Retire, Shape
  <2> QED BY <1>0, <2>1, <2>2, CellStays, Zenon DEF Shape, FramePcs
<1>5. CASE ReleaseWait(Root)
  <2>1. \E drops : cell' = Release(drops)
    BY <1>5, Zenon DEF ReleaseWait, Dispose
  <2>2. /\ Root \in DOMAIN driver' /\ "pc" \in DOMAIN driver'[Root]
        /\ driver'[Root].pc \in {"end", "pop"} /\ word' = word
    BY <1>5, Zenon DEF ReleaseWait, Shape, Popping
  <2> QED BY <1>0, <2>1, <2>2, ReleasedCell, CellStays, Zenon DEF Shape, FramePcs
<1> QED BY <1>1, <1>2, <1>3, <1>4, <1>5, Zenon

LEMMA Goes ==
  ASSUME Shape, NEW pc, NEW c, Go(Root, pc) \/ GoAt(Root, pc, c)
  PROVE  Root \in DOMAIN driver' /\ "pc" \in DOMAIN driver'[Root] /\ driver'[Root].pc = pc
  BY Zenon DEF Shape, Go, GoAt

(* Steps of the frame that leave its cell alone.                           *)
LEMMA FrameStays ==
  ASSUME Shape, FrameExecutes,
         \/ WakeChild(Root) \/ Unregister(Root) \/ CancelWake(Root) \/ Finish(Root)
         \/ AwaitEvent(Root) \/ Yield(Root) \/ RetireDeferred(Root)
  PROVE  RootMoves
<1>1. UNCHANGED <<cell, word, views, delivered>>
  BY Zenon DEF WakeChild, Unregister, CancelWake, Finish, AwaitEvent, Yield, RetireDeferred, others
<1>2. /\ Root \in DOMAIN driver' /\ "pc" \in DOMAIN driver'[Root]
      /\ \/ driver[Root].pc \in FramePcs /\ driver'[Root].pc # "complete"
         \/ driver'[Root].pc \notin FramePcs
         \/ driver[Root].pc = "frame"
  BY DEF Shape, WakeChild, Unregister, CancelWake, Finish, AwaitEvent, Yield, RetireDeferred,
         Go, At, FramePcs
<1> QED BY <1>1, <1>2, RootStays, Zenon DEF Shape, FramePcs

(* The cancellation word: a request of a child, a shield.                  *)
LEMMA WordMoves ==
  ASSUME Shape, FrameExecutes,
         Enter(Root) \/ Leave(Root) \/ \E c \in Tasks : CancelChild(Root, c)
  PROVE  RootMoves
<1>1. UNCHANGED <<cell, views, delivered>>
  BY Zenon DEF Enter, Leave, CancelChild, others
<1>2. /\ Root \in DOMAIN driver' /\ "pc" \in DOMAIN driver'[Root]
      /\ driver'[Root].pc \in {"frame", "cancelwake"} /\ driver[Root].pc = "frame"
  <2>1. driver[Root].pc = "frame"
    BY Zenon DEF Enter, Leave, CancelChild, At
  <2>2. driver' = driver \/ \E c : GoAt(Root, "cancelwake", c)
    BY Zenon DEF Enter, Leave, CancelChild
  <2> QED BY <2>1, <2>2, Goes, Zenon DEF Shape
<1>3. /\ Root \in DOMAIN word' /\ "requested" \in DOMAIN word'[Root]
      /\ word'[Root].requested = word[Root].requested
  <2>1. CASE Enter(Root) \/ Leave(Root)
    BY <2>1, Zenon DEF Shape, Enter, Leave
  <2>2. ASSUME NEW c \in Tasks, CancelChild(Root, c)
        PROVE  /\ Root \in DOMAIN word' /\ word'[Root] = word[Root]
    BY <2>2, NotItself, Zenon DEF CancelChild, Requested, Shape
  <2> QED BY <2>1, <2>2, Zenon DEF Shape
<1> QED BY <1>1, <1>2, <1>3, Zenon DEF RootMoves, Shape, FrameExecutes, FramePcs

(* wait, of the end or of the retirement of c.                             *)
LEMMA WaitCell ==
  ASSUME Shape, NEW c, NEW retirement \in BOOLEAN, NEW answered, NEW registered,
         Wait(Root, c, retirement, answered, registered)
  PROVE  /\ Root \in DOMAIN cell'
         /\ {"phase", "source_owner", "retired"} \subseteq DOMAIN cell'[Root]
         /\ cell'[Root].phase = cell[Root].phase
         /\ cell'[Root].retired = cell[Root].retired
         /\ cell'[Root].source_owner = cell[Root].source_owner
         /\ Root \in DOMAIN driver' /\ "pc" \in DOMAIN driver'[Root]
         /\ driver'[Root].pc \in {answered, registered}
<1>1. /\ Root \in DOMAIN driver' /\ "pc" \in DOMAIN driver'[Root]
      /\ driver'[Root].pc \in {answered, registered}
  BY DEF Shape, Wait, GoAt
<1>2. CASE cell' = cell
  BY <1>1, <1>2, Zenon DEF Shape
<1>3. CASE Published(Root, c, retirement)
  <2> DEFINE asked_ == [cell EXCEPT ![c].retiring = @ \/ retirement]
  <2>1. /\ Root \in DOMAIN asked_
        /\ {"phase", "source_owner", "retired"} \subseteq DOMAIN asked_[Root]
        /\ asked_[Root].phase = cell[Root].phase
        /\ asked_[Root].retired = cell[Root].retired
        /\ asked_[Root].source_owner = cell[Root].source_owner
    BY Zenon DEF Shape
  <2>2. cell' = asked_ \/ cell' = [asked_ EXCEPT ![c].references = @ + 1,
                                                ![Root].references = @ + 1]
    BY <1>3, Zenon DEF Published
  <2> HIDE DEF asked_
  <2> QED BY <1>1, <2>1, <2>2
<1> QED BY <1>2, <1>3, Zenon DEF Wait

LEMMA WaitMoves ==
  ASSUME Shape, FrameExecutes,
         WaitTerminal(Root) \/ \E c \in Tasks : Join(Root, c) \/ AwaitRetirement(Root, c)
  PROVE  RootMoves
<1>1. driver[Root].pc \in FramePcs /\ UNCHANGED <<word, delivered>>
  BY Zenon DEF WaitTerminal, Join, AwaitRetirement, At, FramePcs, others
<1>2. \E c, retirement, answered, registered :
        /\ retirement \in BOOLEAN /\ answered # "complete" /\ registered # "complete"
        /\ Wait(Root, c, retirement, answered, registered)
  <2>1. WaitTerminal(Root) => Wait(Root, driver[Root].at, FALSE, "frame", "suspend")
    BY Zenon DEF WaitTerminal
  <2>2. \A c \in Tasks : Join(Root, c) => Wait(Root, c, FALSE, "joined", "suspend")
    BY Zenon DEF Join
  <2>3. \A c \in Tasks : AwaitRetirement(Root, c) => Wait(Root, c, TRUE, "frame", "wakechild")
    BY Zenon DEF AwaitRetirement
  <2> QED BY <2>1, <2>2, <2>3, Zenon
<1>3. <<Main, Root>> \in DOMAIN views' /\ views'[<<Main, Root>>] = views[<<Main, Root>>]
  BY NotItself, Zenon DEF Shape, WaitTerminal, Join, AwaitRetirement, others
<1> QED BY <1>1, <1>2, <1>3, WaitCell, CellStays

(* The cells of the root's children.                                       *)
LEMMA ChildMoves ==
  ASSUME Shape, FrameExecutes,
         DropReference(Root) \/ \E c \in Tasks : Observe(Root, c) \/ Destroy(Root, c)
  PROVE  RootMoves
<1>1. /\ UNCHANGED <<word, delivered>>
      /\ Root \in DOMAIN driver' /\ "pc" \in DOMAIN driver'[Root]
      /\ driver'[Root].pc \in {"frame", "wait", "unregister"} /\ driver[Root].pc \in FramePcs
  <2>1. UNCHANGED <<word, delivered>> /\ driver[Root].pc \in {"frame", "joined"}
    BY Zenon DEF DropReference, Observe, Destroy, At, others
  <2>2. \/ driver' = driver /\ driver[Root].pc = "frame"
        \/ Go(Root, "frame")
        \/ \E c : GoAt(Root, "wait", c) \/ GoAt(Root, "unregister", c)
    BY Zenon DEF DropReference, Observe, Destroy, At
  <2> QED BY <2>1, <2>2, Goes, Zenon DEF Shape, FramePcs
<1>2. <<Main, Root>> \in DOMAIN views' /\ views'[<<Main, Root>>] = views[<<Main, Root>>]
  BY NotItself, Zenon DEF Shape, DropReference, Observe, Destroy, others
<1>3. CASE DropReference(Root)
  <2>1. \E drops : cell' = Release(drops)
    BY <1>3, Zenon DEF DropReference, Dispose
  <2> QED BY <1>1, <1>2, <2>1, ReleasedCell, CellStays, Zenon
<1>4. ASSUME NEW c \in Tasks, Observe(Root, c) \/ Destroy(Root, c)
      PROVE  RootMoves
  <2>1. c # Root
    BY <1>4, NotItself, Zenon DEF Observe, Destroy
  <2>2. Root \in DOMAIN cell' /\ cell'[Root] = cell[Root]
    BY <1>4, <2>1, Zenon DEF Observe, Destroy, Shape
  <2> QED BY <1>1, <1>2, <2>2, RootStays, Zenon DEF Shape
<1> QED BY <1>3, <1>4, Zenon

LEMMA DispatchMoves ==
  ASSUME Shape, FrameExecutes, Dispatch(Root) \/ Calls(Root) \/ Choice(Root)
  PROVE  RootMoves
<1>1. CASE Calls(Root)
  BY <1>1, RootStays, Zenon DEF Calls, Deliver, Rest, Shape
<1>2. CASE Choice(Root)
  BY <1>2, FrameStays, WordMoves, Zenon DEF Choice
<1>3. CASE Frame(Root)
  BY <1>3, FrameStays, WordMoves, WaitMoves, ChildMoves, Zenon DEF Frame
<1>4. CASE Dispatch(Root) /\ ~Frame(Root)
  BY <1>4, BeforeFrame, WithdrawMoves, BeginMoves, EndMoves, Zenon DEF Dispatch
<1> QED BY <1>1, <1>2, <1>3, <1>4, Zenon

-----------------------------------------------------------------------------
(* Any task t, the root included.  Its step moves its own driver only, and *)
(* takes no task from the scheduler but its child.                         *)
Steered(t) ==
  /\ DOMAIN driver' = Tasks
  /\ \A u \in Tasks \ {t} : driver'[u] = driver[u]
  /\ {"pc", "at"} \subseteq DOMAIN driver'[t]
  /\ driver'[t].pc = "unregister" => driver'[t].at # Root

LEMMA DriverStays ==
  ASSUME Listed, NEW t \in Tasks, driver' = driver
  PROVE  Steered(t)
  BY Zenon DEF Listed, Steered

LEMMA DriverGoes ==
  ASSUME Listed, NEW t \in Tasks, NEW pc, pc # "unregister",
         Go(t, pc) \/ \E c : GoAt(t, pc, c)
  PROVE  Steered(t)
  BY Zenon DEF Listed, Steered, Go, GoAt

LEMMA OuterSteered ==
  ASSUME Listed, NEW t \in Tasks,
         \/ Take(t) \/ Drive(t) \/ Withdraw(t) \/ Begin(t)
         \/ Suspend(t) \/ Register(t) \/ Complete(t) \/ Retire(t)
         \/ TakeWaiters(t) \/ Pop(t) \/ WakeWaiter(t) \/ ReleaseWait(t)
         \/ End(t) \/ GiveBack(t)
  PROVE  Steered(t)
<1>1. CASE Take(t)
  BY <1>1, Zenon DEF Take, Idle, Listed, Steered
<1>2. CASE Drive(t)
  BY <1>2, Zenon DEF Drive, Go, Listed, Steered
<1>3. CASE Withdraw(t)
  BY <1>3 DEF Withdraw, Go, Listed, Steered
<1>4. CASE Begin(t)
  BY <1>4, Zenon DEF Begin, Go, Listed, Steered
<1>5. CASE Suspend(t) \/ Register(t) \/ Complete(t) \/ WakeWaiter(t) \/ End(t) \/ GiveBack(t)
  BY <1>5, Zenon DEF Suspend, Register, Complete, WakeWaiter, End, GiveBack, Go, Listed, Steered
<1>6. CASE Retire(t) \/ TakeWaiters(t) \/ ReleaseWait(t)
  BY <1>6 DEF Retire, TakeWaiters, ReleaseWait, Popping, Listed, Steered
<1>7. CASE Pop(t)
  BY <1>7 DEF Pop, Listed, Steered
<1> QED BY <1>1, <1>2, <1>3, <1>4, <1>5, <1>6, <1>7, Zenon

LEMMA FrameSteered ==
  ASSUME Listed, NEW t \in Tasks, Frame(t) \/ Choice(t)
  PROVE  Steered(t)
<1>1. CASE WakeChild(t) \/ Unregister(t) \/ DropReference(t) \/ CancelWake(t) \/ Finish(t)
  BY <1>1, DriverGoes, Zenon DEF WakeChild, Unregister, DropReference, CancelWake, Finish
<1>2. CASE Choice(t)
  BY <1>2, Zenon DEF Choice, Enter, AwaitEvent, Yield, RetireDeferred, Listed, Steered
<1>3. CASE Leave(t)
  BY <1>3, DriverStays, DriverGoes, Zenon DEF Leave
<1>4. ASSUME NEW c \in Tasks, Observe(t, c) \/ CancelChild(t, c)
      PROVE  Steered(t)
  BY <1>4, DriverStays, DriverGoes, Zenon DEF Observe, CancelChild
<1>5. ASSUME NEW c, NEW k, NEW to, NEW then, to # "unregister", then # "unregister",
             Wait(t, c, k, to, then)
      PROVE  Steered(t)
  BY <1>5 DEF Wait, GoAt, Listed, Steered
<1>6. ASSUME NEW c \in Tasks, Join(t, c) \/ AwaitRetirement(t, c)
      PROVE  Steered(t)
  BY <1>5, <1>6, Zenon DEF Join, AwaitRetirement
<1>7. CASE WaitTerminal(t)
  BY <1>5, <1>7, Zenon DEF WaitTerminal
<1>8. ASSUME NEW c \in Tasks, Destroy(t, c)
      PROVE  Steered(t)
  <2>1. c # Root /\ GoAt(t, "unregister", c)
    BY <1>8, Unowned, Zenon DEF Destroy
  <2> QED BY <2>1, Zenon DEF GoAt, Listed, Steered
<1> QED BY <1>1, <1>2, <1>3, <1>4, <1>6, <1>7, <1>8, Zenon DEF Frame

(* The root's registration.                                                *)
Registered == /\ Root \in DOMAIN sched'
              /\ sched'[Root] = "off" <=> sched[Root] = "off"

LEMMA WakeRegistered ==
  ASSUME Listed, NEW x, Wake(x) \/ NoWake
  PROVE  Registered
  BY Zenon DEF Listed, Wake, NoWake, Registered

LEMMA DispatchRegistered ==
  ASSUME Listed, NEW t \in Tasks, Dispatch(t) \/ Choice(t)
  PROVE  Registered
<1>1. CASE Take(t)
  BY <1>1, Zenon DEF Take, Listed, Registered
<1>2. CASE GiveBack(t)
  BY <1>2, Zenon DEF GiveBack, Listed, Registered
<1>3. CASE Unregister(t)
  BY <1>3, Zenon DEF Unregister, At, Listed, Registered
<1>4. CASE Register(t) \/ WakeWaiter(t) \/ WakeChild(t) \/ CancelWake(t)
  <2>1. NoWake \/ \E x : Wake(x)
    BY <1>4, Zenon DEF Register, WakeWaiter, WakeChild, CancelWake
  <2> QED BY <2>1, WakeRegistered, Zenon
<1>5. CASE \/ Drive(t) \/ Withdraw(t) \/ Begin(t) \/ Suspend(t) \/ Complete(t) \/ Retire(t)
           \/ TakeWaiters(t) \/ Pop(t) \/ ReleaseWait(t) \/ End(t)
  BY <1>5, Zenon DEF Drive, Withdraw, Begin, Suspend, Complete, Retire, TakeWaiters, Pop,
              ReleaseWait, End, wakes, Listed, Registered
<1>6. CASE WaitTerminal(t) \/ DropReference(t) \/ Finish(t) \/ Leave(t) \/ Choice(t)
  BY <1>6, Zenon DEF WaitTerminal, DropReference, Finish, Leave, Choice, Enter, AwaitEvent, Yield,
              RetireDeferred, wakes, Listed, Registered
<1>7. ASSUME NEW c \in Tasks,
             \/ Observe(t, c) \/ Join(t, c) \/ AwaitRetirement(t, c)
             \/ Destroy(t, c) \/ CancelChild(t, c)
      PROVE  Registered
  BY <1>7, Zenon DEF Observe, Join, AwaitRetirement, Destroy, CancelChild, wakes, Listed, Registered
<1> QED BY <1>1, <1>2, <1>3, <1>4, <1>5, <1>6, <1>7, Zenon DEF Dispatch, Frame

(* A step of t, or of a call on its behalf.                                *)
Acts(t) == Dispatch(t) \/ Choice(t) \/ Calls(t) \/ Reclaim(t) \/ Stimulus(t) \/ Close

LEMMA ListedStays ==
  ASSUME Listed, NEW t \in Tasks, Acts(t)
  PROVE  Steered(t) /\ Registered /\ Listed'
<1>1. Steered(t)
  <2>1. CASE Calls(t) \/ Reclaim(t) \/ Stimulus(t) \/ Close
    BY <2>1, DriverStays, Zenon DEF Calls, Deliver, Reclaim, DropNative, Recycle, Stimulus,
                             RequestCancellation, ExplicitWake, Close, Rest
  <2> QED BY <2>1, OuterSteered, FrameSteered, Zenon DEF Acts, Dispatch
<1>2. Registered
  <2>1. CASE Calls(t) \/ Stimulus(t)
    <3>1. UNCHANGED wakes \/ Wake(t)
      BY <2>1, Zenon DEF Calls, Deliver, Stimulus, RequestCancellation, ExplicitWake
    <3> QED BY <3>1, WakeRegistered, Zenon DEF wakes, Listed, Registered
  <2>2. CASE Reclaim(t) \/ Close
    BY <2>2, Zenon DEF Reclaim, DropNative, Recycle, Close, wakes, Listed, Registered
  <2> QED BY <2>1, <2>2, DispatchRegistered, Zenon DEF Acts
<1> QED BY <1>1, <1>2, Zenon DEF Listed, Steered, Registered

-----------------------------------------------------------------------------
(* A task t other than the root leaves alone what the session reads.       *)
CellKept ==
  /\ Root \in DOMAIN cell'
  /\ {"phase", "source_owner", "retired"} \subseteq DOMAIN cell'[Root]
  /\ cell'[Root].phase = cell[Root].phase
  /\ cell'[Root].retired = cell[Root].retired
  /\ cell'[Root].source_owner = cell[Root].source_owner

LEMMA OtherDispatchCell ==
  ASSUME Shape, NEW t \in Tasks, t # Root, Dispatch(t), ~Frame(t)
  PROVE  CellKept
<1>1. CASE \/ Take(t) \/ Drive(t) \/ Register(t) \/ TakeWaiters(t) \/ Pop(t)
           \/ WakeWaiter(t) \/ GiveBack(t)
  BY <1>1, Zenon DEF Take, Drive, Register, TakeWaiters, Pop, WakeWaiter, GiveBack, Shape, CellKept
<1>2. CASE Withdraw(t) \/ ReleaseWait(t)
  <2>1. cell' = cell \/ \E drops : cell' = Release(drops)
    BY <1>2, Zenon DEF Withdraw, ReleaseWait, Dispose
  <2> QED BY <2>1, ReleasedCell, Zenon DEF Shape, CellKept
<1>3. CASE Begin(t)
  BY <1>3, Zenon DEF Begin, Shape, CellKept
<1>4. CASE Suspend(t) \/ Complete(t) \/ Retire(t) \/ End(t)
  BY <1>4, Zenon DEF Suspend, Complete, Retire, End, Ended, Shape, CellKept
<1> QED BY <1>1, <1>2, <1>3, <1>4, Zenon DEF Dispatch

LEMMA OtherWaitCell ==
  ASSUME Shape, NEW t \in Tasks, t # Root, NEW c, NEW retirement \in BOOLEAN,
         NEW answered, NEW registered, Wait(t, c, retirement, answered, registered)
  PROVE  CellKept
<1>1. CASE cell' = cell
  BY <1>1, Zenon DEF Shape, CellKept
<1>2. CASE Published(t, c, retirement)
  <2> DEFINE asked_ == [cell EXCEPT ![c].retiring = @ \/ retirement]
  <2>1. /\ Root \in DOMAIN asked_
        /\ {"phase", "source_owner", "retired"} \subseteq DOMAIN asked_[Root]
        /\ asked_[Root].phase = cell[Root].phase
        /\ asked_[Root].retired = cell[Root].retired
        /\ asked_[Root].source_owner = cell[Root].source_owner
    BY Zenon DEF Shape
  <2>2. cell' = asked_ \/ cell' = [asked_ EXCEPT ![c].references = @ + 1,
                                                ![t].references = @ + 1]
    BY <1>2, Zenon DEF Published
  <2> HIDE DEF asked_
  <2> QED BY <2>1, <2>2 DEF CellKept
<1> QED BY <1>1, <1>2, Zenon DEF Wait

LEMMA OtherCell ==
  ASSUME Shape, NEW t \in Tasks, t # Root, Acts(t)
  PROVE  CellKept
<1>1. CASE \/ WakeChild(t) \/ Unregister(t) \/ CancelWake(t) \/ Finish(t) \/ Leave(t)
           \/ \E c \in Tasks : CancelChild(t, c)
  BY <1>1, Zenon DEF WakeChild, Unregister, CancelWake, Finish, Leave, CancelChild, Shape, CellKept
<1>2. CASE Choice(t) \/ Calls(t) \/ Stimulus(t) \/ Close
  BY <1>2, Zenon DEF Choice, Enter, AwaitEvent, Yield, RetireDeferred, Calls, Deliver, Stimulus,
              RequestCancellation, ExplicitWake, Close, Rest, Shape, CellKept
<1>3. CASE DropReference(t) \/ DropNative(t)
  <2>1. \E drops : cell' = Release(drops)
    BY <1>3, Zenon DEF DropReference, DropNative, Dispose
  <2> QED BY <2>1, ReleasedCell, Zenon DEF CellKept
<1>4. CASE Recycle(t)
  BY <1>4, Zenon DEF Recycle, Shape, CellKept
<1>5. ASSUME NEW c \in Tasks, Observe(t, c) \/ Destroy(t, c)
      PROVE  CellKept
  <2>1. c # Root
    BY <1>5, Unowned, Zenon DEF Observe, Destroy
  <2> QED BY <1>5, <2>1, Zenon DEF Observe, Destroy, Shape, CellKept
<1>6. ASSUME NEW c \in Tasks, Join(t, c) \/ AwaitRetirement(t, c)
      PROVE  CellKept
  BY <1>6, OtherWaitCell, Zenon DEF Join, AwaitRetirement
<1>7. CASE WaitTerminal(t)
  BY <1>7, OtherWaitCell, Zenon DEF WaitTerminal
<1> QED BY <1>1, <1>2, <1>3, <1>4, <1>5, <1>6, <1>7, OtherDispatchCell, Zenon
        DEF Acts, Dispatch, Frame, Reclaim

(* Its word, its view and its history.                                     *)
WordKept ==
  /\ Root \in DOMAIN word' /\ "requested" \in DOMAIN word'[Root]
  /\ word'[Root].requested = word[Root].requested

LEMMA OtherWord ==
  ASSUME Shape, NEW t \in Tasks, t # Root, Acts(t)
  PROVE  WordKept
<1>1. CASE word' = word
  BY <1>1, Zenon DEF Shape, WordKept
<1>2. CASE Complete(t) \/ Enter(t) \/ Leave(t)
  BY <1>2, Zenon DEF Complete, Enter, Leave, Shape, WordKept
<1>3. ASSUME NEW c, c # Root, word' = Requested(c)
      PROVE  WordKept
  BY <1>3, Zenon DEF Requested, Shape, WordKept
<1>4. CASE RequestCancellation(t)
  BY <1>3, <1>4, Zenon DEF RequestCancellation
<1>5. ASSUME NEW c \in Tasks, CancelChild(t, c)
      PROVE  WordKept
  BY <1>3, <1>5, Unowned, Zenon DEF CancelChild
<1>6. CASE Frame(t) /\ ~Leave(t) /\ ~\E c \in Tasks : CancelChild(t, c)
  <2>1. word' = word
    BY <1>6, Zenon DEF Frame, Observe, Join, AwaitRetirement, Destroy, WaitTerminal,
                       WakeChild, Unregister, DropReference, CancelWake, Finish
  <2> QED BY <1>1, <2>1, Zenon
<1>7. CASE Dispatch(t) /\ ~Frame(t) /\ ~Complete(t)
  <2>1. word' = word
    BY <1>7, Zenon DEF Dispatch, Take, Drive, Withdraw, Begin, Suspend, Register, Retire,
                       TakeWaiters, Pop, WakeWaiter, ReleaseWait, End, GiveBack
  <2> QED BY <1>1, <2>1, Zenon
<1>8. CASE \/ AwaitEvent(t) \/ Yield(t) \/ RetireDeferred(t) \/ Calls(t) \/ Reclaim(t)
           \/ ExplicitWake(t) \/ Close
  <2>1. word' = word
    BY <1>8, Zenon DEF AwaitEvent, Yield, RetireDeferred, Calls, Deliver, Reclaim, DropNative,
                       Recycle, ExplicitWake, Close
  <2> QED BY <1>1, <2>1, Zenon
<1> QED BY <1>2, <1>4, <1>5, <1>6, <1>7, <1>8, Zenon DEF Acts, Choice, Stimulus, Dispatch, Frame

ViewKept == /\ <<Main, Root>> \in DOMAIN views'
            /\ views'[<<Main, Root>>] = views[<<Main, Root>>]

LEMMA OtherView ==
  ASSUME Shape, NEW t \in Tasks, t # Root, Acts(t)
  PROVE  ViewKept /\ (Root \in delivered' <=> Root \in delivered)
<1>0. t # Main
  BY Unowned, Zenon
<1>1. CASE UNCHANGED <<views, delivered>>
  BY <1>1, Zenon DEF Shape, ViewKept
<1>2. CASE Begin(t)
  BY <1>2, Zenon DEF Begin, Shape, ViewKept
<1>3. CASE DropReference(t) \/ \E c \in Tasks : Observe(t, c) \/ AwaitRetirement(t, c)
  <2>1. delivered' = delivered
    BY <1>3, Zenon DEF DropReference, Observe, AwaitRetirement
  <2>2. views' = views \/ \E c, v : views' = [views EXCEPT ![<<t, c>>] = v]
    BY <1>3, Zenon DEF DropReference, Observe, AwaitRetirement
  <2> QED BY <1>0, <2>1, <2>2, Zenon DEF Shape, ViewKept
<1>4. CASE /\ Frame(t) /\ ~DropReference(t)
           /\ ~\E c \in Tasks : Observe(t, c) \/ AwaitRetirement(t, c)
  BY <1>1, <1>4, Zenon DEF Frame, Join, Destroy, CancelChild, WaitTerminal, WakeChild, Unregister,
                    CancelWake, Finish, Leave, others
<1>5. CASE Dispatch(t) /\ ~Frame(t) /\ ~Begin(t)
  BY <1>1, <1>5, Zenon DEF Dispatch, Take, Drive, Withdraw, Suspend, Register, Complete, Retire,
                    TakeWaiters, Pop, WakeWaiter, ReleaseWait, End, GiveBack, others
<1>6. CASE Choice(t) \/ Calls(t) \/ Reclaim(t) \/ Stimulus(t) \/ Close
  BY <1>1, <1>6, Zenon DEF Choice, Enter, AwaitEvent, Yield, RetireDeferred, Calls, Deliver, Reclaim,
                    DropNative, Recycle, Stimulus, RequestCancellation, ExplicitWake, Close,
                    Rest, others
<1> QED BY <1>2, <1>3, <1>4, <1>5, <1>6, Zenon DEF Acts

LEMMA OtherMoves ==
  ASSUME Shape, FrameExecutes, Listed, NEW t \in Tasks, t # Root, Acts(t)
  PROVE  RootMoves /\ driver'[Root].pc = driver[Root].pc
<1>1. Root \in DOMAIN driver' /\ driver'[Root] = driver[Root]
  BY ListedStays, RootAssumption, Zenon DEF Steered
<1>2. CellKept /\ WordKept /\ ViewKept /\ (Root \in delivered' <=> Root \in delivered)
  BY OtherCell, OtherWord, OtherView, Zenon
<1> QED BY <1>1, <1>2, Zenon DEF RootMoves, Shape, FrameExecutes, CellKept, WordKept, ViewKept

-----------------------------------------------------------------------------
(* Whoever appears as the cause of a cancellation has asked for it: the    *)
(* source is stored before the root's word can change, the word changes    *)
(* before the frame is told, and the frame is told before it ends so.      *)
AskedInv ==
  /\ source = "Timeout" => "TimedOut" \in asked
  /\ request["worker"] # "idle" => "TimedOut" \in asked
  /\ command.pipe # "none" => "Command" \in asked
  /\ command.requested => command.pipe # "none"
  /\ command.listener = "lock" => command.requested
  /\ request["listener"] # "idle" => command.requested
  /\ request["main"] # "idle" => command.requested
  /\ source = "Explicit" => command.requested
  /\ \A th \in Threads : request[th] \in {"word", "wake"} => source # "none"
  /\ word[Root].requested => source # "none" \/ "Invocation" \in asked
  /\ Root \in delivered => word[Root].requested
  /\ host.ended = "CANCELLED" => Root \in delivered

(* How far the main thread has come, and the root with it.                 *)
(* A root that was not lost is resolved once it is observed, and no file   *)
(* is written unless the root has left the scheduler.                      *)
Early == {"register", "arm", "observe"}
Writing == host.main \in {"create", "write"} \/ host.file # "none"

CourseInv ==
  /\ host.main \notin Early /\ ~host.lost => cell[Root].phase = "Resolved"
  /\ host.lost => host.main \notin Early
  /\ Over(Root) \/ driver[Root].pc = "complete" => host.ended # "none"
  /\ views[<<Main, Root>>] = "retired" => cell[Root].retired
  /\ sched[Root] = "off" => cell[Root].retired /\ ~cell[Root].source_owner
  /\ Writing => sched[Root] = "off"
  /\ host.file # "none" => host.main \in {"write", "drop", "join", "exit"}

(* What the session has stored, and what it was told.                      *)
SessionInv ==
  /\ host.main \in {"register", "arm"} => session.outcome = "none"
  /\ host.main \in Early \cup {"record"} => session.outcome \in {"none", "Host"}
  /\ session.outcome \in {"none", "Passed"} => seen = {}
  /\ session.outcome = "Passed" => host.ended = "COMPLETED" /\ ~host.lost
  /\ session.outcome \in Cancels => session.outcome \in asked
  /\ session.capture_failed \/ seen \subseteq {session.outcome} \cup session.suppressed

(* The runner reports when the host is gone.                               *)
RunnerInv ==
  /\ runner.report # "none" => ~host.alive
  /\ OutcomeTruthful

RunInv ==
  /\ RunTypeOK /\ Shape /\ FrameExecutes /\ Listed
  /\ AskedInv /\ CourseInv /\ SessionInv /\ RunnerInv

LEMMA InitRun ==
  ASSUME Init, NEW limited \in BOOLEAN, RunInit(limited)
  PROVE  RunInv
<1>1. RunTypeOK
  BY Zenon DEF RunInit, RunTypeOK, HostState, SessionState, CommandState, TimerState,
         RunnerState, RequestStates, Outcomes, Failures, Cancels, Reports, Threads
<1>2. Shape /\ FrameExecutes /\ Listed
  <2>1. <<Main, Root>> \in Links
    BY RootAssumption, Zenon DEF Links
  <2>2. Listed
    BY RootAssumption, Zenon DEF Init, Listed, Idle
  <2> QED BY <2>1, <2>2, RootAssumption, Zenon DEF Init, Shape, FrameExecutes, Started, Idle, FramePcs
<1>3. AskedInv
  BY RootAssumption, Zenon DEF Init, RunInit, AskedInv, Threads
<1>4. CourseInv
  <2>1. <<Main, Root>> \in Links
    BY RootAssumption, Zenon DEF Links
  <2> QED BY <2>1, RootAssumption, Zenon
          DEF Init, RunInit, CourseInv, Early, Writing, Over, Started, Idle
<1>5. SessionInv
  BY Zenon DEF RunInit, SessionInv, Early, Cancels
<1>6. RunnerInv
  BY Zenon DEF RunInit, RunnerInv, OutcomeTruthful, Cancels
<1> QED BY <1>1, <1>2, <1>3, <1>4, <1>5, <1>6, Zenon DEF RunInv

(* A step of the root: the host may learn how it ended.                    *)
LEMMA RootStepKeeps ==
  ASSUME RunInv, RootStep
  PROVE  RunInv'
<1>0. RootMoves /\ Registered /\ Listed'
  <2>1. Acts(Root)
    BY Zenon DEF RootStep, Acts
  <2> QED BY <2>1, DispatchMoves, ListedStays, RootAssumption, Zenon DEF RunInv, RootStep
<1>1. /\ host.alive
      /\ UNCHANGED <<session, command, source, timer, request, runner, asked, seen>>
  BY Zenon DEF RootStep
<1>2. \/ host' = host /\ ~(At(Root, "frame") /\ driver'[Root].pc = "complete")
      \/ /\ At(Root, "frame")
         /\ \E ended \in {"COMPLETED", "PANICKED", "CANCELLED", "RUNTIME_FAILURE"} :
              /\ host' = [host EXCEPT !.ended = ended]
              /\ ended = "CANCELLED" => Root \in delivered
  BY Zenon DEF RootStep, Ending
<1>3. RunTypeOK'
  BY <1>1, <1>2, Zenon DEF RunInv, RunTypeOK, HostState
<1>4. /\ host'.main = host.main /\ host'.file = host.file /\ host'.alive = host.alive
      /\ host'.lost = host.lost
      /\ host'.ended = host.ended \/ host'.ended # "none"
      /\ host'.ended = "CANCELLED" => host.ended = "CANCELLED" \/ Root \in delivered
      /\ host'.ended = host.ended \/ cell[Root].phase = "Executing"
      /\ driver'[Root].pc = "complete" => host'.ended # "none"
  BY <1>0, <1>2, Zenon DEF RunInv, RunTypeOK, HostState, RootMoves, FrameExecutes, FramePcs, At,
                     CourseInv
<1>5. AskedInv'
  BY <1>0, <1>1, <1>4, Zenon DEF RunInv, AskedInv, RootMoves
<1>6. CourseInv'
  BY <1>0, <1>1, <1>4, Zenon DEF RunInv, CourseInv, RootMoves, Registered, Writing, Over
<1>7. SessionInv'
  BY <1>0, <1>1, <1>4, Zenon DEF RunInv, SessionInv, CourseInv, Early
<1>8. RunnerInv'
  BY <1>0, <1>1, <1>4, Zenon DEF RunInv, RunnerInv, RunTypeOK, OutcomeTruthful, Cancels
<1> QED BY <1>0, <1>3, <1>5, <1>6, <1>7, <1>8, Zenon DEF RunInv, RootMoves

(* What the root shows is the same after a step that is not one of its.    *)
Watched == <<cell[Root], word[Root], views[<<Main, Root>>], driver[Root].pc, sched[Root]>>

LEMMA RootUntouched ==
  ASSUME RunInv, UNCHANGED vars
  PROVE  /\ Shape' /\ FrameExecutes' /\ Listed'
         /\ UNCHANGED Watched /\ delivered' = delivered
  BY Zenon DEF RunInv, Shape, FrameExecutes, Listed, vars, Watched

(* Requests: nothing of the host, the session or the runner changes.       *)
LEMMA RequestKeeps ==
  ASSUME RunInv, NEW th \in Threads, Requests(th)
  PROVE  RunInv'
<1>1. UNCHANGED <<host, session, command, timer, runner, asked, seen>> /\ delivered' = delivered
  BY Zenon DEF Requests, RequestSource, RequestWord, RequestReturn, Rest, vars
<1>2. /\ UNCHANGED <<cell, views, driver, sched>>
      /\ Root \in DOMAIN word' /\ "requested" \in DOMAIN word'[Root]
      /\ word'[Root].requested => word[Root].requested \/ source # "none"
      /\ word[Root].requested => word'[Root].requested
  <2>1. CASE UNCHANGED vars
    BY <2>1, Zenon DEF RunInv, Shape, vars
  <2>2. CASE RequestWord(th)
    BY <2>2, Zenon DEF RequestWord, Requested, Rest, wakes, RunInv, Shape, AskedInv
  <2> QED BY <2>1, <2>2, Zenon DEF Requests, RequestSource, RequestReturn
<1>3. /\ source' \in {"none", "Timeout", "Explicit"}
      /\ request' \in [Threads -> RequestStates]
      /\ \A x \in Threads \ {th} : request'[x] = request[x]
      /\ request[th] # "idle"
      /\ source # "none" => source' = source
      /\ source' # source => source' = Cause(th)
      /\ request'[th] \in {"word", "wake"} => source' # "none"
  BY Zenon DEF Requests, RequestSource, RequestWord, RequestReturn, RunInv, RunTypeOK,
         RequestStates, AskedInv, Cause
<1>4. RunTypeOK'
  BY <1>1, <1>3, Zenon DEF RunInv, RunTypeOK
<1>5. Shape' /\ FrameExecutes' /\ Listed'
  BY <1>2, Zenon DEF RunInv, Shape, FrameExecutes, Listed
<1>6. AskedInv'
  BY <1>1, <1>2, <1>3, Zenon DEF RunInv, AskedInv, Cause, Threads
<1>7. CourseInv' /\ SessionInv'
  BY <1>1, <1>2, Zenon DEF RunInv, CourseInv, SessionInv, Writing, Over
<1>8. RunnerInv'
  BY <1>1, <1>2, Zenon DEF RunInv, RunnerInv, OutcomeTruthful
<1> QED BY <1>4, <1>5, <1>6, <1>7, <1>8, Zenon DEF RunInv

(* Steps of the other threads, of the clocks and of the runner's command.  *)
LEMMA ThreadsKeep ==
  ASSUME RunInv, WorkerLook \/ ListenerRead \/ ListenerLock \/ Elapse \/ SendCancel \/ Due
  PROVE  RunInv'
<1>1. UNCHANGED vars /\ UNCHANGED <<host, session, source, seen>>
  BY Zenon DEF WorkerLook, ListenerRead, ListenerLock, Elapse, SendCancel, Due, process
<1>2. RunTypeOK'
  <2>0. RunTypeOK
    BY Zenon DEF RunInv
  <2>1. timer' \in TimerState
    <3>1. CASE timer' = timer
      BY <3>1, <2>0, Zenon DEF RunTypeOK
    <3>2. CASE WorkerLook
      BY <3>2, <2>0, Zenon DEF WorkerLook, RunTypeOK, TimerState
    <3>3. CASE Elapse
      BY <3>3, <2>0, Zenon DEF Elapse, RunTypeOK, TimerState, Awake
    <3> QED BY <3>1, <3>2, <3>3, Zenon DEF ListenerRead, ListenerLock, SendCancel, Due, process
  <2>2. command' \in CommandState
    <3>1. CASE command' = command
      BY <3>1, <2>0, Zenon DEF RunTypeOK
    <3>2. CASE ListenerRead \/ ListenerLock \/ SendCancel
      BY <3>2, <2>0, Zenon DEF ListenerRead, ListenerLock, SendCancel, RunTypeOK, CommandState
    <3> QED BY <3>1, <3>2, Zenon DEF WorkerLook, Elapse, Due, process
  <2>3. request' \in [Threads -> RequestStates]
    BY <2>0, Zenon DEF WorkerLook, ListenerRead, ListenerLock, Elapse, SendCancel, Due, process,
                RunTypeOK, RequestStates
  <2>4. runner' \in RunnerState
    BY <2>0, Zenon DEF WorkerLook, ListenerRead, ListenerLock, Elapse, SendCancel, Due, RunTypeOK,
                RunnerState
  <2>5. asked' \subseteq Cancels
    BY <2>0, Zenon DEF WorkerLook, ListenerRead, ListenerLock, Elapse, SendCancel, Due, RunTypeOK,
                Cancels
  <2> QED BY <1>1, <2>0, <2>1, <2>2, <2>3, <2>4, <2>5, Zenon DEF RunTypeOK
<1>3. /\ Shape' /\ FrameExecutes' /\ Listed'
      /\ UNCHANGED Watched /\ delivered' = delivered
  BY <1>1, RootUntouched, Zenon
<1>4. asked \subseteq asked' /\ runner'.report = runner.report
  <2>1. asked \subseteq asked'
    BY Zenon DEF WorkerLook, ListenerRead, ListenerLock, Elapse, SendCancel, Due
  <2>2. CASE runner' = runner
    BY <2>1, <2>2, Zenon
  <2>3. CASE Due
    BY <2>1, <2>3, Zenon DEF Due, RunInv, RunTypeOK, RunnerState
  <2> QED BY <2>2, <2>3, Zenon DEF WorkerLook, ListenerRead, ListenerLock, Elapse, SendCancel
<1>5. AskedInv'
  <2>0. AskedInv /\ RunTypeOK
    BY Zenon DEF RunInv
  <2>1. CASE WorkerLook
    BY <2>0, <2>1, <1>1, <1>3, Zenon DEF WorkerLook, RunTypeOK, AskedInv, Threads, Watched
  <2>2. CASE ListenerRead \/ ListenerLock
    BY <2>0, <2>2, <1>1, <1>3, Zenon DEF ListenerRead, ListenerLock, RunTypeOK, CommandState,
                                  AskedInv, Threads, Watched
  <2>3. CASE Elapse \/ Due
    BY <2>0, <2>3, <1>1, <1>3 DEF Elapse, Due, process, AskedInv, Watched
  <2>4. CASE SendCancel
    BY <2>0, <2>4, <1>1, <1>3, Zenon DEF SendCancel, RunTypeOK, CommandState, AskedInv, Watched
  <2> QED BY <2>1, <2>2, <2>3, <2>4, Zenon
<1>6. CourseInv' /\ SessionInv'
  BY <1>1, <1>3, <1>4, Zenon DEF RunInv, CourseInv, SessionInv, Writing, Over, Watched
<1>7. RunnerInv'
  BY <1>1, <1>3, <1>4, Zenon DEF RunInv, RunnerInv, OutcomeTruthful, Watched
<1> QED BY <1>2, <1>3, <1>5, <1>6, <1>7, Zenon DEF RunInv

(* What the root's frame may do, and what the other tasks do.              *)
LEMMA TasksKeep ==
  ASSUME RunInv, RootChoice \/ FamilyStep \/ FamilyChoice
  PROVE  RunInv'
<1>0. RootMoves /\ (driver'[Root].pc = "complete" => driver[Root].pc = "complete")
  <2>1. CASE RootChoice
    <3>1. RootMoves
      BY <2>1, DispatchMoves, Zenon DEF RunInv, RootChoice
    <3>2. driver'[Root].pc # "complete" \/ driver[Root].pc = "complete"
      BY <2>1 DEF RootChoice, Choice, Enter, AwaitEvent, Yield, RetireDeferred, RunInv, Shape, At
    <3> QED BY <3>1, <3>2, Zenon
  <2>2. ASSUME NEW t \in Tasks, t # Root, Acts(t)
        PROVE  RootMoves /\ driver'[Root].pc = driver[Root].pc
    BY <2>2, OtherMoves, Zenon DEF RunInv
  <2>3. CASE FamilyStep
    BY <2>2, <2>3, Zenon DEF FamilyStep, Acts
  <2>4. CASE FamilyChoice /\ ~Close
    BY <2>2, <2>4, Zenon DEF FamilyChoice, Acts
  <2>5. CASE Close
    <3>1. UNCHANGED <<cell, word, views, driver, delivered>>
      BY <2>5, Zenon DEF Close, Rest
    <3> QED BY <3>1, RootStays, Zenon DEF RunInv, Shape
  <2> QED BY <2>1, <2>3, <2>4, <2>5, Zenon
<1>1. UNCHANGED runVars
  BY Zenon DEF RootChoice, FamilyStep, FamilyChoice
<1>2. RunTypeOK'
  BY <1>1, Zenon DEF RunInv, RunTypeOK, runVars, process
<1>3. Registered /\ Listed'
  <2>1. \E t \in Tasks : Acts(t)
    BY RootAssumption, Zenon DEF RootChoice, FamilyStep, FamilyChoice, Acts
  <2> QED BY <2>1, ListedStays, Zenon DEF RunInv
<1>4. AskedInv'
  BY <1>0, <1>1, Zenon DEF RunInv, AskedInv, RootMoves, runVars, process
<1>5. CourseInv'
  BY <1>0, <1>1, <1>3, Zenon DEF RunInv, CourseInv, RootMoves, Registered, Writing, Over, runVars,
                          process
<1>6. SessionInv'
  BY <1>1, Zenon DEF RunInv, SessionInv, runVars, process
<1>7. RunnerInv'
  BY <1>0, <1>1, Zenon DEF RunInv, RunnerInv, OutcomeTruthful, RootMoves, runVars, process
<1> QED BY <1>0, <1>2, <1>3, <1>4, <1>5, <1>6, <1>7, Zenon DEF RunInv, RootMoves

(* A request of the product's own.                                         *)
LEMMA OwnRequestKeeps ==
  ASSUME RunInv, OwnRequest
  PROVE  RunInv'
<1>1. UNCHANGED <<process, runner>> /\ asked' = asked \cup {"Invocation"}
  BY Zenon DEF OwnRequest
<1>2. /\ UNCHANGED <<cell, views, driver, delivered, sched>>
      /\ Root \in DOMAIN word' /\ "requested" \in DOMAIN word'[Root]
      /\ word[Root].requested => word'[Root].requested
  BY Zenon DEF OwnRequest, RequestCancellation, Requested, Rest, wakes, RunInv, Shape
<1>3. RunTypeOK'
  BY <1>1, Zenon DEF RunInv, RunTypeOK, process, Cancels
<1>4. Shape' /\ FrameExecutes' /\ Listed'
  BY <1>2, Zenon DEF RunInv, Shape, FrameExecutes, Listed
<1>5. AskedInv'
  BY <1>1, <1>2, Zenon DEF RunInv, AskedInv, process
<1>6. CourseInv' /\ SessionInv'
  BY <1>1, <1>2, Zenon DEF RunInv, CourseInv, SessionInv, Writing, Over, process
<1>7. RunnerInv'
  BY <1>1, <1>2, Zenon DEF RunInv, RunnerInv, OutcomeTruthful, process
<1> QED BY <1>3, <1>4, <1>5, <1>6, <1>7, Zenon DEF RunInv

-----------------------------------------------------------------------------
(* The session.  A step that moves the main thread forward and leaves the  *)
(* root alone keeps everything but what it does to the session.            *)
LEMMA MainStep ==
  ASSUME RunInv, UNCHANGED vars, UNCHANGED <<runner, asked>>, host.alive,
         host'.ended = host.ended, host'.lost = host.lost,
         host'.main \in Early => host.main \in Early,
         host'.main \notin Early => host.main \notin Early,
         Writing' => Writing \/ sched[Root] = "off",
         host'.file # "none" => host'.main \in {"write", "drop", "join", "exit"},
         RunTypeOK', AskedInv', SessionInv'
  PROVE  RunInv'
<1>1. /\ Shape' /\ FrameExecutes' /\ Listed'
      /\ UNCHANGED Watched /\ delivered' = delivered
  BY RootUntouched, Zenon
<1>2. CourseInv'
  BY <1>1, Zenon DEF RunInv, CourseInv, Watched, Over
<1>3. RunnerInv'
  <2>1. runner.report = "none"
    BY Zenon DEF RunInv, RunnerInv
  <2> QED BY <2>1, Zenon DEF RunnerInv, OutcomeTruthful, SessionInv, Cancels
<1> QED BY <1>1, <1>2, <1>3, Zenon DEF RunInv

LEMMA AskedStays ==
  ASSUME RunInv, UNCHANGED vars, UNCHANGED <<command, source, request, asked>>,
         host'.ended = host.ended
  PROVE  AskedInv'
  BY RootUntouched, Zenon DEF RunInv, AskedInv, Watched

(* A step to another place of the main thread.                             *)
LEMMA Steps ==
  ASSUME host \in HostState, NEW pc \in {"register", "arm", "observe", "record", "report",
           "retire", "incidents", "shutdown", "create", "write", "drop", "join", "exit"},
         Step(pc)
  PROVE  /\ host' \in HostState /\ host'.main = pc /\ host'.ended = host.ended
         /\ host'.file = host.file /\ host'.alive = host.alive /\ host'.lost = host.lost
  BY Zenon DEF HostState, Step

(* Before the root is observed.                                            *)
LEMMA RegisterHandleKeeps ==
  ASSUME RunInv, RegisterHandle
  PROVE  RunInv'
<1>0. RunTypeOK /\ AskedInv /\ SessionInv /\ CourseInv
  BY Zenon DEF RunInv
<1>1. /\ UNCHANGED vars /\ UNCHANGED <<session, source, timer, runner, asked, seen>>
      /\ host.alive /\ host.main = "register" /\ Step("arm")
      /\ command' = [command EXCEPT !.handle = TRUE]
      /\ request' = [request EXCEPT !["main"] = IF command.requested THEN "source" ELSE @]
  BY Zenon DEF RegisterHandle, On
<1>2. /\ host' \in HostState /\ host'.main = "arm" /\ host'.ended = host.ended
      /\ host'.file = host.file /\ host'.lost = host.lost
  BY <1>0, <1>1, Steps, Zenon DEF RunTypeOK
<1>3. /\ command' \in CommandState /\ command'.requested = command.requested
      /\ command'.pipe = command.pipe /\ command'.listener = command.listener
  BY <1>0, <1>1, Zenon DEF RunTypeOK, CommandState
<1>4. /\ request' \in [Threads -> RequestStates]
      /\ request'["worker"] = request["worker"] /\ request'["listener"] = request["listener"]
      /\ request'["main"] # request["main"] => command.requested /\ request'["main"] = "source"
  BY <1>0, <1>1, Zenon DEF RunTypeOK, RequestStates, Threads
<1>5. RunTypeOK'
  BY <1>0, <1>1, <1>2, <1>3, <1>4, Zenon DEF RunTypeOK
<1>6. AskedInv'
  BY <1>0, <1>1, <1>2, <1>3, <1>4, RootUntouched, Zenon DEF AskedInv, Threads, Watched
<1>7. SessionInv'
  BY <1>0, <1>1, <1>2, Zenon DEF SessionInv, Early
<1> QED BY <1>0, <1>1, <1>2, <1>5, <1>6, <1>7, MainStep, Zenon DEF Early, Writing, CourseInv

LEMMA ArmKeeps ==
  ASSUME RunInv, Arm
  PROVE  RunInv'
<1>0. RunTypeOK /\ SessionInv /\ CourseInv
  BY Zenon DEF RunInv
<1>1. /\ UNCHANGED vars /\ UNCHANGED <<command, source, request, runner, asked>>
      /\ host.alive /\ host.main = "arm" /\ Step("observe")
  BY Zenon DEF Arm, On
<1>2. /\ host' \in HostState /\ host'.main = "observe" /\ host'.ended = host.ended
      /\ host'.file = host.file /\ host'.lost = host.lost
  BY <1>0, <1>1, Steps, Zenon DEF RunTypeOK
<1>3. timer' \in TimerState
  BY <1>0, Zenon DEF Arm, RunTypeOK, TimerState
<1>4. \/ UNCHANGED <<session, seen>>
      \/ session' = [session EXCEPT !.outcome = "Host"] /\ seen' = seen \cup {"Host"}
  BY Zenon DEF Arm
<1>5. session' \in SessionState /\ seen' \subseteq Outcomes
  BY <1>0, <1>4, Zenon DEF RunTypeOK, SessionState, Outcomes, Failures
<1>6. SessionInv'
  <2>1. session.outcome = "none" /\ seen = {}
    BY <1>0, <1>1, Zenon DEF SessionInv
  <2>2. CASE UNCHANGED <<session, seen>>
    BY <1>0, <1>2, <2>1, <2>2, Zenon DEF SessionInv, Early, Cancels
  <2>3. CASE session' = [session EXCEPT !.outcome = "Host"] /\ seen' = seen \cup {"Host"}
    <3>1. session'.outcome = "Host"
      BY <2>3, <1>0, Zenon DEF RunTypeOK, SessionState
    <3> QED BY <1>2, <2>1, <2>3, <3>1, Zenon DEF SessionInv, Early, Cancels
  <2> QED BY <1>4, <2>2, <2>3, Zenon
<1>7. RunTypeOK'
  BY <1>0, <1>1, <1>2, <1>3, <1>5, Zenon DEF RunTypeOK
<1>8. AskedInv'
  BY <1>1, <1>2, AskedStays, Zenon
<1> QED BY <1>0, <1>1, <1>2, <1>6, <1>7, <1>8, MainStep, Zenon DEF Early, Writing, CourseInv

(* A failure the session is told of after the root was observed.           *)
LEMMA ObservingKeeps ==
  ASSUME RunTypeOK, SessionInv, host'.main \notin Early \cup {"record"},
         host'.ended = host.ended, host'.lost = host.lost, asked' = asked,
         NEW kind \in Failures, Observing(kind)
  PROVE  session' \in SessionState /\ seen' \subseteq Outcomes /\ SessionInv'
<1>0. session \in SessionState /\ seen \subseteq Outcomes
  BY Zenon DEF RunTypeOK
<1>1. kind \in Outcomes /\ kind \notin Cancels \cup {"none", "Passed"}
  BY Zenon DEF Outcomes, Failures, Cancels
<1>2. seen' = seen \cup {kind}
  BY Zenon DEF Observing
<1>3. CASE session.outcome \in {"none", "Passed"}
  <2>1. session' = [session EXCEPT !.outcome = kind]
    BY <1>3, Zenon DEF Observing
  <2>2. session' \in SessionState /\ session'.outcome = kind
    BY <2>1, <1>0, <1>1, Zenon DEF SessionState
  <2>3. seen = {}
    BY <1>3, Zenon DEF SessionInv
  <2> QED BY <1>0, <1>1, <1>2, <2>2, <2>3, Zenon DEF SessionInv, Early
<1>4. CASE session.outcome \notin {"none", "Passed"}
  <2>1. CASE session' = [session EXCEPT !.suppressed = @ \cup {kind}]
    <3>1. /\ session' \in SessionState /\ session'.outcome = session.outcome
          /\ session'.suppressed = session.suppressed \cup {kind}
          /\ session'.capture_failed = session.capture_failed
      BY <2>1, <1>0, <1>1, Zenon DEF SessionState
    <3> QED BY <3>1, <1>0, <1>1, <1>2, <1>4, Zenon DEF SessionInv, Early
  <2>2. CASE session' = [session EXCEPT !.capture_failed = TRUE]
    <3>1. /\ session' \in SessionState /\ session'.outcome = session.outcome
          /\ session'.capture_failed
      BY <2>2, <1>0, Zenon DEF SessionState
    <3> QED BY <3>1, <1>0, <1>1, <1>2, <1>4, Zenon DEF SessionInv, Early
  <2> QED BY <1>4, <2>1, <2>2, Zenon DEF Observing
<1> QED BY <1>3, <1>4, Zenon

LEMMA ObserveRootKeeps ==
  ASSUME RunInv, ObserveRoot
  PROVE  RunInv'
<1>0. /\ RunTypeOK /\ Shape /\ FrameExecutes /\ Listed
      /\ AskedInv /\ SessionInv /\ CourseInv /\ RunnerInv
  BY Zenon DEF RunInv
<1>1. /\ UNCHANGED <<session, command, source, timer, request, runner, asked, seen>>
      /\ host.alive /\ host.main = "observe"
      /\ \/ Step("record") /\ MainObserve(Root)
         \/ host' = [host EXCEPT !.main = "record", !.lost = TRUE] /\ UNCHANGED vars
  BY Zenon DEF ObserveRoot, On
<1>2. /\ host' \in HostState /\ host'.main = "record" /\ host'.ended = host.ended
      /\ host'.file = host.file /\ host'.alive = host.alive
      /\ \/ host'.lost = host.lost /\ MainObserve(Root)
         \/ host'.lost /\ UNCHANGED vars
  <2>1. CASE Step("record") /\ MainObserve(Root)
    BY <1>0, <2>1, Steps, Zenon DEF RunTypeOK
  <2>2. CASE host' = [host EXCEPT !.main = "record", !.lost = TRUE] /\ UNCHANGED vars
    BY <1>0, <2>2, Zenon DEF RunTypeOK, HostState
  <2> QED BY <1>1, <2>1, <2>2, Zenon
<1>3. ASSUME host'.lost = host.lost, MainObserve(Root)
      PROVE  Shape' /\ FrameExecutes' /\ Listed' /\ AskedInv' /\ CourseInv'
  <2>1. /\ UNCHANGED <<word, driver, delivered, sched>> /\ cell[Root].phase = "Terminal"
        /\ cell' = [cell EXCEPT ![Root].phase = "Resolved"]
        /\ views' = [views EXCEPT ![<<Main, Root>>] = "ready"]
    BY <1>3, Zenon DEF MainObserve, wakes
  <2>2. /\ Shape' /\ cell'[Root].phase = "Resolved" /\ views'[<<Main, Root>>] = "ready"
        /\ cell'[Root].retired = cell[Root].retired
        /\ cell'[Root].source_owner = cell[Root].source_owner
    BY <1>0, <2>1, Zenon DEF Shape
  <2>3. FrameExecutes' /\ Listed'
    BY <1>0, <2>1, Zenon DEF FrameExecutes, Listed
  <2>4. AskedInv'
    BY <1>0, <1>1, <1>2, <2>1, Zenon DEF AskedInv
  <2>5. CourseInv'
    BY <1>0, <1>1, <1>2, <1>3, <2>1, <2>2, Zenon DEF CourseInv, Writing, Over, Early
  <2> QED BY <2>2, <2>3, <2>4, <2>5, Zenon
<1>4. ASSUME host'.lost, UNCHANGED vars
      PROVE  Shape' /\ FrameExecutes' /\ Listed' /\ AskedInv' /\ CourseInv'
  <2>1. /\ Shape' /\ FrameExecutes' /\ Listed'
        /\ UNCHANGED Watched /\ delivered' = delivered
    BY <1>4, RootUntouched, Zenon
  <2>2. AskedInv'
    BY <1>1, <1>2, <1>4, AskedStays, Zenon
  <2>3. CourseInv'
    BY <1>0, <1>1, <1>2, <1>4, <2>1, Zenon DEF CourseInv, Writing, Over, Early, Watched
  <2> QED BY <2>1, <2>2, <2>3, Zenon
<1>5. Shape' /\ FrameExecutes' /\ Listed' /\ AskedInv' /\ CourseInv'
  BY <1>2, <1>3, <1>4, Zenon
<1>6. SessionInv'
  BY <1>0, <1>1, <1>2, Zenon DEF SessionInv, Early
<1>7. RunnerInv'
  BY <1>0, <1>1, <1>2, Zenon DEF RunnerInv, OutcomeTruthful, Cancels
<1>8. RunTypeOK'
  BY <1>0, <1>1, <1>2, Zenon DEF RunTypeOK
<1> QED BY <1>5, <1>6, <1>7, <1>8, Zenon DEF RunInv

(* The cancellation that is recorded was asked for.                        *)
LEMMA CancellationAsked ==
  ASSUME RunInv, host.ended = "CANCELLED"
  PROVE  cancellation_outcome \in Cancels /\ cancellation_outcome \in asked
<1>1. AskedInv /\ source \in {"none", "Timeout", "Explicit"}
  BY Zenon DEF RunInv, RunTypeOK
<1>2. CASE source = "Timeout"
  BY <1>1, <1>2, Zenon DEF AskedInv, cancellation_outcome, Cancels
<1>3. CASE source = "Explicit"
  BY <1>1, <1>3, Zenon DEF AskedInv, cancellation_outcome, Cancels
<1>4. CASE source = "none"
  BY <1>1, <1>4, Zenon DEF AskedInv, cancellation_outcome, Cancels
<1> QED BY <1>1, <1>2, <1>3, <1>4, Zenon

LEMMA RecordOutcomeKeeps ==
  ASSUME RunInv, RecordOutcome
  PROVE  RunInv'
<1>0. RunTypeOK /\ SessionInv /\ CourseInv
  BY Zenon DEF RunInv
<1>1. /\ UNCHANGED vars /\ UNCHANGED <<command, source, timer, request, runner, asked>>
      /\ host.alive /\ host.main = "record" /\ Step("report")
  BY Zenon DEF RecordOutcome, On
<1>2. /\ host' \in HostState /\ host'.main = "report" /\ host'.ended = host.ended
      /\ host'.file = host.file /\ host'.lost = host.lost
  BY <1>0, <1>1, Steps, Zenon DEF RunTypeOK
<1>3. /\ session.outcome \in {"none", "Host"} /\ session \in SessionState
      /\ seen \subseteq Outcomes
      /\ Observed \in {"COMPLETED", "CANCELLED", "PANICKED", "RUNTIME_FAILURE"}
      /\ Observed # "RUNTIME_FAILURE" => ~host.lost /\ host.ended = Observed
  BY <1>0, <1>1, Zenon DEF SessionInv, RunTypeOK, HostState, CourseInv, Early, Over, Observed
<1>4. session' \in SessionState /\ seen' \subseteq Outcomes /\ SessionInv'
  <2>1. CASE Observed = "COMPLETED"
    <3>1. /\ session' = [session EXCEPT !.outcome = IF @ = "none" THEN "Passed" ELSE @]
          /\ seen' = seen
      BY <2>1, Zenon DEF RecordOutcome
    <3>2. /\ session' \in SessionState /\ session'.suppressed = session.suppressed
          /\ session'.capture_failed = session.capture_failed
          /\ session'.outcome = IF session.outcome = "none" THEN "Passed" ELSE session.outcome
      BY <3>1, <1>3, Zenon DEF SessionState, Outcomes
    <3> QED BY <1>0, <1>1, <1>2, <1>3, <2>1, <3>1, <3>2 DEF SessionInv, Early, Cancels
  <2>2. CASE Observed = "CANCELLED"
    <3> DEFINE o == cancellation_outcome
               cancelled == [session EXCEPT !.outcome = o]
    <3>1. o \in Cancels /\ o \in asked /\ o \in Outcomes /\ o \notin {"none", "Passed", "Host"}
      <4>1. o \in Cancels /\ o \in asked
        BY <1>3, <2>2, CancellationAsked, Zenon
      <4> HIDE DEF o
      <4> QED BY <4>1, Zenon DEF Cancels, Outcomes
    <3>2. /\ seen' = seen \cup {o}
          /\ \/ session.outcome = "none" /\ session' = cancelled
             \/ session.outcome = "Host"
                /\ session' = [cancelled EXCEPT !.suppressed = @ \cup {session.outcome}]
             \/ session.outcome = "Host"
                /\ session' = [cancelled EXCEPT !.capture_failed = TRUE]
      BY <1>3, <2>2, Zenon DEF RecordOutcome
    <3> HIDE DEF o
    <3>a. /\ cancelled \in SessionState /\ cancelled.outcome = o
          /\ cancelled.suppressed = session.suppressed
          /\ cancelled.capture_failed = session.capture_failed
      BY <1>3, <3>1, Zenon DEF SessionState
    <3> HIDE DEF cancelled
    <3>3. /\ session' \in SessionState /\ session'.outcome = o
          /\ session.outcome = "Host" =>
               session'.capture_failed \/ session'.suppressed = session.suppressed \cup {"Host"}
          /\ session.capture_failed => session'.capture_failed
      <4>1. CASE session.outcome = "none" /\ session' = cancelled
        BY <4>1, <3>a, Zenon
      <4>2. CASE session' = [cancelled EXCEPT !.capture_failed = TRUE]
        BY <4>2, <3>a, Zenon DEF SessionState
      <4>3. CASE /\ session.outcome = "Host"
                 /\ session' = [cancelled EXCEPT !.suppressed = @ \cup {session.outcome}]
        <5>1. "Host" \in Outcomes
          BY Zenon DEF Outcomes, Failures
        <5> QED BY <4>3, <3>a, <5>1, Zenon DEF SessionState
      <4> QED BY <3>2, <4>1, <4>2, <4>3, Zenon
    <3>4. session.outcome = "none" => seen = {}
      BY <1>0, Zenon DEF SessionInv
    <3>5. seen \subseteq {session.outcome} \cup session.suppressed \/ session.capture_failed
      BY <1>0, Zenon DEF SessionInv
    <3> QED BY <1>1, <1>2, <1>3, <3>1, <3>2, <3>3, <3>4, <3>5, Zenon DEF SessionInv, Early
  <2>3. CASE Observed = "PANICKED"
    <3>1. UNCHANGED <<session, seen>>
      BY <2>3, Zenon DEF RecordOutcome
    <3> QED BY <1>0, <1>1, <1>2, <1>3, <3>1, Zenon DEF SessionInv, Early, Cancels
  <2>4. CASE Observed = "RUNTIME_FAILURE"
    <3>1. Observing("Host") /\ "Host" \in Failures
      BY <2>4, Zenon DEF RecordOutcome, Failures
    <3> QED BY <1>0, <1>1, <1>2, <3>1, ObservingKeeps, Zenon DEF Early
  <2> QED BY <1>3, <2>1, <2>2, <2>3, <2>4, Zenon
<1>5. RunTypeOK'
  BY <1>0, <1>1, <1>2, <1>4, Zenon DEF RunTypeOK
<1>6. AskedInv'
  BY <1>1, <1>2, AskedStays, Zenon
<1> QED BY <1>0, <1>1, <1>2, <1>4, <1>5, <1>6, MainStep, Zenon DEF Early, Writing, CourseInv

LEMMA ReportKeeps ==
  ASSUME RunInv, Report \/ Incidents
  PROVE  RunInv'
<1>0. RunTypeOK /\ SessionInv /\ CourseInv
  BY Zenon DEF RunInv
<1>1. /\ UNCHANGED vars /\ UNCHANGED <<command, source, timer, request, runner, asked>>
      /\ host.alive
      /\ \/ host.main = "report" /\ Step("retire")
         \/ host.main = "incidents" /\ Step("shutdown")
  BY Zenon DEF Report, Incidents, On
<1>2. /\ host' \in HostState /\ host'.ended = host.ended /\ host'.file = host.file
      /\ host'.main = IF host.main = "report" THEN "retire" ELSE "shutdown"
      /\ host'.lost = host.lost
  BY <1>0, <1>1, Steps, Zenon DEF RunTypeOK
<1>3. session' \in SessionState /\ seen' \subseteq Outcomes /\ SessionInv'
  <2>1. CASE UNCHANGED <<session, seen>>
    BY <2>1, <1>0, <1>1, <1>2, Zenon DEF SessionInv, RunTypeOK, Early
  <2>2. CASE \E kind \in Failures : Observing(kind)
    BY <2>2, <1>0, <1>1, <1>2, ObservingKeeps, Zenon DEF Early
  <2>3. CASE session' = [session EXCEPT !.capture_failed = TRUE] /\ seen' = seen
    <3>1. /\ session' \in SessionState /\ session'.outcome = session.outcome
          /\ session'.capture_failed
      BY <2>3, <1>0, Zenon DEF RunTypeOK, SessionState
    <3> QED BY <2>3, <3>1, <1>0, <1>1, <1>2 DEF SessionInv, RunTypeOK, Early
  <2> QED BY <2>1, <2>2, <2>3, Zenon DEF Report, Incidents, Failures
<1>4. RunTypeOK'
  BY <1>0, <1>1, <1>2, <1>3, Zenon DEF RunTypeOK
<1>5. AskedInv'
  BY <1>1, <1>2, AskedStays, Zenon
<1> QED BY <1>0, <1>1, <1>2, <1>3, <1>4, <1>5, MainStep, Zenon DEF Early, Writing, CourseInv

LEMMA RetireRootKeeps ==
  ASSUME RunInv, RetireRoot
  PROVE  RunInv'
<1>0. /\ RunTypeOK /\ Shape /\ FrameExecutes /\ Listed
      /\ AskedInv /\ SessionInv /\ CourseInv /\ RunnerInv
  BY Zenon DEF RunInv
<1>1. /\ UNCHANGED <<session, command, source, timer, request, runner, asked, seen>>
      /\ host.alive /\ host.main = "retire"
      /\ MainRetire(Root) \/ MainDestroy(Root)
      /\ host' = host \/ Step("incidents")
  BY Zenon DEF RetireRoot, On
<1>2. /\ host' \in HostState /\ host'.ended = host.ended /\ host'.file = host.file
      /\ host'.alive = host.alive /\ host'.lost = host.lost
      /\ host'.main \in {"retire", "incidents"}
  BY <1>0, <1>1, Steps, Zenon DEF RunTypeOK
<1>3. UNCHANGED <<word, driver, delivered>>
  BY <1>1, Zenon DEF MainRetire, MainDestroy
<1>4. /\ Shape' /\ cell'[Root].phase = cell[Root].phase
      /\ cell'[Root].retired = cell[Root].retired
      /\ views'[<<Main, Root>>] = "retired" => cell[Root].retired
      /\ Root \in DOMAIN sched' /\ (sched[Root] = "off" => sched'[Root] = "off")
      /\ sched'[Root] = "off" => cell[Root].retired /\ ~cell'[Root].source_owner
  <2>1. CASE MainRetire(Root)
    <3>1. Registered
      <4>1. Wake(Root) \/ NoWake
        BY <2>1, Zenon DEF MainRetire
      <4> QED BY <1>0, <4>1, WakeRegistered, Zenon
    <3>2. /\ Root \in DOMAIN cell'
          /\ {"phase", "source_owner", "retired"} \subseteq DOMAIN cell'[Root]
          /\ cell'[Root].phase = cell[Root].phase
          /\ cell'[Root].retired = cell[Root].retired
          /\ cell'[Root].source_owner = cell[Root].source_owner
      BY <1>0, <2>1, Zenon DEF MainRetire, Shape
    <3>3. /\ <<Main, Root>> \in DOMAIN views'
          /\ views'[<<Main, Root>>] = "retired" => cell[Root].retired
      BY <1>0, <2>1, Zenon DEF MainRetire, Shape
    <3> QED BY <1>0, <1>3, <3>1, <3>2, <3>3, Zenon DEF Shape, Registered, CourseInv
  <2>2. CASE MainDestroy(Root)
    <3>1. /\ cell' = [cell EXCEPT ![Root].source_owner = FALSE, ![Root].references = @ - 1]
          /\ views[<<Main, Root>>] = "retired"
          /\ views' = [views EXCEPT ![<<Main, Root>>] = "done"]
          /\ sched' = [sched EXCEPT ![Root] = "off"]
      BY <2>2, Zenon DEF MainDestroy
    <3>2. /\ Root \in DOMAIN cell' /\ ~cell'[Root].source_owner
          /\ DOMAIN cell'[Root] = DOMAIN cell[Root]
          /\ cell'[Root].phase = cell[Root].phase /\ cell'[Root].retired = cell[Root].retired
      BY <1>0, <3>1, Zenon DEF Shape
    <3>3. /\ <<Main, Root>> \in DOMAIN views' /\ views'[<<Main, Root>>] = "done"
          /\ Root \in DOMAIN sched' /\ sched'[Root] = "off"
      BY <1>0, <3>1, Zenon DEF Shape, Listed
    <3> QED BY <1>0, <1>3, <3>1, <3>2, <3>3, Zenon DEF Shape, CourseInv
  <2> QED BY <1>1, <2>1, <2>2, Zenon
<1>5. FrameExecutes' /\ Listed'
  BY <1>0, <1>3, <1>4, Zenon DEF FrameExecutes, Listed
<1>6. AskedInv'
  BY <1>0, <1>1, <1>2, <1>3, Zenon DEF AskedInv
<1>7. CourseInv'
  BY <1>0, <1>1, <1>2, <1>3, <1>4, Zenon DEF CourseInv, Writing, Over, Early
<1>8. SessionInv'
  BY <1>0, <1>1, <1>2, Zenon DEF SessionInv, Early
<1>9. RunnerInv'
  BY <1>0, <1>1, <1>2, Zenon DEF RunnerInv, OutcomeTruthful, Cancels
<1>10. RunTypeOK'
  BY <1>0, <1>1, <1>2, Zenon DEF RunTypeOK
<1> QED BY <1>4, <1>5, <1>6, <1>7, <1>8, <1>9, <1>10, Zenon DEF RunInv

(* The shutdown of the runtime, then writing the file, dropping the        *)
(* session, the exit.                                                      *)
LEMMA ShutdownKeeps ==
  ASSUME RunInv, Shutdown
  PROVE  RunInv'
<1>0. RunTypeOK /\ SessionInv /\ CourseInv
  BY Zenon DEF RunInv
<1>1. /\ UNCHANGED vars
      /\ UNCHANGED <<session, command, source, timer, request, runner, asked, seen>>
      /\ host.alive /\ host.main = "shutdown"
      /\ \/ sched[Root] = "off" /\ Step("create")
         \/ \E pc \in {"drop", "exit"} : host' = [host EXCEPT !.main = pc, !.failed = TRUE]
  BY RootAssumption, Zenon DEF Shutdown, On
<1>2. /\ host' \in HostState /\ host'.ended = host.ended /\ host'.lost = host.lost
      /\ host'.file = host.file /\ host'.main \in {"create", "drop", "exit"}
      /\ host'.main = "create" => sched[Root] = "off"
  <2>1. CASE sched[Root] = "off" /\ Step("create")
    BY <1>0, <2>1, Steps, Zenon DEF RunTypeOK
  <2>2. CASE \E pc \in {"drop", "exit"} : host' = [host EXCEPT !.main = pc, !.failed = TRUE]
    BY <1>0, <2>2, Zenon DEF RunTypeOK, HostState
  <2> QED BY <1>1, <2>1, <2>2, Zenon
<1>3. RunTypeOK'
  BY <1>0, <1>1, <1>2, Zenon DEF RunTypeOK
<1>4. AskedInv'
  BY <1>1, <1>2, AskedStays, Zenon
<1>5. SessionInv'
  BY <1>0, <1>1, <1>2, Zenon DEF SessionInv, Early
<1> QED BY <1>0, <1>1, <1>2, <1>3, <1>4, <1>5, MainStep, Zenon DEF Early, Writing, CourseInv

LEMMA FinishKeeps ==
  ASSUME RunInv, CreateFile \/ WriteFile \/ DropTimeouts \/ JoinWorker \/ Exit
  PROVE  RunInv'
<1> DEFINE LastMains == {"create", "write", "drop", "join", "exit"}
<1>0. RunTypeOK /\ SessionInv /\ CourseInv
  BY Zenon DEF RunInv
<1>1. /\ UNCHANGED vars /\ UNCHANGED <<session, command, source, request, runner, asked, seen>>
      /\ host.alive /\ host.main \in LastMains
  BY Zenon DEF CreateFile, WriteFile, DropTimeouts, JoinWorker, Exit, On
<1>2. /\ host' \in HostState /\ host'.ended = host.ended /\ host'.main \in LastMains
      /\ host'.lost = host.lost /\ (Writing' => Writing)
      /\ host'.file # "none" => host'.main \in {"write", "drop", "join", "exit"}
  <2>1. CASE CreateFile
    BY <2>1, <1>0, <1>1, Zenon DEF CreateFile, On, Writing, RunTypeOK, HostState, CourseInv
  <2>2. CASE WriteFile
    BY <2>2, <1>0, <1>1, Zenon DEF WriteFile, On, Writing, RunTypeOK, HostState
  <2>3. CASE DropTimeouts \/ JoinWorker
    <3>1. \E to \in {"join", "exit"} : Step(to)
      BY <2>3, Zenon DEF DropTimeouts, JoinWorker
    <3> QED BY <1>0, <3>1, Steps, Zenon DEF RunTypeOK, Writing
  <2>4. CASE Exit
    <3>1. host' = [host EXCEPT !.alive = FALSE] /\ host.main = "exit"
      BY <2>4, Zenon DEF Exit, On
    <3> QED BY <1>0, <3>1, Zenon DEF RunTypeOK, HostState, Writing
  <2> QED BY <2>1, <2>2, <2>3, <2>4, Zenon
<1>3. timer' \in TimerState
  <2>1. CASE DropTimeouts
    BY <2>1, <1>0, Zenon DEF DropTimeouts, RunTypeOK, TimerState, Awake
  <2>2. CASE CreateFile \/ WriteFile \/ JoinWorker \/ Exit
    BY <2>2, <1>0, Zenon DEF CreateFile, WriteFile, JoinWorker, Exit, RunTypeOK
  <2> QED BY <2>1, <2>2, Zenon
<1>4. RunTypeOK'
  BY <1>0, <1>1, <1>2, <1>3, Zenon DEF RunTypeOK
<1>5. AskedInv'
  BY <1>1, <1>2, AskedStays, Zenon
<1>6. SessionInv'
  BY <1>0, <1>1, <1>2, Zenon DEF SessionInv, Early
<1> QED BY <1>0, <1>1, <1>2, <1>4, <1>5, <1>6, MainStep, Zenon DEF Early, Writing, CourseInv

(* A host that dies leaves everything as it was, its file torn at most     *)
(* where it was being written.                                             *)
LEMMA Dies ==
  ASSUME RunInv, host.alive, NEW file \in Torn, Die(file)
  PROVE  /\ host' \in HostState /\ host'.ended = host.ended /\ host'.main = host.main
         /\ host'.file # "none" => host.main \in {"write", "drop", "join", "exit"}
         /\ ~host'.alive /\ host'.lost = host.lost /\ (Writing' => Writing)
<1>0. host \in HostState /\ CourseInv
  BY Zenon DEF RunInv, RunTypeOK
<1>1. file \in {"none", "empty", "partial", "complete"}
  BY <1>0, Zenon DEF Torn, HostState
<1>2. host' = [host EXCEPT !.alive = FALSE, !.failed = TRUE, !.file = file]
  BY Zenon DEF Die
<1>3. /\ host' \in HostState /\ host'.ended = host.ended /\ host'.main = host.main
      /\ host'.file = file /\ ~host'.alive /\ host'.lost = host.lost
  BY <1>0, <1>1, <1>2, Zenon DEF HostState
<1> QED BY <1>0, <1>3, Zenon DEF Torn, CourseInv, Writing

LEMMA CrashKeeps ==
  ASSUME RunInv, Crash
  PROVE  RunInv'
<1>0. RunTypeOK /\ SessionInv /\ CourseInv
  BY Zenon DEF RunInv
<1>1. /\ UNCHANGED vars
      /\ UNCHANGED <<session, command, source, timer, request, runner, asked, seen>>
      /\ host.alive
  BY Zenon DEF Crash
<1>2. /\ host' \in HostState /\ host'.ended = host.ended /\ host'.main = host.main
      /\ host'.file # "none" => host.main \in {"write", "drop", "join", "exit"}
      /\ host'.lost = host.lost /\ (Writing' => Writing)
  BY <1>1, Dies, Zenon DEF Crash
<1>3. RunTypeOK'
  BY <1>0, <1>1, <1>2, Zenon DEF RunTypeOK
<1>4. AskedInv'
  BY <1>1, <1>2, AskedStays, Zenon
<1>5. SessionInv'
  BY <1>0, <1>1, <1>2, Zenon DEF SessionInv
<1> QED BY <1>1, <1>2, <1>3, <1>4, <1>5, MainStep, Zenon

(* What a complete file makes of the session.                              *)
LEMMA ResultTruthful ==
  ASSUME RunInv
  PROVE  /\ Result \in Reports
         /\ Result \in Cancels => Result \in asked
         /\ Result \in Cancels \cup {"Passed", "Panic", "Error"} =>
              cell[Root].retired /\ ~cell[Root].source_owner
         /\ Result = "Passed" => host.ended = "COMPLETED" /\ seen = {}
<1>0. SessionInv /\ CourseInv /\ session.outcome \in Outcomes
  BY Zenon DEF RunInv, RunTypeOK, SessionState
<1>1. CASE host.file = "complete" /\ ~session.capture_failed /\ session.outcome # "none"
  <2>1. Result = session.outcome
    BY <1>1, Zenon DEF Result, Primary
  <2>2. cell[Root].retired /\ ~cell[Root].source_owner
    BY <1>0, <1>1, Zenon DEF CourseInv, Writing
  <2> QED BY <1>0, <2>1, <2>2, Zenon DEF Reports, SessionInv
<1>2. CASE ~(host.file = "complete" /\ ~session.capture_failed /\ session.outcome # "none")
  <2>1. Result \in {"Capture", "Missing", "Protocol", "Host"}
    BY <1>2, Zenon DEF Result, Primary
  <2> QED BY <2>1, Zenon DEF Reports, Outcomes, Failures, Cancels
<1> QED BY <1>1, <1>2, Zenon

LEMMA TryWaitKeeps ==
  ASSUME RunInv, TryWait
  PROVE  RunInv'
<1>0. RunTypeOK /\ SessionInv /\ CourseInv /\ AskedInv /\ RunnerInv
  BY Zenon DEF RunInv
<1>1. UNCHANGED vars /\ UNCHANGED <<process, asked>>
  BY Zenon DEF TryWait
<1>2. /\ Shape' /\ FrameExecutes' /\ Listed'
      /\ UNCHANGED Watched /\ delivered' = delivered
  BY <1>1, RootUntouched, Zenon
<1>3. AskedInv'
  BY <1>1, AskedStays, Zenon DEF process
<1>4. CourseInv' /\ SessionInv'
  BY <1>0, <1>1, <1>2, Zenon DEF CourseInv, SessionInv, Writing, Watched, Over, process
<1>5. CASE host.alive
  <2>1. runner' \in RunnerState /\ runner'.report = runner.report
    BY <1>0, <1>5, Zenon DEF TryWait, RunTypeOK, RunnerState
  <2>2. RunnerInv'
    BY <1>0, <1>1, <1>2, <2>1, Zenon DEF RunnerInv, OutcomeTruthful, Watched, process
  <2>3. RunTypeOK'
    BY <1>0, <1>1, <2>1, Zenon DEF RunTypeOK, process
  <2> QED BY <1>2, <1>3, <1>4, <2>2, <2>3, Zenon DEF RunInv
<1>6. CASE ~host.alive
  <2>1. runner' = [runner EXCEPT !.pc = "reported", !.report = Result]
    BY <1>6, Zenon DEF TryWait
  <2>2. runner' \in RunnerState /\ runner'.report = Result
    BY <1>0, <2>1, ResultTruthful, Zenon DEF RunTypeOK, RunnerState
  <2>3. RunnerInv'
    BY <1>0, <1>1, <1>2, <1>6, <2>2, ResultTruthful, Zenon
       DEF RunnerInv, OutcomeTruthful, Watched, process
  <2>4. RunTypeOK'
    BY <1>0, <1>1, <2>2, Zenon DEF RunTypeOK, process
  <2> QED BY <1>2, <1>3, <1>4, <2>3, <2>4, Zenon DEF RunInv
<1> QED BY <1>5, <1>6, Zenon

LEMMA ForceTerminateKeeps ==
  ASSUME RunInv, ForceTerminate
  PROVE  RunInv'
<1>0. RunTypeOK /\ SessionInv /\ CourseInv /\ RunnerInv
  BY Zenon DEF RunInv
<1>1. /\ UNCHANGED vars
      /\ UNCHANGED <<session, command, source, timer, request, asked, seen>>
      /\ runner' = [runner EXCEPT !.pc = "reported", !.report = "Forced"]
  BY Zenon DEF ForceTerminate
<1>2. /\ host' \in HostState /\ host'.ended = host.ended /\ host'.main = host.main
      /\ host'.file # "none" => host.main \in {"write", "drop", "join", "exit"}
      /\ ~host'.alive /\ host'.lost = host.lost /\ (Writing' => Writing)
  <2>1. CASE host.alive
    BY <2>1, Dies, Zenon DEF ForceTerminate
  <2>2. CASE ~host.alive
    BY <2>2, <1>0, Zenon DEF ForceTerminate, RunTypeOK, CourseInv, Writing
  <2> QED BY <2>1, <2>2, Zenon
<1>3. /\ Shape' /\ FrameExecutes' /\ Listed'
      /\ UNCHANGED Watched /\ delivered' = delivered
  BY <1>1, RootUntouched, Zenon
<1>4. AskedInv'
  BY <1>1, <1>2, AskedStays, Zenon
<1>5. CourseInv'
  BY <1>0, <1>1, <1>2, <1>3, Zenon DEF CourseInv, Watched, Over
<1>6. SessionInv'
  BY <1>0, <1>1, <1>2, Zenon DEF SessionInv
<1>7. runner' \in RunnerState /\ runner'.report = "Forced"
  BY <1>0, <1>1, Zenon DEF RunTypeOK, RunnerState, Reports
<1>8. RunnerInv'
  BY <1>2, <1>6, <1>7, Zenon DEF RunnerInv, OutcomeTruthful, SessionInv, Cancels
<1>9. RunTypeOK'
  BY <1>0, <1>1, <1>2, <1>7, Zenon DEF RunTypeOK
<1> QED BY <1>3, <1>4, <1>5, <1>6, <1>8, <1>9, Zenon DEF RunInv
-----------------------------------------------------------------------------
(* Every step keeps the invariant.                                         *)
LEMMA RunStep ==
  ASSUME RunInv, [RunNext]_allVars
  PROVE  RunInv'
<1>1. CASE Poll
  BY <1>1, TryWaitKeeps, ForceTerminateKeeps, Zenon DEF Poll
<1>2. CASE Session
  <2>1. CASE RegisterHandle
    BY <2>1, RegisterHandleKeeps, Zenon
  <2>2. CASE Arm
    BY <2>2, ArmKeeps, Zenon
  <2>3. CASE ObserveRoot
    BY <2>3, ObserveRootKeeps, Zenon
  <2>4. CASE RecordOutcome
    BY <2>4, RecordOutcomeKeeps, Zenon
  <2>5. CASE Report \/ Incidents
    BY <2>5, ReportKeeps, Zenon
  <2>6. CASE RetireRoot
    BY <2>6, RetireRootKeeps, Zenon
  <2>7. CASE Shutdown
    BY <2>7, ShutdownKeeps, Zenon
  <2>8. CASE CreateFile \/ WriteFile \/ DropTimeouts \/ JoinWorker \/ Exit
    BY <2>8, FinishKeeps, Zenon
  <2> QED BY <1>2, <2>1, <2>2, <2>3, <2>4, <2>5, <2>6, <2>7, <2>8, Zenon DEF Session
<1>3. CASE WorkerLook \/ Listener \/ Elapse \/ SendCancel \/ Due
  BY <1>3, ThreadsKeep, Zenon DEF Listener
<1>4. CASE RootStep
  BY <1>4, RootStepKeeps, Zenon
<1>5. CASE \E th \in Threads : Requests(th)
  BY <1>5, RequestKeeps, Zenon
<1>6. CASE RootChoice \/ FamilyStep \/ FamilyChoice
  BY <1>6, TasksKeep, Zenon
<1>7. CASE OwnRequest
  BY <1>7, OwnRequestKeeps, Zenon
<1>8. CASE Crash
  BY <1>8, CrashKeeps, Zenon
<1>9. CASE UNCHANGED allVars
  <2>1. UNCHANGED vars /\ UNCHANGED <<process, runner, asked>>
    BY <1>9, Zenon DEF allVars, runVars
  <2>2. /\ Shape' /\ FrameExecutes' /\ Listed'
        /\ UNCHANGED Watched /\ delivered' = delivered
    BY <2>1, RootUntouched, Zenon
  <2>3. AskedInv'
    BY <2>1, AskedStays, Zenon DEF process
  <2>4. RunTypeOK'
    BY <2>1, Zenon DEF RunInv, RunTypeOK, process
  <2>5. CourseInv' /\ SessionInv'
    BY <2>1, <2>2, Zenon DEF RunInv, CourseInv, SessionInv, Writing, Watched, Over, process
  <2>6. RunnerInv'
    BY <2>1, <2>2, Zenon DEF RunInv, RunnerInv, OutcomeTruthful, Watched, process
  <2> QED BY <2>2, <2>3, <2>4, <2>5, <2>6, Zenon DEF RunInv
<1> QED BY <1>1, <1>2, <1>3, <1>4, <1>5, <1>6, <1>7, <1>8, <1>9, Zenon DEF RunNext, Progress

(* The session, the requests for cancellation, the root and the runner     *)
(* stay as RunInv relates them in every behaviour of a test invocation.    *)
THEOREM RunInvariant == RunSpec => []RunInv
<1>1. Init /\ (\E limited \in BOOLEAN : RunInit(limited)) => RunInv
  BY InitRun, Zenon
<1>2. RunInv /\ [RunNext]_allVars => RunInv'
  BY RunStep, Zenon
<1> QED BY <1>1, <1>2, PTL DEF RunSpec

(* What is reported happened, for every family of tasks under the root,    *)
(* whatever its members do meanwhile, and for every bound on their         *)
(* stimuli: a cancellation is recorded (session.rs cancellation_outcome)   *)
(* and reported (host.rs host_result) only when its cause has occurred, a  *)
(* test outcome only for a root retired and destroyed, a passed one only   *)
(* for a root that completed and a session told of no failure.  It covers  *)
(* a root the main thread has lost or could not retire: execution_shutdown *)
(* then keeps its outcome from being written.                              *)
THEOREM ReportsTruthful == RunSpec => []OutcomeTruthful
<1>1. RunInv => OutcomeTruthful
  BY Zenon DEF RunInv, RunnerInv
<1> QED BY <1>1, RunInvariant, PTL

(* No failure a session was told of is lost from its result (session.rs    *)
(* observe, record_outcome), whatever the root and the runner do.          *)
THEOREM NeverMasked == RunSpec => []NothingMasked
<1>1. RunInv => NothingMasked
  BY Zenon DEF RunInv, SessionInv, NothingMasked
<1> QED BY <1>1, RunInvariant, PTL
=============================================================================

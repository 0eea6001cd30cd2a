-------------------------- MODULE FactQuerySafety ---------------------------
(***************************************************************************)
(* Safety of FactQuery and its refinement of FactStore, for any facts,     *)
(* programs, threads and slots.                                            *)
(***************************************************************************)
EXTENDS FactQueryInvariants, TLAPS

-----------------------------------------------------------------------------
\* Sequences: what the stacks of requests are made of.
LEMMA EmptySeq ==
  ASSUME NEW S
  PROVE  <<>> \in Seq(S) /\ Len(<<>>) = 0
  OBVIOUS

LEMMA LenProperties ==
  ASSUME NEW S, NEW s \in Seq(S)
  PROVE  /\ Len(s) \in Nat /\ DOMAIN s = 1..Len(s)
         /\ s # <<>> => Len(s) > 0
  OBVIOUS

LEMMA ElementOfSeq ==
  ASSUME NEW S, NEW s \in Seq(S), NEW i \in 1..Len(s)
  PROVE  s[i] \in S
  OBVIOUS

LEMMA HeadTailProperties ==
  ASSUME NEW S, NEW s \in Seq(S), s # <<>>
  PROVE  /\ Head(s) \in S /\ Head(s) = s[1]
         /\ Tail(s) \in Seq(S) /\ Len(Tail(s)) = Len(s) - 1
         /\ \A i \in 1..Len(Tail(s)) : Tail(s)[i] = s[i + 1]
  OBVIOUS

LEMMA ConcatProperties ==
  ASSUME NEW S, NEW r \in Seq(S), NEW s \in Seq(S)
  PROVE  /\ r \o s \in Seq(S) /\ Len(r \o s) = Len(r) + Len(s)
         /\ \A i \in 1..Len(r) + Len(s) :
              (r \o s)[i] = IF i <= Len(r) THEN r[i] ELSE s[i - Len(r)]
  OBVIOUS

-----------------------------------------------------------------------------
(***************************************************************************)
(* Types                                                                   *)
(***************************************************************************)
LEMMA NoneIsNoTask == None \notin Tasks
  BY FactQueryAssumption DEF None, Tasks

\* Replacing the innermost frame, pushing one and popping one keep a stack.
LEMMA StackOps ==
  ASSUME NEW s \in Seq(Frame), NEW fr \in Frame
  PROVE  /\ <<fr>> \o s \in Seq(Frame)
         /\ s # <<>> => /\ Head(s) \in Frame
                        /\ Tail(s) \in Seq(Frame)
                        /\ <<fr>> \o Tail(s) \in Seq(Frame)
<1>1. <<fr>> \in Seq(Frame)
  OBVIOUS
<1>2. s # <<>> => Head(s) \in Frame /\ Tail(s) \in Seq(Frame)
  BY HeadTailProperties
<1> QED
  BY <1>1, <1>2, ConcatProperties

LEMMA TopType ==
  ASSUME TypeOK, NEW th \in Threads, stack[th] # <<>>
  PROVE  /\ Top(th) \in Frame
         /\ Top(th).fact \in Facts
         /\ Top(th).tok \in Tokens
         /\ Top(th).task \in Tasks \cup {None}
         /\ Top(th).pc \in TaskPcs => Top(th).task \in Tasks
<1>1. stack[th] \in Seq(Frame)
  BY DEF TypeOK
<1>2. Top(th) \in Frame
  BY <1>1, HeadTailProperties DEF Top
<1> QED
  BY <1>2 DEF Frame, TaskPcs, FreePcs

LEMMA ContextType ==
  ASSUME TypeOK, NEW th \in Threads
  PROVE  Context(th) \in Tasks \cup {None}
<1>1. CASE Len(stack[th]) > 1
  <2>1. stack[th] \in Seq(Frame)
    BY DEF TypeOK
  <2>2. stack[th][2] \in Frame
    BY <1>1, <2>1, ElementOfSeq, LenProperties
  <2> QED
    BY <1>1, <2>2 DEF Context, Frame
<1>2. CASE ~(Len(stack[th]) > 1)
  BY <1>2 DEF Context, TypeOK
<1> QED
  BY <1>1, <1>2

LEMMA GotoType ==
  ASSUME TypeOK, NEW th \in Threads, stack[th] # <<>>, NEW pc, Goto(th, pc),
         \/ pc \in FreePcs
         \/ pc \in TaskPcs /\ Top(th).task \in Tasks
  PROVE  stack' \in [Threads -> Seq(Frame)]
<1> DEFINE fr == [Top(th) EXCEPT !.pc = pc]
<1>1. fr \in Frame
  BY TopType DEF Frame, TaskPcs, FreePcs
<1>2. stack[th] \in Seq(Frame)
  BY DEF TypeOK
<1>3. <<fr>> \o Tail(stack[th]) \in Seq(Frame)
  BY <1>1, <1>2, StackOps
<1> QED
  BY <1>3 DEF Goto, TypeOK

LEMMA GotoWithType ==
  ASSUME TypeOK, NEW th \in Threads, stack[th] # <<>>, NEW pc, NEW t,
         GotoWith(th, pc, t),
         \/ pc \in FreePcs /\ t \in Tasks \cup {None}
         \/ pc \in TaskPcs /\ t \in Tasks
  PROVE  stack' \in [Threads -> Seq(Frame)]
<1> DEFINE fr == [Top(th) EXCEPT !.pc = pc, !.task = t]
<1>1. fr \in Frame
  BY TopType, Zenon DEF Frame, TaskPcs, FreePcs
<1>2. stack[th] \in Seq(Frame)
  BY DEF TypeOK
<1>3. <<fr>> \o Tail(stack[th]) \in Seq(Frame)
  BY <1>1, <1>2, StackOps
<1> QED
  BY <1>3 DEF GotoWith, TypeOK

LEMMA SettleType ==
  ASSUME NEW tk \in [Tasks -> Task], NEW c \in Tasks \cup {None}, NEW f \in Facts,
         NEW outcome \in {"Ok"} \cup Errors
  PROVE  Settle(tk, c, f, outcome) \in [Tasks -> Task]
<1>1. CASE c = None
  BY <1>1 DEF Settle
<1>2. CASE c \in Tasks
  <2>1. tk[c] \in Task
    BY <1>2
  <2>2. [tk EXCEPT ![c].deps = @ \cup {f}] \in [Tasks -> Task]
    BY <1>2, <2>1 DEF Task
  <2>3. outcome \in Errors =>
          [tk EXCEPT ![c].errors = @ \cup {outcome}] \in [Tasks -> Task]
    BY <1>2, <2>1 DEF Task
  <2> QED
    BY <2>2, <2>3 DEF Settle
<1> QED
  BY <1>1, <1>2

LEMMA ReturnType ==
  ASSUME TypeOK, NEW th \in Threads, stack[th] # <<>>,
         NEW outcome \in {"Ok"} \cup Errors, NEW tk \in [Tasks -> Task],
         Return(th, outcome, tk)
  PROVE  /\ stack' \in [Threads -> Seq(Frame)]
         /\ task' \in [Tasks -> Task]
         /\ result' \in [Roots -> {"Pending", "Ok"} \cup Errors]
<1>1. stack' \in [Threads -> Seq(Frame)]
  <2>1. stack[th] \in Seq(Frame)
    BY DEF TypeOK
  <2>2. Tail(stack[th]) \in Seq(Frame)
    BY <2>1, HeadTailProperties
  <2> QED
    BY <2>2 DEF Return, TypeOK
<1>2. task' \in [Tasks -> Task]
  BY SettleType, ContextType, TopType, Zenon DEF Return
<1>3. result' \in [Roots -> {"Pending", "Ok"} \cup Errors]
  BY DEF Return, TypeOK
<1> QED
  BY <1>1, <1>2, <1>3

LEMMA NewTaskType ==
  ASSUME NEW f \in Facts, NEW tok \in Tokens
  PROVE  NewTask(f, tok) \in Task
  BY DEF NewTask, Task, Phases

LEMMA PhaseType ==
  ASSUME TypeOK, NEW t \in Tasks, NEW phase \in Phases
  PROVE  [task EXCEPT ![t].phase = phase] \in [Tasks -> Task]
<1>1. task[t] \in Task
  BY DEF TypeOK
<1> QED
  BY <1>1, Zenon DEF TypeOK, Task

LEMMA InitType == Init => TypeOK
<1> SUFFICES ASSUME Init PROVE TypeOK
  OBVIOUS
<1> USE DEF Init
<1>1. cell \in [Facts -> Cell]
  BY DEF Cell
<1>2. task \in [Tasks -> Task]
  <2> DEFINE fresh(t) == [NewTask(CHOOSE f \in Facts : TRUE, t) EXCEPT !.phase = "Free"]
  <2>1. (CHOOSE f \in Facts : TRUE) \in Facts
    BY FactQueryAssumption
  <2>2. ASSUME NEW t \in Tasks
        PROVE  fresh(t) \in Task
    <3>1. NewTask(CHOOSE f \in Facts : TRUE, t) \in Task
      BY <2>1, NewTaskType DEF Tokens
    <3>2. \A r \in Task : [r EXCEPT !.phase = "Free"] \in Task
      BY Zenon DEF Task, Phases
    <3> QED
      BY <3>1, <3>2
  <2>3. task = [t \in Tasks |-> fresh(t)]
    OBVIOUS
  <2> HIDE DEF fresh
  <2> QED
    BY <2>2, <2>3, Zenon
<1>3. stack \in [Threads -> Seq(Frame)]
  <2>1. \A r \in Roots : NewFrame(RootFact[r], r) \in Frame
    BY FactQueryAssumption DEF NewFrame, Frame, FreePcs, Tokens
  <2>2. \A r \in Roots : <<NewFrame(RootFact[r], r)>> \in Seq(Frame)
    BY <2>1
  <2>3. <<>> \in Seq(Frame)
    OBVIOUS
  <2> QED
    BY <2>2, <2>3
<1>4. base \in [Threads -> [task : Tasks \cup {None}, facts : SUBSET Facts]]
  BY DEF NoLane
<1>5. DOMAIN records = {}
  OBVIOUS
<1> QED
  BY <1>1, <1>2, <1>3, <1>4, <1>5 DEF TypeOK

LEMMA RequestType == ASSUME TypeOK, NEW th \in Threads, Request(th) PROVE TypeOK'
<1> stack[th] # <<>>
  BY DEF Request, At
<1>1. CASE Goto(th, "check") /\ UNCHANGED <<task, result>>
  BY <1>1, GotoType, Zenon DEF Request, TypeOK, FreePcs, runtime
<1>2. CASE \E outcome \in {"Ok"} \cup Errors : Return(th, outcome, task)
  <2> PICK outcome \in {"Ok"} \cup Errors : Return(th, outcome, task)
    BY <1>2, Zenon
  <2> task \in [Tasks -> Task]
    BY DEF TypeOK
  <2> QED
    BY ReturnType, Zenon DEF Request, TypeOK, runtime
<1> QED
  BY <1>1, <1>2 DEF Request, Errors

LEMMA CheckType == ASSUME TypeOK, NEW th \in Threads, Check(th) PROVE TypeOK'
<1> stack[th] # <<>>
  BY DEF Check, At
<1>1. CASE Goto(th, "look") /\ UNCHANGED <<task, result>>
  BY <1>1, GotoType, Zenon DEF Check, TypeOK, FreePcs, runtime
<1>2. CASE Return(th, "Cancelled", task)
  <2> task \in [Tasks -> Task]
    BY DEF TypeOK
  <2> QED
    BY <1>2, ReturnType, Zenon DEF Check, TypeOK, runtime, Errors
<1> QED
  BY <1>1, <1>2 DEF Check

LEMMA LookType == ASSUME TypeOK, NEW th \in Threads, Look(th) PROVE TypeOK'
<1> stack[th] # <<>>
  BY DEF Look, At
<1>1. CASE Return(th, "Ok", task)
  <2> task \in [Tasks -> Task]
    BY DEF TypeOK
  <2> QED
    BY <1>1, ReturnType, Zenon DEF Look, TypeOK, runtime
<1>2. CASE Goto(th, "admit") /\ UNCHANGED <<task, result>>
  BY <1>2, GotoType, Zenon DEF Look, TypeOK, FreePcs, runtime
<1>3. CASE /\ cell[Top(th).fact].st = "Computing"
           /\ GotoWith(th, "wait_for", cell[Top(th).fact].task)
           /\ UNCHANGED <<task, result>>
  <2>1. cell[Top(th).fact] \in Cell
    BY TopType DEF TypeOK
  <2>2. cell[Top(th).fact].task \in Tasks
    BY <1>3, <2>1 DEF Cell
  <2>3. stack' \in [Threads -> Seq(Frame)]
    BY <1>3, <2>2, GotoWithType DEF TaskPcs
  <2> QED
    BY <1>3, <2>3, Zenon DEF Look, TypeOK, runtime
<1> QED
  BY <1>1, <1>2, <1>3 DEF Look

LEMMA AdmitType == ASSUME TypeOK, NEW th \in Threads, Admit(th) PROVE TypeOK'
<1> stack[th] # <<>>
  BY DEF Admit, At
<1>1. CASE Goto(th, "claim") /\ slots' = slots \cup {th} /\ UNCHANGED <<task, result>>
  BY <1>1, GotoType, Zenon DEF Admit, TypeOK, FreePcs, runtime
<1>2. CASE Return(th, "Cancelled", task) /\ UNCHANGED slots
  <2> task \in [Tasks -> Task]
    BY DEF TypeOK
  <2> QED
    BY <1>2, ReturnType, Zenon DEF Admit, TypeOK, runtime, Errors
<1> QED
  BY <1>1, <1>2 DEF Admit

LEMMA ClaimType == ASSUME TypeOK, NEW th \in Threads, Claim(th) PROVE TypeOK'
<1> stack[th] # <<>>
  BY Zenon DEF Claim, At
<1> DEFINE f == Top(th).fact
           tok == Top(th).tok
           t == next_task
<1>1. f \in Facts /\ tok \in Tokens
  BY TopType
<1>2. CASE cell[f].st = "Vacant"
  <2>1. /\ t \in Tasks
        /\ next_task' = t + 1
        /\ cell' = [cell EXCEPT ![f] = [st |-> "Computing", task |-> t]]
        /\ task' = [task EXCEPT ![t] = NewTask(f, IF f \in Requested THEN t ELSE tok)]
        /\ interests' = [interests EXCEPT ![t] = @ \cup {<<th, tok>>}]
        /\ GotoWith(th, "run", t)
        /\ UNCHANGED <<owners, waiting, records, cancelled, base, slots, result>>
    BY <1>2, Zenon DEF Claim, Register, runtime
  <2>2. [st |-> "Computing", task |-> t] \in Cell
    BY <2>1 DEF Cell
  <2>3. NewTask(f, IF f \in Requested THEN t ELSE tok) \in Task
    BY <1>1, <2>1, NewTaskType, Zenon DEF Tokens
  <2>4. stack' \in [Threads -> Seq(Frame)]
    BY <2>1, GotoWithType, Zenon DEF TaskPcs
  <2>5. next_task' \in Nat
    BY <2>1 DEF TypeOK
  <2>6. interests' \in [Tasks -> SUBSET (Threads \X Tokens)]
    BY <1>1, <2>1 DEF TypeOK
  <2> QED
    BY <1>1, <2>1, <2>2, <2>3, <2>4, <2>5, <2>6, Zenon DEF TypeOK
<1>3. CASE cell[f].st # "Vacant"
  BY <1>3, GotoType, Zenon DEF Claim, TypeOK, FreePcs, runtime, SlotsAfter
<1> QED
  BY <1>2, <1>3

LEMMA WaitForType == ASSUME TypeOK, NEW th \in Threads, WaitFor(th) PROVE TypeOK'
<1> DEFINE u == Top(th).task
           c == Context(th)
<1>1. stack[th] # <<>> /\ u \in Tasks /\ c \in Tasks \cup {None}
  BY TopType, ContextType, Zenon DEF WaitFor, At, TaskPcs, Top
<1>2. waiting' \in [Tasks -> [Tasks -> Nat]]
  <2>1. CASE waiting' = waiting
    BY <2>1 DEF TypeOK
  <2>2. CASE c \in Tasks /\ waiting' = [waiting EXCEPT ![c][u] = @ + 1]
    BY <1>1, <2>2 DEF TypeOK
  <2> QED
    BY <1>1, <2>1, <2>2 DEF WaitFor
<1>3. CASE GotoWith(th, "check", None) /\ UNCHANGED <<task, result>>
  BY <1>1, <1>2, <1>3, GotoWithType, Zenon DEF WaitFor, TypeOK, FreePcs
<1>4. CASE Return(th, "Cycle", task)
  <2> task \in [Tasks -> Task]
    BY Zenon DEF TypeOK
  <2> QED
    BY <1>1, <1>2, <1>4, ReturnType, Zenon DEF WaitFor, TypeOK, Errors
<1>5. CASE Goto(th, "register") /\ UNCHANGED <<task, result>>
  BY <1>1, <1>2, <1>5, GotoType, Zenon DEF WaitFor, TypeOK, TaskPcs
<1> QED
  BY <1>3, <1>4, <1>5 DEF WaitFor

LEMMA WaitingType ==
  ASSUME TypeOK, NEW th \in Threads,
         RegisterInterest(th) \/ Unwait(th) \/ DropInterest(th)
  PROVE  TypeOK'
<1> DEFINE u == Top(th).task
           tok == Top(th).tok
<1>1. stack[th] # <<>> /\ u \in Tasks /\ tok \in Tokens
  BY TopType, Zenon DEF RegisterInterest, Unwait, DropInterest, At, TaskPcs, Top
<1>2. CASE RegisterInterest(th)
  <2>1. interests' \in [Tasks -> SUBSET (Threads \X Tokens)]
    BY <1>1, <1>2, SMTT(30) DEF RegisterInterest, Register, TypeOK
  <2> QED
    BY <1>1, <1>2, <2>1, GotoType, Zenon DEF RegisterInterest, TypeOK, TaskPcs, runtime
<1>3. CASE Unwait(th)
  <2>1. waiting' \in [Tasks -> [Tasks -> Nat]]
    <3> DEFINE c == Context(th)
    <3>1. waiting \in [Tasks -> [Tasks -> Nat]] /\ c \in Tasks \cup {None}
      BY <1>1, ContextType, Zenon DEF TypeOK
    <3>2. waiting' = IF c = None THEN waiting
                     ELSE [waiting EXCEPT ![c][u] = IF @ > 0 THEN @ - 1 ELSE 0]
      BY <1>3, Zenon DEF Unwait, RemoveWait
    <3> HIDE DEF c, u
    <3> QED
      BY <1>1, <3>1, <3>2, SMTT(30)
  <2> QED
    BY <1>1, <1>3, <2>1, GotoType, Zenon DEF Unwait, TypeOK, TaskPcs
<1>4. CASE DropInterest(th)
  <2>1. interests' \in [Tasks -> SUBSET (Threads \X Tokens)]
    <3>1. PICK k, w : interests' = [interests EXCEPT ![k] = @ \ {w}]
      BY <1>4, Zenon DEF DropInterest, Unregister
    <3> QED
      BY <1>1, <3>1, Zenon DEF TypeOK
  <2> QED
    BY <1>1, <1>4, <2>1, GotoType, Zenon DEF DropInterest, TypeOK, FreePcs, runtime
<1> QED
  BY <1>2, <1>3, <1>4

LEMMA RemoveEvaluationType ==
  ASSUME TypeOK, NEW t \in Tasks, RemoveEvaluation(t)
  PROVE  /\ owners' \in [Facts -> Tasks \cup {None}]
         /\ waiting' \in [Tasks -> [Tasks -> Nat]]
  BY Zenon DEF RemoveEvaluation, TypeOK

LEMMA CallType ==
  ASSUME TypeOK, NEW th \in Threads, NEW t \in Tasks, Call(th, t)
  PROVE  TypeOK'
<1>1. task[t] \in Task /\ stack[th] \in Seq(Frame)
  BY DEF TypeOK
<1> DEFINE f == task[t].fact
           n == task[t].next
           fr == NewFrame(Requests[f][n], task[t].tok)
<1>2. f \in Facts /\ n \in Nat \ {0} /\ task[t].tok \in Tokens
  BY <1>1 DEF Task
<1>3. Requests[f][n] \in Facts
  <2>1. Requests[f] \in Seq(Facts) /\ n <= Len(Requests[f])
    BY <1>2, FactQueryAssumption DEF Call, Items
  <2> QED
    BY <1>2, <2>1, ElementOfSeq, LenProperties
<1>4. fr \in Frame
  BY <1>2, <1>3, Zenon DEF NewFrame, Frame, FreePcs
<1>5. stack' \in [Threads -> Seq(Frame)]
  <2>1. <<fr>> \o stack[th] \in Seq(Frame)
    BY <1>1, <1>4, StackOps
  <2>2. stack' = [stack EXCEPT ![th] = <<fr>> \o stack[th]]
    BY DEF Call
  <2> HIDE DEF fr
  <2> QED
    BY <2>1, <2>2, Zenon DEF TypeOK
<1>6. task' \in [Tasks -> Task]
  <2>1. n + 1 \in Nat \ {0}
    BY <1>2
  <2>2. [task[t] EXCEPT !.next = n + 1] \in Task
    BY <1>1, <2>1 DEF Task
  <2>3. task' = [task EXCEPT ![t] = [task[t] EXCEPT !.next = n + 1]]
    BY DEF Call, TypeOK
  <2> QED
    BY <2>2, <2>3 DEF TypeOK
<1> QED
  BY <1>5, <1>6, Zenon DEF Call, TypeOK, runtime

\* The task of a thread that runs an evaluation.
LEMMA RunsTask ==
  ASSUME TypeOK, NEW th \in Threads, At(th, "run")
  PROVE  stack[th] # <<>> /\ Top(th).task \in Tasks /\ Top(th).tok \in Tokens
  BY TopType DEF At, TaskPcs, Top

LEMMA LaneType ==
  ASSUME TypeOK, NEW th \in Threads, NEW t \in Tasks, NEW h \in Helpers,
         SpawnLane(th, t, h)
  PROVE  TypeOK'
<1>1. task[t] \in Task /\ h \in Threads
  BY Zenon DEF TypeOK, Threads
<1>2. task' \in [Tasks -> Task]
  BY <1>1, Zenon DEF SpawnLane, TypeOK, Task
<1>3. Evaluating(th) \subseteq Facts
  <2>1. stack[th] \in Seq(Frame)
    BY Zenon DEF TypeOK
  <2>2. \A i \in 2..Len(stack[th]) : stack[th][i] \in Frame
    BY <2>1, ElementOfSeq, LenProperties
  <2>3. \A i \in 2..Len(stack[th]) : stack[th][i].fact \in Facts
    BY <2>2 DEF Frame
  <2>4. base[th].facts \subseteq Facts
    BY Zenon DEF TypeOK
  <2> QED
    BY <2>3, <2>4 DEF Evaluating
<1>4. base' \in [Threads -> [task : Tasks \cup {None}, facts : SUBSET Facts]]
  <2>1. task[t].fact \in Facts
    BY <1>1 DEF Task
  <2>2. base[th].facts \subseteq Facts
    BY DEF TypeOK
  <2> DEFINE lane == [task |-> t, facts |-> IF stack[th] = <<>> THEN base[th].facts
                                           ELSE Evaluating(th) \cup {task[t].fact}]
  <2>3. lane \in [task : Tasks \cup {None}, facts : SUBSET Facts]
    BY <1>3, <2>1, <2>2
  <2>4. base' = [base EXCEPT ![h] = lane]
    BY DEF SpawnLane
  <2> QED
    BY <2>3, <2>4, Zenon DEF TypeOK
<1> QED
  BY <1>1, <1>2, <1>4 DEF SpawnLane, TypeOK, runtime

LEMMA CellType ==
  ASSUME TypeOK, NEW f \in Facts, NEW st \in {"Publishing", "Ready"}
  PROVE  [cell EXCEPT ![f].st = st] \in [Facts -> Cell]
<1>1. cell[f] \in Cell
  BY DEF TypeOK
<1>2. [cell[f] EXCEPT !.st = st] \in Cell
  BY <1>1 DEF Cell
<1>3. [cell EXCEPT ![f].st = st] = [cell EXCEPT ![f] = [cell[f] EXCEPT !.st = st]]
  BY DEF TypeOK
<1> QED
  BY <1>2, <1>3 DEF TypeOK

\* The steps of an evaluation that change no stack.
LEMMA EvaluationType ==
  ASSUME TypeOK, NEW th \in Threads,
         \/ Begin(th) \/ Suspend(th) \/ Resume(th) \/ Compute(th) \/ Fail(th)
         \/ CheckShared(th) \/ Commit(th) \/ Publish(th) \/ Abandon(th)
  PROVE  TypeOK'
<1> DEFINE t == Top(th).task
           f == task[t].fact
<1>1. t \in Tasks
  BY RunsTask, Zenon DEF Begin, Suspend, Resume, Compute, Fail, CheckShared, Commit,
                  Publish, Abandon, Runs
<1>2. task[t] \in Task
  BY <1>1, Zenon DEF TypeOK
<1>3. f \in Facts /\ task[t].deps \subseteq Facts /\ task[t].errors \subseteq Errors
  BY <1>2, Zenon DEF Task
<1>4. \A phase \in Phases : [task EXCEPT ![t].phase = phase] \in [Tasks -> Task]
  BY <1>1, PhaseType
<1>5. CASE Begin(th)
  BY <1>1, <1>3, <1>4, <1>5, Zenon DEF Begin, SetPhase, TypeOK, Phases
<1>6. CASE Suspend(th)
  BY <1>4, <1>6, Zenon DEF Suspend, SetPhase, TypeOK, Phases, runtime
<1>7. CASE Resume(th)
  <2>1. [task EXCEPT ![t].phase = "Recording", ![t].forked = FALSE] \in [Tasks -> Task]
    BY <1>1, <1>2, Zenon DEF TypeOK, Task, Phases
  <2> QED
    BY <1>7, <2>1 DEF Resume, TypeOK, runtime
<1>8. CASE Compute(th)
  BY <1>4, <1>8, Zenon DEF Compute, SetPhase, TypeOK, Phases, runtime, SlotsAfter
<1>9. CASE Fail(th) \/ CheckShared(th)
  <2>1. \A e \in Errors : [task EXCEPT ![t].phase = "Abandoning", ![t].errors = {e}]
                            \in [Tasks -> Task]
    BY <1>1, <1>2, Zenon DEF TypeOK, Task, Phases
  <2>2. CASE Fail(th)
    <3>1. task' \in [Tasks -> Task]
      BY <1>3, <2>1, <2>2, SMTT(30) DEF Fail
    <3> QED
      BY <2>2, <3>1, Zenon DEF Fail, TypeOK, runtime
  <2>3. CASE CheckShared(th)
    <3>1. "Prepare" \in Phases /\ "Cancelled" \in Errors
      BY DEF Phases, Errors
    <3>2. task' \in [Tasks -> Task]
      BY <1>4, <2>1, <2>3, <3>1 DEF CheckShared
    <3> QED
      BY <2>3, <3>2, Zenon DEF CheckShared, TypeOK, runtime
  <2> QED
    BY <1>9, <2>2, <2>3
<1>10. CASE Commit(th)
  <2>1. task' \in [Tasks -> Task]
    BY <1>1, <1>2, <1>10, Zenon DEF Commit, TypeOK, Task, Phases
  <2>2. records' = [g \in DOMAIN records \cup {f} |->
                      IF g = f THEN task[t].deps ELSE records[g]]
    BY <1>10, Zenon DEF Commit
  <2>3. DOMAIN records' \subseteq Facts
    BY <1>3, <2>2, Zenon DEF TypeOK
  <2>4. \A g \in DOMAIN records' : records'[g] \subseteq Facts
    BY <1>3, <2>2, Zenon DEF TypeOK
  <2>5. cell' \in [Facts -> Cell]
    BY <1>3, <1>10, CellType, Zenon DEF Commit
  <2> QED
    BY <1>1, <1>10, <2>1, <2>3, <2>4, <2>5, RemoveEvaluationType, Zenon DEF Commit, TypeOK
<1>11. CASE Publish(th)
  <2>1. cell' \in [Facts -> Cell]
    BY <1>3, <1>11, CellType, Zenon DEF Publish
  <2> QED
    BY <1>4, <1>11, <2>1, Zenon DEF Publish, SetPhase, TypeOK, Phases, runtime
<1>12. CASE Abandon(th)
  <2>1. task' \in [Tasks -> Task]
    BY <1>1, <1>2, <1>12, Zenon DEF Abandon, TypeOK, Task, Phases
  <2> QED
    BY <1>1, <1>12, <2>1, RemoveEvaluationType, Zenon DEF Abandon, TypeOK
<1> QED
  BY <1>5, <1>6, <1>7, <1>8, <1>9, <1>10, <1>11, <1>12

LEMMA DeliverType ==
  ASSUME TypeOK, NEW th \in Threads, Deliver(th) \/ Vacate(th)
  PROVE  TypeOK'
<1> DEFINE t == Top(th).task
           tk == [task EXCEPT ![t].phase = "Done"]
<1>1. stack[th] # <<>> /\ t \in Tasks /\ Top(th).tok \in Tokens
  BY RunsTask DEF Deliver, Vacate, Runs
<1>2. task[t] \in Task
  BY <1>1, Zenon DEF TypeOK
<1>3. tk \in [Tasks -> Task]
  BY <1>1, PhaseType, Zenon DEF Phases
<1>4. PICK outcome \in {"Ok"} \cup Errors : Return(th, outcome, tk)
  <2>1. task[t].errors \subseteq Errors /\ "Cancelled" \in Errors
    BY <1>2, Zenon DEF Task, Errors
  <2>2. CASE Deliver(th)
    BY <2>1, <2>2 DEF Deliver
  <2>3. CASE Vacate(th)
    BY <2>1, <2>3 DEF Vacate
  <2> QED
    BY <2>2, <2>3, Zenon
<1>5. /\ stack' \in [Threads -> Seq(Frame)]
      /\ task' \in [Tasks -> Task]
      /\ result' \in [Roots -> {"Pending", "Ok"} \cup Errors]
  BY <1>1, <1>3, <1>4, ReturnType, Zenon
<1>6. interests' \in [Tasks -> SUBSET (Threads \X Tokens)]
  <2>1. interests[t] \ {<<th, Top(th).tok>>} \in SUBSET (Threads \X Tokens)
    BY <1>1, Zenon DEF TypeOK
  <2>2. interests' = [interests EXCEPT ![t] = @ \ {<<th, Top(th).tok>>}]
    BY DEF Deliver, Vacate, Unregister
  <2> QED
    BY <2>1, <2>2, Zenon DEF TypeOK
<1>7. cell' \in [Facts -> Cell]
  <2>1. [st |-> "Vacant", task |-> None] \in Cell
    BY DEF Cell
  <2> QED
    BY <2>1, Zenon DEF Deliver, Vacate, TypeOK
<1>8. slots' \subseteq Threads
  BY DEF Deliver, Vacate, SlotsAfter, TypeOK
<1> QED
  BY <1>5, <1>6, <1>7, <1>8, Zenon DEF Deliver, Vacate, TypeOK, runtime

LEMMA LaneEndsType ==
  ASSUME TypeOK, NEW h \in Threads, LaneEnds(h)
  PROVE  TypeOK'
<1>1. NoLane \in [task : Tasks \cup {None}, facts : SUBSET Facts]
  BY DEF NoLane
<1> QED
  BY <1>1, Zenon DEF LaneEnds, TypeOK, runtime

\* Every step of the engine keeps the type invariant.
LEMMA TypeNext ==
  ASSUME TypeOK, [Next]_vars
  PROVE  TypeOK'
<1>1. ASSUME NEW th \in Threads, ThreadStep(th)
      PROVE  TypeOK'
  BY <1>1, RequestType, CheckType, LookType, AdmitType, ClaimType, WaitForType,
     WaitingType, EvaluationType, DeliverType, LaneEndsType, CallType
     DEF ThreadStep
<1>2. ASSUME NEW r \in Roots, Cancel(r)
      PROVE  TypeOK'
  BY <1>2, Zenon DEF Cancel, TypeOK, runtime
<1>3. CASE UNCHANGED vars
  BY <1>3, Zenon DEF TypeOK, vars, runtime
<1> QED
  BY <1>1, <1>2, <1>3, LaneType DEF Next

\* Every reachable state of the engine is well typed, whatever the facts, their
\* computations, the threads and the capacity: in particular a request that
\* runs or waits always names a task, and so does a cell that is being computed.
THEOREM TypeCorrect == Spec => []TypeOK
  BY InitType, TypeNext, PTL DEF Spec

-----------------------------------------------------------------------------
(***************************************************************************)
(* Single flight, the acyclic wait graph, final publications.  None of the *)
(* three is inductive alone; Inv adds what ties tasks, owners, waits and   *)
(* records to the cells.                                                   *)
(***************************************************************************)
\* A step that leaves cells, owners and records alone, adds no wait, and moves
\* tasks only between the phases of a begun evaluation or from Published to Done.
Quiet ==
  /\ UNCHANGED <<cell, owners, records, next_task>>
  /\ \A t, u \in Tasks : waiting'[t][u] > 0 => waiting[t][u] > 0
  /\ \A t \in Tasks :
       /\ task'[t].fact = task[t].fact
       /\ \/ task'[t].phase = task[t].phase
          \/ task[t].phase \in Begun /\ task'[t].phase \in Begun
          \/ task[t].phase = "Published" /\ task'[t].phase = "Done"

\* Fewer edges close no cycle.
LEMMA FewerEdges ==
  ASSUME WaitGraphAcyclic, \A t, u \in Tasks : Edge(t, u)' => Edge(t, u)
  PROVE  WaitGraphAcyclic'
  BY DEF WaitGraphAcyclic

LEMMA QuietKeeps ==
  ASSUME Inv, TypeOK', Quiet
  PROVE  Inv'
<1> USE DEF Inv, Quiet
<1>1. SingleFlight'
  <2> SUFFICES ASSUME NEW t \in Tasks
               PROVE  LET f == task'[t].fact
                          phase == task'[t].phase
                      IN /\ phase \in Active =>
                              cell'[f] = [st |-> IF phase = "Publishing" THEN phase
                                                 ELSE "Computing", task |-> t]
                         /\ (phase \in Begun) <=> (owners'[f] = t)
                         /\ phase = "Claimed" => owners'[f] = None
    BY Zenon DEF SingleFlight
  <2> QED
    BY DEF SingleFlight, Begun, Active
<1>2. Owned'
  BY Zenon DEF Owned, TypeOK
<1>3. Fresh'
  BY DEF Fresh, Begun
<1>4. WaitsBegun'
  BY DEF WaitsBegun, Begun
<1>5. Committed' /\ PublishedReady'
  BY DEF Committed, PublishedReady, Begun
<1>6. WaitGraphAcyclic'
  BY FewerEdges DEF Edge
<1> QED
  BY <1>1, <1>2, <1>3, <1>4, <1>5, <1>6

LEMMA SettleKeeps ==
  ASSUME NEW tk \in [Tasks -> Task], NEW c \in Tasks \cup {None}, NEW f \in Facts,
         NEW outcome, NEW t \in Tasks
  PROVE  /\ Settle(tk, c, f, outcome)[t].fact = tk[t].fact
         /\ Settle(tk, c, f, outcome)[t].phase = tk[t].phase
<1>1. \A g \in Tasks : tk[g] \in Task
  OBVIOUS
<1> QED
  BY <1>1 DEF Settle, Task

\* Returning to the caller changes no task's fact or phase.
LEMMA ReturnKeeps ==
  ASSUME TypeOK, NEW th \in Threads, stack[th] # <<>>, NEW outcome,
         NEW tk \in [Tasks -> Task], Return(th, outcome, tk), NEW t \in Tasks
  PROVE  task'[t].fact = tk[t].fact /\ task'[t].phase = tk[t].phase
  BY SettleKeeps, ContextType, TopType DEF Return

-----------------------------------------------------------------------------
\* The quiet steps: a request on its way, the waits, the course of a computation.
LEMMA RequestQuiet ==
  ASSUME TypeOK, NEW th \in Threads,
         \/ Request(th) \/ Check(th) \/ Look(th) \/ Admit(th)
         \/ WaitFor(th) /\ UNCHANGED waiting
  PROVE  Quiet
<1>1. stack[th] # <<>>
  BY DEF Request, Check, Look, Admit, WaitFor, At
<1>2. \/ UNCHANGED task
      \/ \E outcome \in {"Ok"} \cup Errors : Return(th, outcome, task)
  BY DEF Request, Check, Look, Admit, WaitFor, Errors
<1>3. \A t \in Tasks : task'[t].fact = task[t].fact /\ task'[t].phase = task[t].phase
  <2>1. task \in [Tasks -> Task]
    BY DEF TypeOK
  <2> QED
    BY <1>1, <1>2, <2>1, ReturnKeeps
<1>4. UNCHANGED <<cell, owners, records, next_task, waiting>>
  BY DEF Request, Check, Look, Admit, WaitFor, runtime
<1> QED
  BY <1>3, <1>4 DEF Quiet

LEMMA WaitQuiet ==
  ASSUME TypeOK, NEW th \in Threads,
         RegisterInterest(th) \/ Unwait(th) \/ DropInterest(th)
  PROVE  Quiet
<1>1. CASE RegisterInterest(th) \/ DropInterest(th)
  BY <1>1 DEF RegisterInterest, DropInterest, Quiet, runtime
<1>2. CASE Unwait(th)
  <2> DEFINE c == Context(th)
             u == Top(th).task
  <2>1. c \in Tasks \cup {None} /\ u \in Tasks
    BY <1>2, ContextType, TopType DEF Unwait, At, Top, TaskPcs
  <2>2. waiting' = IF c = None THEN waiting
                   ELSE [waiting EXCEPT ![c][u] = IF @ > 0 THEN @ - 1 ELSE 0]
    BY <1>2 DEF Unwait, RemoveWait
  <2> HIDE DEF c, u
  <2>3. \A x, y \in Tasks : waiting'[x][y] > 0 => waiting[x][y] > 0
    BY <2>1, <2>2 DEF TypeOK
  <2> QED
    BY <1>2, <2>3 DEF Unwait, Quiet
<1> QED
  BY <1>1, <1>2

\* An update of a task that moves it to another phase.
LEMMA PhaseMoves ==
  ASSUME TypeOK, NEW t \in Tasks, NEW ph, SetPhase(t, ph)
  PROVE  \A u \in Tasks : /\ task'[u].fact = task[u].fact
                          /\ task'[u].phase = IF u = t THEN ph ELSE task[u].phase
<1>1. \A u \in Tasks : task[u] \in Task
  BY DEF TypeOK
<1> QED
  BY <1>1 DEF SetPhase, TypeOK, Task

LEMMA ComputeQuiet ==
  ASSUME TypeOK, NEW th \in Threads,
         \/ Suspend(th) \/ Resume(th) \/ Compute(th) \/ Fail(th) \/ CheckShared(th)
         \/ LaneEnds(th) \/ Deliver(th)
         \/ \E t \in Tasks : Call(th, t)
         \/ \E t \in Tasks, h \in Helpers : SpawnLane(th, t, h)
  PROVE  Quiet
<1>1. \A t \in Tasks : task[t] \in Task
  BY DEF TypeOK
<1>2. ASSUME Suspend(th) \/ Resume(th) \/ Compute(th) \/ Fail(th) \/ CheckShared(th)
      PROVE  Quiet
  <2>1. Top(th).task \in Tasks
    BY <1>2, RunsTask, Zenon DEF Suspend, Resume, Compute, Fail, CheckShared, Runs
  <2> DEFINE t == Top(th).task
  <2> DEFINE Moved(ph) ==
               \A u \in Tasks : /\ task'[u].fact = task[u].fact
                                /\ task'[u].phase = IF u = t THEN ph ELSE task[u].phase
  <2>2. task[t].phase \in Begun
    BY <1>2, Zenon DEF Suspend, Resume, Compute, Fail, CheckShared, Runs, Begun
  <2>3. Suspend(th) => Moved("Joining")
    BY <2>1, PhaseMoves DEF Suspend
  <2>4. Resume(th) => Moved("Recording")
    <3>1. Resume(th) => task' = [task EXCEPT ![t].phase = "Recording", ![t].forked = FALSE]
      BY DEF Resume
    <3> QED
      BY <1>1, <2>1, <3>1 DEF TypeOK, Task
  <2>5. Compute(th) => Moved("Computed")
    BY <2>1, PhaseMoves DEF Compute
  <2>6. Fail(th) => Moved("Abandoning")
    <3> SUFFICES ASSUME Fail(th) PROVE Moved("Abandoning")
      OBVIOUS
    <3>1. PICK e : task' = [task EXCEPT ![t].phase = "Abandoning", ![t].errors = {e}]
      BY Zenon DEF Fail
    <3> QED
      BY <1>1, <2>1, <3>1, Zenon DEF TypeOK, Task
  <2>7. CheckShared(th) => Moved("Abandoning") \/ Moved("Prepare")
    <3>1. ASSUME task' = [task EXCEPT ![t].phase = "Abandoning",
                                      ![t].errors = {"Cancelled"}]
          PROVE  Moved("Abandoning")
      BY <1>1, <2>1, <3>1, Zenon DEF TypeOK, Task
    <3>2. ASSUME task' = [task EXCEPT ![t].phase = "Prepare"]
          PROVE  Moved("Prepare")
      BY <1>1, <2>1, <3>2 DEF TypeOK, Task
    <3> HIDE DEF Moved
    <3> QED
      BY <3>1, <3>2 DEF CheckShared
  <2>8. \E ph \in Begun : Moved(ph)
    <3> HIDE DEF Moved
    <3> QED
      BY <1>2, <2>3, <2>4, <2>5, <2>6, <2>7 DEF Begun
  <2> QED
    BY <1>2, <2>2, <2>8, Zenon DEF Suspend, Resume, Compute, Fail, CheckShared, Quiet, runtime
<1>3. CASE LaneEnds(th)
  BY <1>3, Zenon DEF LaneEnds, Quiet, runtime
<1>4. CASE Deliver(th)
  <2> DEFINE t == Top(th).task
             tk == [task EXCEPT ![t].phase = "Done"]
  <2>1. stack[th] # <<>> /\ t \in Tasks
    BY <1>4, RunsTask DEF Deliver, Runs
  <2>2. tk \in [Tasks -> Task]
    BY <2>1, PhaseType, Zenon DEF Phases
  <2>3. \A u \in Tasks : tk[u].fact = task[u].fact
    BY <1>1, <2>1 DEF TypeOK, Task
  <2>4. \A u \in Tasks : \/ tk[u].phase = task[u].phase
                         \/ task[u].phase = "Published" /\ tk[u].phase = "Done"
    BY <1>1, <1>4, <2>1 DEF Deliver, Runs, TypeOK, Task
  <2>5. PICK outcome : Return(th, outcome, tk)
    BY <1>4 DEF Deliver
  <2> HIDE DEF tk
  <2>6. \A u \in Tasks : task'[u].fact = tk[u].fact /\ task'[u].phase = tk[u].phase
    BY <2>1, <2>2, <2>5, ReturnKeeps
  <2> QED
    BY <1>4, <2>3, <2>4, <2>6 DEF Deliver, Quiet, runtime
<1>5. ASSUME NEW t \in Tasks, Call(th, t)
      PROVE  Quiet
  BY <1>1, <1>5, Zenon DEF Call, Quiet, runtime, TypeOK, Task
<1>6. ASSUME NEW t \in Tasks, NEW h \in Helpers, SpawnLane(th, t, h)
      PROVE  Quiet
  BY <1>1, <1>6 DEF SpawnLane, Quiet, runtime, TypeOK, Task
<1> QED
  BY <1>2, <1>3, <1>4, <1>5, <1>6

-----------------------------------------------------------------------------
\* The cell of an active task.
LEMMA ActiveCell ==
  ASSUME SingleFlight, NEW t \in Tasks, task[t].phase \in Active
  PROVE  /\ cell[task[t].fact].task = t
         /\ task[t].phase = "Publishing" => cell[task[t].fact].st = "Publishing"
         /\ task[t].phase # "Publishing" => cell[task[t].fact].st = "Computing"
<1> DEFINE st == IF task[t].phase = "Publishing" THEN task[t].phase ELSE "Computing"
<1>1. cell[task[t].fact] = [st |-> st, task |-> t]
  BY DEF SingleFlight
<1> QED
  BY <1>1

\* No two tasks are active for one fact: the cell names only one.
LEMMA NoOtherFlight ==
  ASSUME SingleFlight, NEW t \in Tasks, NEW u \in Tasks, task[u].fact = task[t].fact,
         task[t].phase \in Active, task[u].phase \in Active
  PROVE  u = t
  BY ActiveCell

\* What the steps that claim, begin, commit, publish or give up have in common:
\* one task t moves, with the cell and the owner of its fact f.
OneFlight(t, f) ==
  /\ task'[t].fact = f
  /\ \A u \in Tasks \ {t} : /\ task'[u].fact = task[u].fact
                            /\ task'[u].phase = task[u].phase
                            /\ task[u].fact = f => task[u].phase \notin Active
  /\ \A g \in Facts \ {f} : /\ cell'[g] = cell[g]
                            /\ owners'[g] = owners[g]
                            /\ owners[g] # t

LEMMA OneFlightKeeps ==
  ASSUME Inv, TypeOK', NEW t \in Tasks, NEW f \in Facts, OneFlight(t, f),
         \/ task'[t].phase \in Begun /\ owners'[f] = t
         \/ task'[t].phase \notin Begun /\ owners'[f] = None,
         task'[t].phase \in Active =>
           cell'[f] = [st |-> IF task'[t].phase = "Publishing" THEN "Publishing"
                              ELSE "Computing", task |-> t]
  PROVE  SingleFlight' /\ Owned'
<1>1. ASSUME NEW u \in Tasks
      PROVE  LET g == task'[u].fact
                 phase == task'[u].phase
             IN /\ phase \in Active =>
                     cell'[g] = [st |-> IF phase = "Publishing" THEN phase
                                        ELSE "Computing", task |-> u]
                /\ (phase \in Begun) <=> (owners'[g] = u)
                /\ phase = "Claimed" => owners'[g] = None
  <2>1. CASE u = t
    BY <2>1, NoneIsNoTask DEF OneFlight, Begun
  <2>2. CASE u # t /\ task[u].fact = f
    BY <2>2, NoneIsNoTask DEF OneFlight, Active
  <2>3. CASE u # t /\ task[u].fact # f
    <3>1. task[u].fact \in Facts
      BY Zenon DEF Inv, TypeOK, Task
    <3> QED
      BY <2>3, <3>1 DEF OneFlight, Inv, SingleFlight
  <2> QED
    BY <2>1, <2>2, <2>3, Zenon
<1>2. SingleFlight'
  BY <1>1, Zenon DEF SingleFlight
<1>3. ASSUME NEW g \in Facts, owners'[g] # None
      PROVE  task'[owners'[g]].fact = g
  <2>1. owners'[g] \in Tasks
    BY <1>3, Zenon DEF TypeOK
  <2>2. CASE g = f
    BY <1>3, <2>2, Zenon DEF OneFlight
  <2>3. CASE g # f
    BY <1>3, <2>1, <2>3, SMTT(30) DEF OneFlight, Inv, Owned
  <2> QED
    BY <2>2, <2>3
<1> QED
  BY <1>2, <1>3 DEF Owned

LEMMA ClaimKeeps ==
  ASSUME Inv, TypeOK', NEW th \in Threads, Claim(th)
  PROVE  Inv'
<1> DEFINE f == Top(th).fact
           t == next_task
<1>1. f \in Facts
  BY TopType, Zenon DEF Claim, At, Inv
<1>2. CASE cell[f].st # "Vacant"
  BY <1>2, QuietKeeps, Zenon DEF Claim, Quiet, runtime
<1>3. CASE cell[f].st = "Vacant"
  <2>1. /\ t \in Tasks
        /\ task' = [task EXCEPT ![t] = NewTask(f, IF f \in Requested THEN t ELSE Top(th).tok)]
        /\ cell' = [cell EXCEPT ![f] = [st |-> "Computing", task |-> t]]
        /\ next_task' = t + 1
        /\ UNCHANGED runtime
    BY <1>3 DEF Claim
  <2>2. \A u \in Tasks : task[u] \in Task
    BY Zenon DEF Inv, TypeOK
  <2>3. task[t].phase = "Free"
    <3>1. Fresh /\ t \in Nat
      BY Zenon DEF Inv, TypeOK
    <3> QED
      BY <2>1, <3>1 DEF Fresh
  <2>4. \A g \in Facts : owners[g] # t
    BY <2>1, <2>3, NoneIsNoTask DEF Inv, Owned, SingleFlight, Begun
  <2>5. \A u \in Tasks : task[u].fact = f => task[u].phase \notin Active
    BY <1>3, ActiveCell, Zenon DEF Inv
  <2>6. owners[f] = None
    <3>1. owners[f] # None => owners[f] \in Tasks /\ task[owners[f]].fact = f
      BY <1>1, Zenon DEF Inv, TypeOK, Owned
    <3>2. owners[f] # None => task[owners[f]].phase \in Begun
      BY <3>1, Zenon DEF Inv, SingleFlight
    <3> QED
      BY <2>5, <3>1, <3>2, Zenon DEF Active
  <2>7. /\ task'[t].fact = f /\ task'[t].phase = "Claimed"
        /\ \A u \in Tasks \ {t} : task'[u] = task[u]
    BY <2>1, Zenon DEF NewTask, Inv, TypeOK
  <2>8. \A g \in Facts : cell'[g] = IF g = f THEN [st |-> "Computing", task |-> t]
                                    ELSE cell[g]
    BY <2>1, Zenon DEF Inv, TypeOK
  <2>9. owners' = owners /\ waiting' = waiting /\ records' = records
    BY <2>1 DEF runtime
  <2>10. SingleFlight' /\ Owned'
    <3>1. OneFlight(t, f)
      BY <2>4, <2>5, <2>7, <2>8, <2>9, Zenon DEF OneFlight
    <3>2. task'[t].phase \notin Begun /\ owners'[f] = None
      BY <2>6, <2>7, <2>9 DEF Begun
    <3>3. cell'[f] = [st |-> IF task'[t].phase = "Publishing" THEN "Publishing"
                             ELSE "Computing", task |-> t]
      BY <1>1, <2>7, <2>8, Zenon
    <3>4. t \in Tasks
      BY <2>1
    <3> QED
      BY <1>1, <3>1, <3>2, <3>3, <3>4, OneFlightKeeps, Zenon
  <2>11. Fresh'
    <3>1. Fresh /\ next_task \in Nat /\ next_task' = next_task + 1
      BY <2>1, Zenon DEF Inv, TypeOK
    <3>2. \A u \in Tasks \ {next_task} : task'[u] = task[u]
      BY <2>7
    <3> QED
      BY <3>1, <3>2 DEF Fresh, Tasks
  <2>12. WaitsBegun'
    BY <2>1, <2>3, <2>7, <2>9, Zenon DEF Inv, WaitsBegun
  <2>13. Committed'
    <3>1. Committed
      BY DEF Inv
    <3>2. /\ f \in DOMAIN records <=> cell'[f].st \in {"Publishing", "Ready"}
          /\ \A g \in Facts \ {f} : cell'[g] = cell[g]
      BY <1>1, <1>3, <2>8, <3>1 DEF Committed
    <3> HIDE DEF f, t
    <3> QED
      BY <2>9, <3>1, <3>2, Zenon DEF Committed
  <2>14. PublishedReady'
    <3> SUFFICES ASSUME NEW u \in Tasks, task'[u].phase = "Published"
                 PROVE  cell'[task'[u].fact].st = "Ready"
      BY DEF PublishedReady
    <3>1. u # t /\ task'[u] = task[u]
      BY <2>7
    <3>2. cell[task[u].fact].st = "Ready"
      BY <3>1 DEF Inv, PublishedReady
    <3>3. task[u].fact \in Facts
      BY <2>2 DEF Task
    <3> HIDE DEF f, t
    <3> QED
      BY <1>3, <2>8, <3>1, <3>2, <3>3, Zenon
  <2>15. \A x, u \in Tasks : Edge(x, u)' => Edge(x, u)
    BY <2>1, <2>3, <2>7, <2>9, Zenon DEF Inv, WaitsBegun, Edge
  <2> QED
    BY <2>10, <2>11, <2>12, <2>13, <2>14, <2>15, FewerEdges DEF Inv
<1> QED
  BY <1>2, <1>3

\* An active task is the only one for its fact and owns no other.
LEMMA OnlyFlight ==
  ASSUME Inv, NEW t \in Tasks, task[t].phase \in Active
  PROVE  /\ task[t].fact \in Facts
         /\ \A u \in Tasks \ {t} :
              task[u].fact = task[t].fact => task[u].phase \notin Active
         /\ \A g \in Facts \ {task[t].fact} : owners[g] # t
<1>1. task[t].fact \in Facts
  BY Zenon DEF Inv, TypeOK, Task
<1>2. \A u \in Tasks \ {t} : task[u].fact = task[t].fact => task[u].phase \notin Active
  BY NoOtherFlight DEF Inv
<1>3. \A g \in Facts \ {task[t].fact} : owners[g] # t
  BY NoneIsNoTask DEF Inv, Owned
<1> QED
  BY <1>1, <1>2, <1>3, Zenon

\* The fact of an active task that has not begun, or has ended, has no owner.
LEMMA Unowned ==
  ASSUME Inv, NEW t \in Tasks, task[t].phase \in Active \ Begun
  PROVE  owners[task[t].fact] = None
<1> DEFINE o == owners[task[t].fact]
<1>1. task[t].fact \in Facts
  BY OnlyFlight
<1>2. o # None => o \in Tasks /\ task[o].fact = task[t].fact
  BY <1>1, Zenon DEF Inv, TypeOK, Owned
<1>3. o # None => task[o].phase \in Begun
  BY <1>2, Zenon DEF Inv, SingleFlight
<1>4. o # None => o = t
  BY <1>2, <1>3, NoOtherFlight, Zenon DEF Inv, Active
<1> QED
  BY <1>3, <1>4, Zenon

LEMMA BeginKeeps ==
  ASSUME Inv, TypeOK', NEW th \in Threads, Begin(th)
  PROVE  Inv'
<1> DEFINE t == Top(th).task
           f == task[t].fact
<1>1. t \in Tasks /\ task[t].phase = "Claimed"
  BY RunsTask, Zenon DEF Begin, Runs, Inv
<1>2. \A u \in Tasks : /\ task'[u].fact = task[u].fact
                       /\ task'[u].phase = IF u = t THEN "Recording" ELSE task[u].phase
  BY <1>1, PhaseMoves, Zenon DEF Begin, Inv
<1>3. /\ f \in Facts
      /\ \A u \in Tasks \ {t} : task[u].fact = f => task[u].phase \notin Active
      /\ \A g \in Facts \ {f} : owners[g] # t
  BY <1>1, OnlyFlight, Zenon DEF Active
<1>4. \A g \in Facts : owners'[g] = IF g = f THEN t ELSE owners[g]
  BY Zenon DEF Begin, Inv, TypeOK
<1>5. UNCHANGED <<cell, waiting, records, next_task>>
  BY Zenon DEF Begin
<1>6. SingleFlight' /\ Owned'
  <2>1. OneFlight(t, f)
    BY <1>1, <1>2, <1>3, <1>4, <1>5, Zenon DEF OneFlight
  <2>2. cell[f] = [st |-> "Computing", task |-> t]
    BY <1>1, Zenon DEF Inv, SingleFlight, Active
  <2> QED
    BY <1>1, <1>2, <1>3, <1>4, <1>5, <2>1, <2>2, OneFlightKeeps, Zenon DEF Begun
<1>7. Fresh' /\ WaitsBegun'
  BY <1>1, <1>2, <1>5, Zenon DEF Inv, Fresh, WaitsBegun
<1>8. Committed' /\ PublishedReady'
  BY <1>1, <1>2, <1>5, Zenon DEF Inv, Committed, PublishedReady
<1>9. \A x, u \in Tasks : Edge(x, u)' => Edge(x, u)
  <2>1. \A u \in Tasks : task[u].fact \in Facts
    BY Zenon DEF Inv, TypeOK, Task
  <2> QED
    BY <1>1, <1>2, <1>4, <1>5, <2>1, SMTT(30) DEF Edge, Inv, WaitsBegun
<1> QED
  BY <1>6, <1>7, <1>8, <1>9, FewerEdges DEF Inv

\* remove_evaluation, of an active task: its fact has no owner any more, and no
\* edge is new.
LEMMA RemoveKeeps ==
  ASSUME Inv, NEW t \in Tasks, task[t].phase \in Begun, RemoveEvaluation(t),
         \A u \in Tasks : task'[u].fact = task[u].fact
  PROVE  /\ \A g \in Facts : owners'[g] = IF g = task[t].fact THEN None ELSE owners[g]
         /\ \A x, u \in Tasks : waiting'[x][u] > 0 => waiting[x][u] > 0
         /\ \A x, u \in Tasks : Edge(x, u)' => Edge(x, u)
<1>1. owners[task[t].fact] = t
  BY Zenon DEF Inv, SingleFlight
<1>2. \A g \in Facts : owners'[g] = IF g = task[t].fact THEN None ELSE owners[g]
  BY <1>1 DEF RemoveEvaluation
<1>3. \A x, u \in Tasks : waiting'[x][u] > 0 => waiting[x][u] > 0
  <2>1. waiting \in [Tasks -> [Tasks -> Nat]]
    BY Zenon DEF Inv, TypeOK
  <2> QED
    BY <2>1 DEF RemoveEvaluation
<1>4. \A u \in Tasks : task[u].fact \in Facts
  BY Zenon DEF Inv, TypeOK, Task
<1> QED
  BY <1>2, <1>3, <1>4, NoneIsNoTask, SMTT(30) DEF Edge

LEMMA CommitKeeps ==
  ASSUME Inv, TypeOK', NEW th \in Threads, Commit(th)
  PROVE  Inv'
<1> DEFINE t == Top(th).task
           f == task[t].fact
<1>1. t \in Tasks /\ task[t].phase = "Prepare"
  BY RunsTask, Zenon DEF Commit, Runs, Inv
<1>2. \A u \in Tasks : /\ task'[u].fact = task[u].fact
                       /\ task'[u].phase = IF u = t THEN "Publishing" ELSE task[u].phase
  <2>1. task \in [Tasks -> Task] /\ task[t] \in Task
    BY <1>1, Zenon DEF Inv, TypeOK
  <2>2. task' = [task EXCEPT ![t].phase = "Publishing", ![t].deps = {}]
    BY Zenon DEF Commit
  <2> HIDE DEF t
  <2> QED
    BY <1>1, <2>1, <2>2 DEF Task
<1>3. /\ f \in Facts
      /\ \A u \in Tasks \ {t} : task[u].fact = f => task[u].phase \notin Active
      /\ \A g \in Facts \ {f} : owners[g] # t
  BY <1>1, OnlyFlight, Zenon DEF Active, Begun
<1>4. /\ \A g \in Facts : owners'[g] = IF g = f THEN None ELSE owners[g]
      /\ \A x, u \in Tasks : waiting'[x][u] > 0 => waiting[x][u] > 0
      /\ \A x, u \in Tasks : Edge(x, u)' => Edge(x, u)
  BY <1>1, <1>2, RemoveKeeps, Zenon DEF Commit, Begun
<1>5. cell[f] = [st |-> "Computing", task |-> t]
  BY <1>1, Zenon DEF Inv, SingleFlight, Active, Begun
<1>6. \A g \in Facts : cell'[g] = IF g = f THEN [st |-> "Publishing", task |-> t]
                                  ELSE cell[g]
  <2>1. cell' = [cell EXCEPT ![f].st = "Publishing"]
    BY Zenon DEF Commit
  <2>2. [cell[f] EXCEPT !.st = "Publishing"] = [st |-> "Publishing", task |-> t]
    BY <1>5
  <2> QED
    BY <2>1, <2>2, Zenon DEF Inv, TypeOK
<1>7. DOMAIN records' = DOMAIN records \cup {f} /\ UNCHANGED next_task
  BY Zenon DEF Commit
<1>8. SingleFlight' /\ Owned'
  <2>1. OneFlight(t, f)
    BY <1>1, <1>2, <1>3, <1>4, <1>6 DEF OneFlight
  <2> QED
    BY <1>1, <1>2, <1>3, <1>4, <1>6, <2>1, OneFlightKeeps, Zenon DEF Begun
<1>9. Fresh' /\ WaitsBegun'
  <2>1. Fresh /\ WaitsBegun
    BY DEF Inv
  <2> HIDE DEF t
  <2>2. Fresh'
    BY <1>1, <1>2, <1>7, <2>1, Zenon DEF Fresh
  <2>3. WaitsBegun'
    <3> SUFFICES ASSUME NEW x \in Tasks, NEW u \in Tasks, waiting'[x][u] > 0
                 PROVE  task'[u].phase \notin {"Free", "Claimed"}
      BY DEF WaitsBegun
    <3> QED
      BY <1>2, <1>4, <2>1, Zenon DEF WaitsBegun
  <2> QED
    BY <2>2, <2>3
<1>10. Committed'
  <2>1. Committed
    BY DEF Inv
  <2> HIDE DEF f, t
  <2> SUFFICES ASSUME NEW g \in Facts
               PROVE  g \in DOMAIN records' <=> cell'[g].st \in {"Publishing", "Ready"}
    BY DEF Committed
  <2> QED
    BY <1>3, <1>6, <1>7, <2>1 DEF Committed
<1>11. PublishedReady'
  <2>1. \A u \in Tasks : task[u].fact \in Facts
    BY DEF Inv, TypeOK, Task
  <2>2. PublishedReady
    BY DEF Inv
  <2> SUFFICES ASSUME NEW u \in Tasks, task'[u].phase = "Published"
               PROVE  cell'[task'[u].fact].st = "Ready"
    BY DEF PublishedReady
  <2>3. u # t /\ task[u].phase = "Published"
    BY <1>2, Zenon
  <2>4. cell[task[u].fact].st = "Ready"
    BY <2>2, <2>3, Zenon DEF PublishedReady
  <2>5. task[u].fact # f
    BY <1>5, <2>4
  <2> HIDE DEF t, f
  <2> QED
    BY <1>2, <1>6, <2>1, <2>4, <2>5, Zenon
<1> QED
  BY <1>4, <1>8, <1>9, <1>10, <1>11, FewerEdges, Zenon DEF Inv

LEMMA PublishKeeps ==
  ASSUME Inv, TypeOK', NEW th \in Threads, Publish(th)
  PROVE  Inv'
<1> DEFINE t == Top(th).task
           f == task[t].fact
<1>1. t \in Tasks /\ task[t].phase = "Publishing"
  BY RunsTask DEF Publish, Runs, Inv
<1>2. \A u \in Tasks : /\ task'[u].fact = task[u].fact
                       /\ task'[u].phase = IF u = t THEN "Published" ELSE task[u].phase
  BY <1>1, PhaseMoves DEF Publish, Inv
<1>3. /\ f \in Facts
      /\ \A u \in Tasks \ {t} : task[u].fact = f => task[u].phase \notin Active
      /\ \A g \in Facts \ {f} : owners[g] # t
  BY <1>1, OnlyFlight, Zenon DEF Active
<1>4. cell[f].st = "Publishing"
  BY <1>1, ActiveCell, Zenon DEF Inv, Active
<1>5. \A g \in Facts : /\ g # f => cell'[g] = cell[g]
                       /\ g = f => cell'[g].st = "Ready"
  <2>1. cell[f] \in Cell
    BY <1>3, Zenon DEF Inv, TypeOK
  <2>2. [cell[f] EXCEPT !.st = "Ready"].st = "Ready"
    BY <2>1 DEF Cell
  <2>3. cell' = [cell EXCEPT ![f] = [cell[f] EXCEPT !.st = "Ready"]]
    BY DEF Publish
  <2> QED
    BY <2>2, <2>3, Zenon DEF Inv, TypeOK
<1>6. UNCHANGED <<owners, waiting, records, next_task>>
  BY DEF Publish, runtime
<1>7. owners[f] = None
  BY <1>1, Unowned, Zenon DEF Active, Begun
<1>8. SingleFlight' /\ Owned'
  <2>1. OneFlight(t, f)
    BY <1>1, <1>2, <1>3, <1>5, <1>6, Zenon DEF OneFlight
  <2> QED
    <3>1. task'[t].phase \notin Begun /\ task'[t].phase \notin Active
      BY <1>1, <1>2, Zenon DEF Begun, Active
    <3>2. owners'[f] = None
      BY <1>6, <1>7
    <3> QED
      BY <1>1, <1>3, <2>1, <3>1, <3>2, OneFlightKeeps, Zenon
<1>9. Fresh' /\ WaitsBegun'
  BY <1>1, <1>2, <1>6, Zenon DEF Inv, Fresh, WaitsBegun
<1>10. Committed'
  <2>1. Committed
    BY DEF Inv
  <2> HIDE DEF f
  <2> QED
    BY <1>3, <1>4, <1>5, <1>6, <2>1, Zenon DEF Committed
<1>11. PublishedReady'
  <2>1. \A u \in Tasks : task[u].fact \in Facts
    BY DEF Inv, TypeOK, Task
  <2>2. PublishedReady
    BY DEF Inv
  <2> QED
    BY <1>1, <1>2, <1>5, <2>1, <2>2, SMTT(30) DEF PublishedReady
<1>12. \A x, u \in Tasks : Edge(x, u)' => Edge(x, u)
  BY <1>2, <1>6, Zenon DEF Edge
<1> QED
  BY <1>8, <1>9, <1>10, <1>11, <1>12, FewerEdges DEF Inv

LEMMA AbandonKeeps ==
  ASSUME Inv, TypeOK', NEW th \in Threads, Abandon(th)
  PROVE  Inv'
<1> DEFINE t == Top(th).task
           f == task[t].fact
<1>1. t \in Tasks /\ task[t].phase = "Abandoning"
  BY RunsTask DEF Abandon, Runs, Inv
<1>2. \A u \in Tasks : /\ task'[u].fact = task[u].fact
                       /\ task'[u].phase = IF u = t THEN "Abandoned" ELSE task[u].phase
  <2>1. task \in [Tasks -> Task] /\ task[t] \in Task
    BY <1>1, Zenon DEF Inv, TypeOK
  <2>2. task' = [task EXCEPT ![t].phase = "Abandoned", ![t].deps = {}]
    BY DEF Abandon
  <2> HIDE DEF t
  <2> QED
    BY <1>1, <2>1, <2>2 DEF Task
<1>3. /\ f \in Facts
      /\ \A u \in Tasks \ {t} : task[u].fact = f => task[u].phase \notin Active
      /\ \A g \in Facts \ {f} : owners[g] # t
  BY <1>1, OnlyFlight, Zenon DEF Active, Begun
<1>4. /\ \A g \in Facts : owners'[g] = IF g = f THEN None ELSE owners[g]
      /\ \A x, u \in Tasks : waiting'[x][u] > 0 => waiting[x][u] > 0
      /\ \A x, u \in Tasks : Edge(x, u)' => Edge(x, u)
  BY <1>1, <1>2, RemoveKeeps, Zenon DEF Abandon, Begun
<1>5. cell[f] = [st |-> "Computing", task |-> t]
  BY <1>1, Zenon DEF Inv, SingleFlight, Active, Begun
<1>6. UNCHANGED <<cell, records, next_task>>
  BY DEF Abandon
<1>7. SingleFlight' /\ Owned'
  <2>1. OneFlight(t, f)
    BY <1>1, <1>2, <1>3, <1>4, <1>6, Zenon DEF OneFlight
  <2> QED
    BY <1>1, <1>2, <1>3, <1>4, <1>5, <1>6, <2>1, OneFlightKeeps, Zenon DEF Begun
<1>8. Fresh' /\ WaitsBegun'
  BY <1>1, <1>2, <1>4, <1>6, SMTT(30) DEF Inv, Fresh, WaitsBegun
<1>9. Committed' /\ PublishedReady'
  BY <1>1, <1>2, <1>6, Zenon DEF Inv, Committed, PublishedReady
<1> QED
  BY <1>4, <1>7, <1>8, <1>9, FewerEdges, Zenon DEF Inv

LEMMA VacateKeeps ==
  ASSUME Inv, TypeOK', NEW th \in Threads, Vacate(th)
  PROVE  Inv'
<1> DEFINE t == Top(th).task
           f == task[t].fact
           tk == [task EXCEPT ![t].phase = "Done"]
<1>1. stack[th] # <<>> /\ t \in Tasks /\ task[t].phase = "Abandoned"
  BY RunsTask DEF Vacate, Runs, Inv
<1>2. \A u \in Tasks : /\ task'[u].fact = task[u].fact
                       /\ task'[u].phase = IF u = t THEN "Done" ELSE task[u].phase
  <2>1. \A u \in Tasks : task[u] \in Task
    BY DEF Inv, TypeOK
  <2>2. tk \in [Tasks -> Task]
    BY <1>1, PhaseType, Zenon DEF Phases, Inv
  <2>3. \A u \in Tasks : /\ tk[u].fact = task[u].fact
                         /\ tk[u].phase = IF u = t THEN "Done" ELSE task[u].phase
    BY <1>1, <2>1, Zenon DEF Inv, TypeOK, Task
  <2>4. PICK e : Return(th, e, tk)
    BY DEF Vacate
  <2> HIDE DEF tk
  <2>5. \A u \in Tasks : task'[u].fact = tk[u].fact /\ task'[u].phase = tk[u].phase
    BY <1>1, <2>2, <2>4, ReturnKeeps, Zenon DEF Inv
  <2> QED
    BY <2>3, <2>5
<1>3. /\ f \in Facts
      /\ \A u \in Tasks \ {t} : task[u].fact = f => task[u].phase \notin Active
      /\ \A g \in Facts \ {f} : owners[g] # t
  BY <1>1, OnlyFlight, Zenon DEF Active
<1>4. cell[f].st = "Computing"
  BY <1>1, ActiveCell, Zenon DEF Inv, Active
<1>5. \A g \in Facts : /\ g # f => cell'[g] = cell[g]
                       /\ g = f => cell'[g].st = "Vacant"
  BY Zenon DEF Vacate, Inv, TypeOK
<1>6. UNCHANGED <<owners, waiting, records, next_task>>
  BY DEF Vacate, runtime
<1>7. owners[f] = None
  BY <1>1, Unowned, Zenon DEF Active, Begun
<1>8. SingleFlight' /\ Owned'
  <2>1. OneFlight(t, f)
    BY <1>1, <1>2, <1>3, <1>5, <1>6, Zenon DEF OneFlight
  <2>2. task'[t].phase \notin Begun /\ task'[t].phase \notin Active
    BY <1>1, <1>2, Zenon DEF Begun, Active
  <2>3. owners'[f] = None
    BY <1>6, <1>7
  <2> QED
    BY <1>1, <1>3, <2>1, <2>2, <2>3, OneFlightKeeps, Zenon
<1>9. Fresh' /\ WaitsBegun'
  BY <1>1, <1>2, <1>6, Zenon DEF Inv, Fresh, WaitsBegun
<1>10. Committed'
  <2>1. Committed
    BY DEF Inv
  <2> HIDE DEF f
  <2> QED
    BY <1>3, <1>4, <1>5, <1>6, <2>1, Zenon DEF Committed
<1>11. PublishedReady'
  <2>1. \A u \in Tasks : task[u].fact \in Facts
    BY DEF Inv, TypeOK, Task
  <2>2. PublishedReady
    BY DEF Inv
  <2> QED
    BY <1>1, <1>2, <1>4, <1>5, <2>1, <2>2, SMTT(30) DEF PublishedReady
<1>12. \A x, u \in Tasks : Edge(x, u)' => Edge(x, u)
  BY <1>2, <1>6, Zenon DEF Edge
<1> QED
  BY <1>8, <1>9, <1>10, <1>11, <1>12, FewerEdges DEF Inv

(***************************************************************************)
(* The wait that is let in.  cross_task_cycle found no way from the owner u *)
(* to the requester c, so some set R of tasks holds u and all that u        *)
(* reaches, but not c.  Were the new graph cyclic on S, the old one would   *)
(* be cyclic on the part of S in R (which the new edge does not leave), or  *)
(* on S itself when S misses R (and so misses u).                           *)
(***************************************************************************)
LEMMA WaitForAcyclic ==
  ASSUME WaitGraphAcyclic, NEW c \in Tasks, NEW u \in Tasks, ~Reaches(u, c),
         \A x, y \in Tasks : Edge(x, y)' => Edge(x, y) \/ (x = c /\ y = u)
  PROVE  WaitGraphAcyclic'
<1>1. PICK R \in SUBSET Tasks : /\ u \in R /\ c \notin R
                                /\ \A x \in R, y \in Tasks : Edge(x, y) => y \in R
  BY DEF Reaches
<1>2. ASSUME NEW S \in SUBSET Tasks, S # {}
      PROVE  \E x \in S : \A y \in S : ~Edge(x, y)'
  <2>1. CASE S \cap R # {}
    <3>1. S \cap R \in SUBSET Tasks
      OBVIOUS
    <3>2. PICK x \in S \cap R : \A y \in S \cap R : ~Edge(x, y)
      BY <2>1, <3>1, Zenon DEF WaitGraphAcyclic
    <3>3. \A y \in S : ~Edge(x, y)
      BY <1>1, <3>2
    <3> QED
      BY <1>1, <3>2, <3>3
  <2>2. CASE S \cap R = {}
    <3>1. PICK x \in S : \A y \in S : ~Edge(x, y)
      BY <1>2 DEF WaitGraphAcyclic
    <3>2. u \notin S
      BY <1>1, <2>2
    <3> QED
      BY <3>1, <3>2
  <2> QED
    BY <2>1, <2>2
<1> QED
  BY <1>2 DEF WaitGraphAcyclic

LEMMA WaitForKeeps ==
  ASSUME Inv, TypeOK', NEW th \in Threads, WaitFor(th)
  PROVE  Inv'
<1> DEFINE u == Top(th).task
           c == Context(th)
<1>1. CASE UNCHANGED waiting
  BY <1>1, RequestQuiet, QuietKeeps DEF Inv
<1>2. CASE ~UNCHANGED waiting
  <2>1. /\ c # None /\ ~Reaches(u, c)
        /\ owners[Top(th).fact] = u
        /\ waiting' = [waiting EXCEPT ![c][u] = @ + 1]
        /\ UNCHANGED <<cell, owners, records, task, next_task>>
    BY <1>2, Zenon DEF WaitFor
  <2>2. c \in Tasks /\ u \in Tasks /\ Top(th).fact \in Facts
    BY <2>1, ContextType, TopType, Zenon DEF WaitFor, At, Top, TaskPcs, Inv
  <2>3. task[u].phase \in Begun
    <3>1. task[u].fact = Top(th).fact
      BY <2>1, <2>2, NoneIsNoTask, Zenon DEF Inv, Owned
    <3> QED
      BY <2>1, <2>2, <3>1, Zenon DEF Inv, SingleFlight
  <2> HIDE DEF c, u
  <2>4. \A x, y \in Tasks : waiting'[x][y] > 0 => waiting[x][y] > 0 \/ (x = c /\ y = u)
    <3>1. waiting \in [Tasks -> [Tasks -> Nat]]
      BY Zenon DEF Inv, TypeOK
    <3> QED
      BY <2>1, <2>2, <3>1, Zenon
  <2>5. \A x, y \in Tasks : Edge(x, y)' => Edge(x, y) \/ (x = c /\ y = u)
    BY <2>1, <2>4 DEF Edge
  <2>6. WaitGraphAcyclic'
    BY <2>1, <2>2, <2>5, WaitForAcyclic DEF Inv
  <2>7. WaitsBegun'
    BY <2>1, <2>3, <2>4 DEF Inv, WaitsBegun, Begun
  <2> QED
    <3>1. SingleFlight'
      BY <2>1, Zenon DEF Inv, SingleFlight
    <3>2. Owned' /\ Fresh' /\ Committed' /\ PublishedReady'
      BY <2>1, Zenon DEF Inv, Owned, Fresh, Committed, PublishedReady
    <3> QED
      BY <2>6, <2>7, <3>1, <3>2 DEF Inv
<1> QED
  BY <1>1, <1>2

-----------------------------------------------------------------------------
LEMMA InitInv == Init => Inv
<1> SUFFICES ASSUME Init PROVE Inv
  OBVIOUS
<1>1. TypeOK
  BY InitType
<1>2. \A t \in Tasks : task[t].phase = "Free"
  BY DEF Init, NewTask
<1>3. \A f \in Facts : owners[f] = None /\ cell[f].st = "Vacant" /\ f \notin DOMAIN records
  BY DEF Init
<1>4. \A t, u \in Tasks : waiting[t][u] = 0
  BY DEF Init
<1>5. \A t \in Tasks : task[t].fact \in Facts
  BY <1>1, Zenon DEF TypeOK, Task
<1>6. SingleFlight
  BY <1>2, <1>3, <1>5, NoneIsNoTask, Zenon DEF SingleFlight, Active, Begun
<1>7. Owned /\ Fresh /\ WaitsBegun /\ Committed /\ PublishedReady
  BY <1>2, <1>3, <1>4 DEF Owned, Fresh, WaitsBegun, Committed, PublishedReady
<1>8. WaitGraphAcyclic
  BY <1>4 DEF WaitGraphAcyclic, Edge
<1> QED
  BY <1>1, <1>6, <1>7, <1>8 DEF Inv

LEMMA NextInv ==
  ASSUME Inv, [Next]_vars
  PROVE  Inv'
<1>1. TypeOK'
  BY TypeNext DEF Inv
<1>2. ASSUME NEW th \in Threads, ThreadStep(th)
      PROVE  Inv'
  <2>1. CASE Request(th) \/ Check(th) \/ Look(th) \/ Admit(th)
    BY <1>1, <2>1, RequestQuiet, QuietKeeps DEF Inv
  <2>2. CASE RegisterInterest(th) \/ Unwait(th) \/ DropInterest(th)
    BY <1>1, <2>2, WaitQuiet, QuietKeeps DEF Inv
  <2>3. CASE \/ Suspend(th) \/ Resume(th) \/ Compute(th) \/ Fail(th) \/ CheckShared(th)
             \/ LaneEnds(th) \/ Deliver(th)
             \/ \E t \in Tasks : Call(th, t)
    BY <1>1, <2>3, ComputeQuiet, QuietKeeps, Zenon DEF Inv
  <2> QED
    BY <1>1, <1>2, <2>1, <2>2, <2>3, ClaimKeeps, WaitForKeeps, BeginKeeps, CommitKeeps,
       PublishKeeps, AbandonKeeps, VacateKeeps, Zenon DEF ThreadStep
<1>3. ASSUME NEW th \in Threads, NEW t \in Tasks, NEW h \in Helpers, SpawnLane(th, t, h)
      PROVE  Inv'
  BY <1>1, <1>3, ComputeQuiet, QuietKeeps, Zenon DEF Inv
<1>4. ASSUME NEW r \in Roots, Cancel(r)
      PROVE  Inv'
  <2>1. Quiet
    BY <1>4, Zenon DEF Cancel, Quiet, runtime
  <2> QED
    BY <1>1, <2>1, QuietKeeps
<1>5. CASE UNCHANGED vars
  <2>1. Quiet
    BY <1>5, Zenon DEF vars, Quiet, runtime
  <2> QED
    BY <1>1, <2>1, QuietKeeps
<1> QED
  BY <1>2, <1>3, <1>4, <1>5 DEF Next

\* The inductive invariant: cells, tasks, owners, waits and records of the
\* engine always agree, through every claim, wait, publication and abandonment.
THEOREM Invariance == Spec => []Inv
  BY InitInv, NextInv, PTL DEF Spec

\* Single flight, for any program and any number of threads: no two tasks
\* evaluate a fact at once, and the runtime's owner is the cell's task.
THEOREM SingleFlightHolds == Spec => []SingleFlight
<1>1. Inv => SingleFlight
  BY DEF Inv
<1> QED
  BY <1>1, Invariance, PTL

\* The tasks never wait for each other in a cycle, for any program and any number
\* of threads: the search in `wait_for' misses no cycle of registered waits.
THEOREM WaitGraphStaysAcyclic == Spec => []WaitGraphAcyclic
<1>1. Inv => WaitGraphAcyclic
  BY DEF Inv
<1> QED
  BY <1>1, Invariance, PTL

\* One step never changes a Ready cell or a committed record: a claim needs a
\* vacant cell, and the others change the cell of an active task only.
LEMMA PublishedKept ==
  ASSUME Inv, [Next]_vars
  PROVE  [KeepsPublished]_vars
<1> DEFINE Same == UNCHANGED <<cell, records>>
<1>1. Same => KeepsPublished
  BY DEF KeepsPublished
<1>2. TypeOK
  BY DEF Inv
<1>3. ASSUME NEW th \in Threads, Claim(th)
      PROVE  KeepsPublished
  <2>1. \A f \in Facts : cell[f].st = "Ready" => cell'[f] = cell[f]
    BY <1>2, <1>3, Zenon DEF Claim, TypeOK
  <2> QED
    BY <1>3, <2>1, Zenon DEF Claim, runtime, KeepsPublished
<1>4. ASSUME NEW th \in Threads, Commit(th) \/ Publish(th) \/ Vacate(th)
      PROVE  KeepsPublished
  <2> DEFINE t == Top(th).task
             f == task[t].fact
  <2>1. t \in Tasks /\ task[t].phase \in {"Prepare", "Publishing", "Abandoned"}
    BY <1>2, <1>4, RunsTask, Zenon DEF Commit, Publish, Vacate, Runs
  <2>2. f \in Facts /\ cell[f].st # "Ready"
    BY <2>1, ActiveCell, OnlyFlight, Zenon DEF Inv, Active, Begun
  <2>3. \A g \in Facts \ {f} : cell'[g] = cell[g]
    BY <1>2, <1>4, Zenon DEF Commit, Publish, Vacate, TypeOK
  <2>4. CASE Commit(th)
    <3>1. task[t].phase = "Prepare"
      BY <2>4, Zenon DEF Commit, Runs
    <3>2. cell[f].st = "Computing"
      BY <2>1, <3>1, ActiveCell, Zenon DEF Inv, Active, Begun
    <3>3. f \notin DOMAIN records
      BY <2>2, <3>2, Zenon DEF Inv, Committed
    <3> QED
      BY <2>2, <2>3, <2>4, <3>3, Zenon DEF Commit, KeepsPublished
  <2>5. CASE Publish(th) \/ Vacate(th)
    BY <2>2, <2>3, <2>5, Zenon DEF Publish, Vacate, runtime, KeepsPublished
  <2> QED
    BY <1>4, <2>4, <2>5
<1>5. ASSUME NEW th \in Threads, ThreadStep(th),
             ~(Claim(th) \/ Commit(th) \/ Publish(th) \/ Vacate(th))
      PROVE  Same
  BY <1>5, Zenon DEF ThreadStep, Request, Check, Look, Admit, WaitFor, RegisterInterest, Unwait,
     DropInterest, Begin, Suspend, Resume, Compute, Fail, CheckShared, Deliver, Abandon,
     LaneEnds, Call, runtime
<1>6. CASE \/ \E th \in Threads, t \in Tasks, h \in Helpers : SpawnLane(th, t, h)
           \/ \E r \in Roots : Cancel(r)
           \/ UNCHANGED vars
  BY <1>6 DEF SpawnLane, Cancel, vars, runtime, KeepsPublished
<1> QED
  BY <1>1, <1>3, <1>4, <1>5, <1>6, Zenon DEF Next

\* Publications are final, for any program and any number of threads.
THEOREM PublicationsFinal == Spec => PublicationFinal
  BY PublishedKept, Invariance, PTL DEF Spec, PublicationFinal

-----------------------------------------------------------------------------
(***************************************************************************)
(* The refinement of FactStore.  Beyond Inv this needs to know that what   *)
(* a task has recorded is committed, and for that, that a running frame is *)
(* a request for its task's fact.                                          *)
(***************************************************************************)
LEMMA FramesOfTail ==
  ASSUME NEW s \in Seq(Frame), s # <<>>
  PROVE  /\ Frames(Tail(s)) \subseteq Frames(s)
         /\ Head(s) \in Frames(s)
<1>1. /\ Len(Tail(s)) = Len(s) - 1
      /\ \A i \in 1..Len(Tail(s)) : Tail(s)[i] = s[i + 1]
  BY HeadTailProperties
<1>2. Len(s) \in Nat \ {0} /\ Head(s) = s[1]
  BY EmptySeq, LenProperties
<1> QED
  BY <1>1, <1>2 DEF Frames

LEMMA FramesOfPush ==
  ASSUME NEW s \in Seq(Frame), NEW fr \in Frame
  PROVE  Frames(<<fr>> \o s) \subseteq {fr} \cup Frames(s)
<1> DEFINE p == <<fr>> \o s
<1>1. Len(p) = Len(s) + 1 /\ Len(s) \in Nat
  BY ConcatProperties, LenProperties
<1>2. ASSUME NEW i \in 1..Len(p)
      PROVE  p[i] \in {fr} \cup Frames(s)
  <2>1. CASE i = 1
    BY <2>1, ConcatProperties
  <2>2. CASE i # 1
    <3>1. p[i] = s[i - 1] /\ i - 1 \in 1..Len(s)
      BY <1>1, <2>2, ConcatProperties
    <3> QED
      BY <3>1 DEF Frames
  <2> QED
    BY <2>1, <2>2
<1> QED
  BY <1>2 DEF Frames

-----------------------------------------------------------------------------
\* A step after which every running frame was one before.
NoNewRun == \A h \in Threads : \A fr \in Frames(stack'[h]) :
              fr \in Frames(stack[h]) \/ fr.pc # "run"

\* A step that keeps the fact of every task in use and only records dependencies
\* that are committed.
TasksKept ==
  \A t \in Tasks :
    /\ task[t].phase # "Free" => /\ task'[t].fact = task[t].fact
                                 /\ task'[t].phase # "Free"
    /\ task'[t].deps \subseteq DOMAIN records'

LEMMA KeptFrames ==
  ASSUME RInv, TypeOK', NoNewRun, TasksKept
  PROVE  RunsOwn' /\ DepsCommitted'
<1>1. ASSUME NEW h \in Threads, NEW fr \in Frames(stack'[h]), fr.pc = "run"
      PROVE  task'[fr.task].fact = fr.fact /\ task'[fr.task].phase # "Free"
  <2>1. fr \in Frames(stack[h])
    BY <1>1 DEF NoNewRun
  <2>2. stack[h] \in Seq(Frame)
    BY DEF RInv, Inv, TypeOK
  <2>3. fr \in Frame
    BY <2>1, <2>2, ElementOfSeq DEF Frames
  <2>4. fr.task \in Tasks
    BY <1>1, <2>3 DEF Frame, FreePcs
  <2> QED
    BY <1>1, <2>1, <2>4 DEF RInv, RunsOwn, FrameOK, TasksKept
<1> QED
  BY <1>1 DEF RunsOwn, FrameOK, DepsCommitted, TasksKept

\* Pushing a frame, over the innermost one or in its place.
LEMMA PushFrames ==
  ASSUME TypeOK, NEW th \in Threads, NEW fr \in Frame,
         \/ stack' = [stack EXCEPT ![th] = <<fr>> \o stack[th]]
         \/ /\ stack[th] # <<>>
            /\ stack' = [stack EXCEPT ![th] = <<fr>> \o Tail(stack[th])]
  PROVE  /\ Frames(stack'[th]) \subseteq {fr} \cup Frames(stack[th])
         /\ \A h \in Threads \ {th} : stack'[h] = stack[h]
         /\ fr.pc # "run" => NoNewRun
<1>1. stack[th] \in Seq(Frame)
  BY DEF TypeOK
<1>2. Frames(<<fr>> \o stack[th]) \subseteq {fr} \cup Frames(stack[th])
  BY <1>1, FramesOfPush
<1>3. stack[th] # <<>> =>
        Frames(<<fr>> \o Tail(stack[th])) \subseteq {fr} \cup Frames(stack[th])
  <2> SUFFICES ASSUME stack[th] # <<>>
               PROVE  Frames(<<fr>> \o Tail(stack[th])) \subseteq {fr} \cup Frames(stack[th])
    OBVIOUS
  <2>1. Tail(stack[th]) \in Seq(Frame)
    BY <1>1, HeadTailProperties
  <2> QED
    BY <1>1, <2>1, FramesOfPush, FramesOfTail, Zenon
<1>4. Frames(stack'[th]) \subseteq {fr} \cup Frames(stack[th])
  BY <1>2, <1>3, Zenon DEF TypeOK
<1>5. \A h \in Threads \ {th} : stack'[h] = stack[h]
  BY DEF TypeOK
<1> QED
  BY <1>4, <1>5 DEF NoNewRun

LEMMA GotoFrames ==
  ASSUME TypeOK, NEW th \in Threads, stack[th] # <<>>, NEW pc, Goto(th, pc),
         \/ pc \in FreePcs
         \/ pc \in TaskPcs \ {"run"} /\ Top(th).task \in Tasks
  PROVE  NoNewRun
<1> DEFINE fr == [Top(th) EXCEPT !.pc = pc]
<1>1. fr \in Frame
  BY TopType DEF Frame, TaskPcs, FreePcs
<1>2. fr.pc # "run"
  BY TopType DEF Frame, TaskPcs, FreePcs
<1>3. stack' = [stack EXCEPT ![th] = <<fr>> \o Tail(stack[th])]
  BY DEF Goto
<1> HIDE DEF fr
<1> QED
  BY <1>1, <1>2, <1>3, PushFrames, Zenon

LEMMA GotoWithFrames ==
  ASSUME TypeOK, NEW th \in Threads, stack[th] # <<>>, NEW pc, NEW t,
         GotoWith(th, pc, t),
         \/ pc \in FreePcs /\ t \in Tasks \cup {None}
         \/ pc \in TaskPcs \ {"run"} /\ t \in Tasks
  PROVE  NoNewRun
<1> DEFINE fr == [Top(th) EXCEPT !.pc = pc, !.task = t]
<1>1. fr \in Frame
  BY TopType, Zenon DEF Frame, TaskPcs, FreePcs
<1>2. fr.pc # "run"
  BY TopType DEF Frame, TaskPcs, FreePcs
<1>3. stack' = [stack EXCEPT ![th] = <<fr>> \o Tail(stack[th])]
  BY DEF GotoWith
<1> HIDE DEF fr
<1> QED
  BY <1>1, <1>2, <1>3, PushFrames, Zenon

LEMMA ReturnFrames ==
  ASSUME TypeOK, NEW th \in Threads, stack[th] # <<>>, NEW outcome, NEW tk,
         Return(th, outcome, tk)
  PROVE  NoNewRun
<1>1. Frames(Tail(stack[th])) \subseteq Frames(stack[th])
  BY FramesOfTail DEF TypeOK
<1> QED
  BY <1>1 DEF Return, NoNewRun, TypeOK

\* What a task that hears of an outcome has recorded.
LEMMA SettleDeps ==
  ASSUME NEW tk \in [Tasks -> Task], NEW c \in Tasks \cup {None}, NEW f \in Facts,
         NEW outcome, NEW D, outcome = "Ok" => f \in D,
         \A t \in Tasks : tk[t].deps \subseteq D
  PROVE  \A t \in Tasks : Settle(tk, c, f, outcome)[t].deps \subseteq D
<1>1. \A t \in Tasks : tk[t] \in Task
  OBVIOUS
<1> QED
  BY <1>1 DEF Settle, Task

LEMMA ReturnKept ==
  ASSUME RInv, NEW th \in Threads, stack[th] # <<>>, NEW outcome,
         NEW tk \in [Tasks -> Task], Return(th, outcome, tk), UNCHANGED records,
         \A t \in Tasks : /\ tk[t].fact = task[t].fact
                          /\ tk[t].deps = task[t].deps
                          /\ task[t].phase # "Free" => tk[t].phase # "Free",
         outcome = "Ok" => Top(th).fact \in DOMAIN records
  PROVE  NoNewRun /\ TasksKept
<1>1. TypeOK
  BY DEF RInv, Inv
<1>2. NoNewRun
  BY <1>1, ReturnFrames
<1>3. \A t \in Tasks : task'[t].fact = tk[t].fact /\ task'[t].phase = tk[t].phase
  BY <1>1, ReturnKeeps
<1>4. \A t \in Tasks : task'[t].deps \subseteq DOMAIN records
  <2>1. \A t \in Tasks : tk[t].deps \subseteq DOMAIN records
    BY DEF RInv, DepsCommitted
  <2> QED
    BY <1>1, <2>1, SettleDeps, ContextType, TopType, Zenon DEF Return
<1> QED
  BY <1>2, <1>3, <1>4 DEF TasksKept

LEMMA SameTasks ==
  ASSUME RInv, UNCHANGED <<task, records>>
  PROVE  TasksKept
  BY DEF RInv, DepsCommitted, TasksKept

LEMMA RequestKept ==
  ASSUME RInv, NEW th \in Threads,
         Request(th) \/ Check(th) \/ Look(th) \/ Admit(th) \/ WaitFor(th)
  PROVE  NoNewRun /\ TasksKept
<1>1. TypeOK /\ task \in [Tasks -> Task]
  BY Zenon DEF RInv, Inv, TypeOK
<1>2. stack[th] # <<>>
  BY Zenon DEF Request, Check, Look, Admit, WaitFor, At
<1>3. UNCHANGED records
  BY Zenon DEF Request, Check, Look, Admit, WaitFor, runtime
<1>4. cell[Top(th).fact].st = "Ready" => Top(th).fact \in DOMAIN records
  BY <1>1, <1>2, TopType, Zenon DEF RInv, Inv, Committed
<1>5. ASSUME NEW outcome, Return(th, outcome, task),
             outcome = "Ok" => cell[Top(th).fact].st = "Ready"
      PROVE  NoNewRun /\ TasksKept
  BY <1>1, <1>2, <1>3, <1>4, <1>5, ReturnKept, Zenon
<1>6. ASSUME NEW pc \in FreePcs, Goto(th, pc), UNCHANGED task
      PROVE  NoNewRun /\ TasksKept
  BY <1>1, <1>2, <1>3, <1>6, GotoFrames, SameTasks
<1>7. CASE Request(th)
  BY <1>5, <1>6, <1>7, Zenon DEF Request, FreePcs
<1>8. CASE Check(th) \/ Admit(th)
  BY <1>5, <1>6, <1>8, Zenon DEF Check, Admit, FreePcs
<1>9. CASE Look(th)
  <2>1. ASSUME cell[Top(th).fact].st = "Computing",
               GotoWith(th, "wait_for", cell[Top(th).fact].task), UNCHANGED task
        PROVE  NoNewRun /\ TasksKept
    <3>1. cell[Top(th).fact] \in Cell
      BY <1>1, <1>2, TopType, Zenon DEF TypeOK
    <3>2. cell[Top(th).fact].task \in Tasks
      BY <2>1, <3>1 DEF Cell
    <3> QED
      BY <1>1, <1>2, <1>3, <2>1, <3>2, GotoWithFrames, SameTasks DEF TaskPcs
  <2> QED
    BY <1>5, <1>6, <1>9, <2>1, Zenon DEF Look, FreePcs
<1>10. CASE WaitFor(th)
  <2>1. Top(th).task \in Tasks
    BY <1>1, <1>2, <1>10, TopType, Zenon DEF WaitFor, At, Top, TaskPcs
  <2>2. ASSUME GotoWith(th, "check", None), UNCHANGED task
        PROVE  NoNewRun /\ TasksKept
    BY <1>1, <1>2, <1>3, <2>2, GotoWithFrames, SameTasks DEF FreePcs
  <2>3. ASSUME Goto(th, "register"), UNCHANGED task
        PROVE  NoNewRun /\ TasksKept
    BY <1>1, <1>2, <1>3, <2>1, <2>3, GotoFrames, SameTasks DEF TaskPcs
  <2> QED
    BY <1>5, <1>10, <2>2, <2>3, Zenon DEF WaitFor
<1> QED
  BY <1>7, <1>8, <1>9, <1>10

LEMMA WaitKept ==
  ASSUME RInv, NEW th \in Threads,
         RegisterInterest(th) \/ Unwait(th) \/ DropInterest(th)
  PROVE  NoNewRun /\ TasksKept
<1>1. TypeOK
  BY DEF RInv, Inv
<1>2. stack[th] # <<>> /\ Top(th).task \in Tasks
  BY <1>1, TopType, Zenon DEF RegisterInterest, Unwait, DropInterest, At, Top, TaskPcs
<1>3. UNCHANGED <<task, records>>
  BY Zenon DEF RegisterInterest, Unwait, DropInterest, runtime
<1>4. PICK pc \in {"wait", "drop", "check"} : Goto(th, pc)
  BY Zenon DEF RegisterInterest, Unwait, DropInterest
<1> QED
  BY <1>1, <1>2, <1>3, <1>4, GotoFrames, SameTasks DEF TaskPcs, FreePcs

LEMMA EvaluationKept ==
  ASSUME RInv, NEW th \in Threads,
         \/ Begin(th) \/ Suspend(th) \/ Resume(th) \/ Compute(th) \/ Fail(th)
         \/ CheckShared(th) \/ Commit(th) \/ Publish(th) \/ Abandon(th)
  PROVE  NoNewRun /\ TasksKept
<1> DEFINE t == Top(th).task
           Moved(ph) ==
             \A u \in Tasks : /\ task'[u].fact = task[u].fact
                              /\ task'[u].phase = IF u = t THEN ph ELSE task[u].phase
                              /\ task'[u].deps \subseteq task[u].deps
<1>1. TypeOK
  BY DEF RInv, Inv
<1>2. t \in Tasks
  BY <1>1, RunsTask, Zenon DEF Begin, Suspend, Resume, Compute, Fail, CheckShared, Commit,
                        Publish, Abandon, Runs
<1>3. \A u \in Tasks : task[u] \in Task
  BY <1>1, Zenon DEF TypeOK
<1>4. \A ph : SetPhase(t, ph) => Moved(ph)
  BY <1>1, <1>2, <1>3 DEF SetPhase, TypeOK, Task
<1>5. Resume(th) => Moved("Recording")
  BY <1>1, <1>2, <1>3 DEF Resume, TypeOK, Task
<1>6. Fail(th) => Moved("Abandoning")
  <2> SUFFICES ASSUME Fail(th) PROVE Moved("Abandoning")
    OBVIOUS
  <2>1. PICK e : task' = [task EXCEPT ![t].phase = "Abandoning", ![t].errors = {e}]
    BY Zenon DEF Fail
  <2> QED
    BY <1>1, <1>2, <1>3, <2>1, Zenon DEF TypeOK, Task
<1>7. CheckShared(th) => Moved("Abandoning") \/ Moved("Prepare")
  <2>1. ASSUME task' = [task EXCEPT ![t].phase = "Abandoning",
                                    ![t].errors = {"Cancelled"}]
        PROVE  Moved("Abandoning")
    BY <1>1, <1>2, <1>3, <2>1, Zenon DEF TypeOK, Task
  <2> HIDE DEF Moved
  <2> QED
    BY <1>4, <2>1, Zenon DEF CheckShared, SetPhase
<1>8. ASSUME NEW ph, task' = [task EXCEPT ![t].phase = ph, ![t].deps = {}]
      PROVE  Moved(ph)
  <2>1. task \in [Tasks -> Task]
    BY <1>1, Zenon DEF TypeOK
  <2> HIDE DEF t
  <2> QED
    BY <1>2, <1>3, <1>8, <2>1 DEF Task
<1>9. /\ Commit(th) => Moved("Publishing")
      /\ Abandon(th) => Moved("Abandoned")
  <2> HIDE DEF Moved
  <2> QED
    BY <1>8, Zenon DEF Commit, Abandon
<1>10. \E ph : ph # "Free" /\ Moved(ph)
  <2> HIDE DEF Moved, t
  <2>1. /\ Begin(th) => Moved("Recording")
        /\ Suspend(th) => Moved("Joining")
        /\ Compute(th) => Moved("Computed")
        /\ Publish(th) => Moved("Published")
    BY <1>4, Zenon DEF Begin, Suspend, Compute, Publish, t
  <2> QED
    BY <1>5, <1>6, <1>7, <1>9, <2>1
<1>11. DOMAIN records \subseteq DOMAIN records'
  <2>1. CASE Commit(th)
    <3>1. DOMAIN records' = DOMAIN records \cup {task[t].fact}
      BY <2>1, Zenon DEF Commit
    <3> QED
      BY <3>1
  <2>2. CASE ~Commit(th)
    <3>1. records' = records
      BY <2>2, Zenon DEF Begin, Suspend, Resume, Compute, Fail, CheckShared, Publish, Abandon,
                  runtime, RemoveEvaluation
    <3> QED
      BY <3>1
  <2> QED
    BY <2>1, <2>2
<1>12. UNCHANGED stack
  BY Zenon DEF Begin, Suspend, Resume, Compute, Fail, CheckShared, Commit, Publish, Abandon
<1>13. TasksKept
  BY <1>10, <1>11, Zenon DEF RInv, DepsCommitted, TasksKept
<1> QED
  BY <1>12, <1>13 DEF NoNewRun

LEMMA LaneKept ==
  ASSUME RInv, NEW th \in Threads,
         \/ LaneEnds(th)
         \/ \E t \in Tasks, h \in Helpers : SpawnLane(th, t, h)
         \/ \E t \in Tasks : Call(th, t)
  PROVE  NoNewRun /\ TasksKept
<1>1. TypeOK /\ \A u \in Tasks : task[u] \in Task
  BY Zenon DEF RInv, Inv, TypeOK
<1>2. CASE LaneEnds(th)
  BY <1>2, SameTasks, Zenon DEF LaneEnds, NoNewRun, runtime
<1>3. ASSUME NEW t \in Tasks, NEW h \in Helpers, SpawnLane(th, t, h)
      PROVE  NoNewRun /\ TasksKept
  BY <1>1, <1>3, Zenon DEF SpawnLane, NoNewRun, TasksKept, RInv, DepsCommitted, runtime,
                    TypeOK, Task
<1>4. ASSUME NEW t \in Tasks, Call(th, t)
      PROVE  NoNewRun /\ TasksKept
  <2> DEFINE fr == NewFrame(Requests[task[t].fact][task[t].next], task[t].tok)
  <2>1. task[t].next \in 1..Len(Requests[task[t].fact])
    <3>1. /\ task[t].next \in Nat \ {0}
          /\ Requests[task[t].fact] \in Seq(Facts)
      BY <1>1, FactQueryAssumption, Zenon DEF Task
    <3>2. Len(Requests[task[t].fact]) \in Nat
      BY <3>1, LenProperties
    <3>3. task[t].next <= Len(Requests[task[t].fact])
      BY <1>4, Zenon DEF Call, Items
    <3> QED
      BY <3>1, <3>2, <3>3
  <2>2. Requests[task[t].fact][task[t].next] \in Facts
    <3>1. Requests[task[t].fact] \in Seq(Facts)
      BY <1>1, FactQueryAssumption, Zenon DEF Task
    <3> QED
      BY <2>1, <3>1, ElementOfSeq, Zenon
  <2>3. fr \in Frame /\ fr.pc # "run"
    BY <1>1, <2>2, Zenon DEF NewFrame, Frame, FreePcs, Task
  <2>4. stack' = [stack EXCEPT ![th] = <<fr>> \o stack[th]]
    BY <1>4, Zenon DEF Call
  <2> HIDE DEF fr
  <2>5. NoNewRun
    BY <1>1, <2>3, <2>4, PushFrames, Zenon
  <2>6. TasksKept
    <3>1. task' = [task EXCEPT ![t].next = @ + 1] /\ UNCHANGED records
      BY <1>4, Zenon DEF Call, runtime
    <3>2. task \in [Tasks -> Task] /\ DepsCommitted
      BY <1>1, Zenon DEF TypeOK, RInv
    <3> QED
      BY <1>1, <3>1, <3>2 DEF TasksKept, DepsCommitted, Task
  <2> QED
    BY <2>5, <2>6
<1> QED
  BY <1>2, <1>3, <1>4

LEMMA DeliverKept ==
  ASSUME RInv, NEW th \in Threads, Deliver(th) \/ Vacate(th)
  PROVE  NoNewRun /\ TasksKept
<1> DEFINE t == Top(th).task
           tk == [task EXCEPT ![t].phase = "Done"]
<1>1. TypeOK /\ \A u \in Tasks : task[u] \in Task
  BY Zenon DEF RInv, Inv, TypeOK
<1>2. stack[th] # <<>> /\ t \in Tasks
  BY <1>1, RunsTask, Zenon DEF Deliver, Vacate, Runs
<1>3. tk \in [Tasks -> Task]
  BY <1>1, <1>2, PhaseType, Zenon DEF Phases
<1>4. \A u \in Tasks : /\ tk[u].fact = task[u].fact
                       /\ tk[u].deps = task[u].deps
                       /\ task[u].phase # "Free" => tk[u].phase # "Free"
  BY <1>1, <1>2, Zenon DEF TypeOK, Task
<1>5. Top(th).fact = task[t].fact
  <2>1. Top(th) \in Frames(stack[th])
    BY <1>1, <1>2, FramesOfTail, Zenon DEF Top, TypeOK
  <2>2. Top(th).pc = "run"
    BY Zenon DEF Deliver, Vacate, Runs, At, Top
  <2> QED
    BY <2>1, <2>2 DEF RInv, RunsOwn, FrameOK
<1>6. PICK outcome : /\ Return(th, outcome, tk)
                     /\ outcome = "Ok" => Top(th).fact \in DOMAIN records
  <2>1. CASE Deliver(th)
    <3>1. Top(th).fact \in DOMAIN records
      BY <1>1, <1>2, <1>5, <2>1
         DEF Deliver, Runs, RInv, Inv, PublishedReady, Committed, Task
    <3> QED
      BY <2>1, <3>1 DEF Deliver
  <2>2. CASE Vacate(th)
    <3>1. PICK e \in task[t].errors : Return(th, e, tk)
      BY <2>2, Zenon DEF Vacate
    <3>2. e # "Ok"
      BY <1>1, <1>2, <3>1 DEF Task, Errors
    <3> QED
      BY <3>1, <3>2
  <2> QED
    BY <2>1, <2>2, Zenon
<1>7. UNCHANGED records
  BY DEF Deliver, Vacate, runtime
<1> HIDE DEF tk
<1> QED
  BY <1>2, <1>3, <1>4, <1>6, <1>7, ReturnKept, Zenon

LEMMA ClaimKept ==
  ASSUME RInv, TypeOK', NEW th \in Threads, Claim(th)
  PROVE  RunsOwn' /\ DepsCommitted'
<1> DEFINE f == Top(th).fact
           t == next_task
           fr == [Top(th) EXCEPT !.pc = "run", !.task = t]
<1>1. TypeOK /\ \A u \in Tasks : task[u] \in Task
  BY Zenon DEF RInv, Inv, TypeOK
<1>2. stack[th] # <<>>
  BY Zenon DEF Claim, At
<1>3. Top(th) \in Frame /\ f \in Facts
  BY <1>1, <1>2, TopType, Zenon
<1>4. CASE cell[f].st # "Vacant"
  <2>1. NoNewRun
    BY <1>1, <1>2, <1>4, GotoFrames, Zenon DEF Claim, FreePcs
  <2>2. TasksKept
    BY <1>4, SameTasks, Zenon DEF Claim, runtime
  <2> QED
    BY <2>1, <2>2, KeptFrames
<1>5. CASE cell[f].st = "Vacant"
  <2>1. t \in Tasks /\ GotoWith(th, "run", t) /\ UNCHANGED records
    BY <1>5, Zenon DEF Claim, runtime
  <2>2. task[t].phase = "Free"
    <3>1. Fresh /\ t \in Nat
      BY Zenon DEF RInv, Inv, TypeOK
    <3> QED
      BY <2>1, <3>1 DEF Fresh
  <2>3. /\ task'[t].fact = f /\ task'[t].phase = "Claimed" /\ task'[t].deps = {}
        /\ \A u \in Tasks \ {t} : task'[u] = task[u]
    <3>1. task \in [Tasks -> Task]
      BY <1>1, Zenon DEF TypeOK
    <3>2. task' = [task EXCEPT ![t] = NewTask(f, IF f \in Requested THEN t ELSE Top(th).tok)]
      BY <1>5, Zenon DEF Claim
    <3> QED
      BY <2>1, <3>1, <3>2, Zenon DEF NewTask
  <2>4. fr \in Frame /\ fr.task = t /\ fr.fact = f
    BY <1>3, <2>1, Zenon DEF Frame, TaskPcs, FreePcs
  <2>5. stack' = [stack EXCEPT ![th] = <<fr>> \o Tail(stack[th])]
    BY <2>1 DEF GotoWith
  <2> HIDE DEF fr
  <2>6. /\ Frames(stack'[th]) \subseteq {fr} \cup Frames(stack[th])
        /\ \A h \in Threads \ {th} : stack'[h] = stack[h]
    BY <1>1, <1>2, <2>4, <2>5, PushFrames, Zenon
  <2>7. ASSUME NEW h \in Threads, NEW old \in Frames(stack[h]), old.pc = "run"
        PROVE  task'[old.task].fact = old.fact /\ task'[old.task].phase # "Free"
    <3>1. task[old.task].fact = old.fact /\ task[old.task].phase # "Free"
      BY <2>7, Zenon DEF RInv, RunsOwn, FrameOK
    <3>2. old \in Frame
      <4>1. stack[h] \in Seq(Frame)
        BY <1>1, <2>7, Zenon DEF TypeOK
      <4> QED
        BY <2>7, <4>1, ElementOfSeq DEF Frames
    <3>3. old.task \in Tasks \ {t}
      BY <2>2, <2>7, <3>1, <3>2, SMTT(30) DEF Frame, FreePcs
    <3> QED
      BY <2>3, <3>1, <3>3, SMTT(30)
  <2>8. RunsOwn'
    BY <2>3, <2>4, <2>6, <2>7, Zenon DEF RunsOwn, FrameOK
  <2>9. DepsCommitted'
    BY <2>1, <2>3, Zenon DEF RInv, DepsCommitted
  <2> QED
    BY <2>8, <2>9
<1> QED
  BY <1>4, <1>5

-----------------------------------------------------------------------------
LEMMA InitRInv == Init => RInv
<1> SUFFICES ASSUME Init PROVE RInv
  OBVIOUS
<1>1. \A th \in Threads : \A fr \in Frames(stack[th]) : fr.pc # "run"
  <2> SUFFICES ASSUME NEW th \in Threads
               PROVE  \A fr \in Frames(stack[th]) : fr.pc # "run"
    OBVIOUS
  <2>1. CASE th \in Roots
    <3>1. stack[th] = <<NewFrame(RootFact[th], th)>>
      BY <2>1 DEF Init
    <3> QED
      BY <3>1 DEF Frames, NewFrame
  <2>2. CASE th \notin Roots
    <3>1. stack[th] = <<>>
      BY <2>2 DEF Init
    <3> QED
      BY <3>1 DEF Frames
  <2> QED
    BY <2>1, <2>2
<1>2. \A t \in Tasks : task[t].deps = {}
  BY Zenon DEF Init, NewTask
<1> QED
  BY <1>1, <1>2, InitInv DEF RInv, RunsOwn, FrameOK, DepsCommitted

LEMMA NextRInv ==
  ASSUME RInv, [Next]_vars
  PROVE  RInv'
<1>1. Inv' /\ TypeOK'
  BY NextInv DEF RInv, Inv
<1>2. ASSUME NEW th \in Threads, ThreadStep(th)
      PROVE  RunsOwn' /\ DepsCommitted'
  <2>1. CASE Claim(th)
    BY <1>1, <2>1, ClaimKept
  <2>2. CASE ~Claim(th)
    <3>1. NoNewRun /\ TasksKept
      BY <1>2, <2>2, RequestKept, WaitKept, EvaluationKept, LaneKept, DeliverKept, Zenon
         DEF ThreadStep
    <3> QED
      BY <1>1, <3>1, KeptFrames
  <2> QED
    BY <2>1, <2>2
<1>3. ASSUME NEW th \in Threads, NEW t \in Tasks, NEW h \in Helpers, SpawnLane(th, t, h)
      PROVE  RunsOwn' /\ DepsCommitted'
  BY <1>1, <1>3, LaneKept, KeptFrames
<1>4. ASSUME UNCHANGED <<task, records, stack>>
      PROVE  RunsOwn' /\ DepsCommitted'
  BY <1>1, <1>4, SameTasks, KeptFrames DEF NoNewRun
<1> QED
  BY <1>1, <1>2, <1>3, <1>4, Zenon DEF Next, Cancel, vars, runtime, RInv

LEMMA RInvariance == Spec => []RInv
  BY InitRInv, NextRInv, PTL DEF Spec

-----------------------------------------------------------------------------

LEMMA StoreInit == Init => Store!Init
  BY DEF Init, Store!Init

\* The store's status, and its change when one cell changes.
StoreStatus ==
  [f \in Facts |-> IF cell[f].st = "Publishing" THEN "Ready" ELSE cell[f].st]

LEMMA StatusStep ==
  ASSUME NEW f \in Facts, NEW st,
         \A g \in Facts : cell'[g].st = IF g = f THEN st ELSE cell[g].st
  PROVE  StoreStatus' =
           [StoreStatus EXCEPT ![f] = IF st = "Publishing" THEN "Ready" ELSE st]
  BY Zenon DEF StoreStatus

LEMMA StoreStep ==
  ASSUME RInv, [Next]_vars
  PROVE  [Store!Next]_Store!vars
<1> DEFINE Same == UNCHANGED <<cell, records>>
<1>1. Same => UNCHANGED Store!vars
  BY DEF Store!vars
<1>2. TypeOK
  BY DEF RInv, Inv
<1>3. ASSUME NEW th \in Threads, Claim(th)
      PROVE  Same \/ \E f \in Facts : Store!Claim(f)
  <2>1. PICK f \in Facts : f = Top(th).fact
    BY <1>2, <1>3, TopType, Zenon DEF Claim, At
  <2>2. CASE cell[f].st = "Vacant"
    <3>1. cell' = [cell EXCEPT ![f] = [st |-> "Computing", task |-> next_task]]
      BY <1>3, <2>1, <2>2, Zenon DEF Claim
    <3>2. UNCHANGED records
      BY <1>3, Zenon DEF Claim, runtime
    <3>3. \A g \in Facts : cell'[g].st = IF g = f THEN "Computing" ELSE cell[g].st
      BY <1>2, <3>1, Zenon DEF TypeOK
    <3>4. StoreStatus' = [StoreStatus EXCEPT ![f] = "Computing"] /\ StoreStatus[f] = "Vacant"
      BY <2>1, <2>2, <3>3, StatusStep, Zenon DEF StoreStatus
    <3>5. Store!Claim(f)
      BY <3>2, <3>4, Zenon DEF Store!Claim, StoreStatus
    <3> QED
      BY <2>1, <3>5
  <2>3. CASE cell[f].st # "Vacant"
    BY <1>3, <2>1, <2>3, Zenon DEF Claim, runtime
  <2> QED
    BY <2>2, <2>3
<1>4. ASSUME NEW th \in Threads, Commit(th)
      PROVE  \E f \in Facts : Store!Publish(f)
  <2> DEFINE t == Top(th).task
  <2>1. t \in Tasks /\ task[t].phase = "Prepare"
    BY <1>2, <1>4, RunsTask, Zenon DEF Commit, Runs
  <2>2. PICK f \in Facts : f = task[t].fact /\ cell[f].st = "Computing"
    <3>1. Inv /\ SingleFlight
      BY DEF RInv, Inv
    <3>2. task[t].phase \in Active
      BY <2>1 DEF Active, Begun
    <3>3. task[t].fact \in Facts
      BY <2>1, <3>1, <3>2, OnlyFlight, Zenon
    <3>4. cell[task[t].fact].st = "Computing"
      BY <2>1, <3>1, <3>2, ActiveCell, Zenon
    <3> QED
      BY <3>3, <3>4
  <2>3. cell' = [cell EXCEPT ![f].st = "Publishing"]
    BY <1>4, <2>2, Zenon DEF Commit
  <2>4. \A g \in Facts : cell'[g].st = IF g = f THEN "Publishing" ELSE cell[g].st
    <3>1. cell[f] \in Cell
      BY <1>2, <2>2, Zenon DEF TypeOK
    <3> QED
      BY <1>2, <2>2, <2>3, <3>1, Zenon DEF TypeOK, Cell
  <2>5. records' = [g \in DOMAIN records \cup {f} |->
                      IF g = f THEN task[t].deps ELSE records[g]]
    BY <1>4, <2>2, Zenon DEF Commit
  <2>6. task[t].deps \subseteq {g \in Facts : cell[g].st \in {"Publishing", "Ready"}}
    <3>1. task[t].deps \subseteq DOMAIN records
      BY <2>1 DEF RInv, DepsCommitted
    <3>2. Committed /\ DOMAIN records \subseteq Facts
      BY <1>2, Zenon DEF RInv, Inv, TypeOK
    <3> QED
      BY <3>1, <3>2 DEF Committed
  <2> HIDE DEF t
  <2>7. Store!Publish(f)
    <3>1. StoreStatus' = [StoreStatus EXCEPT ![f] = "Ready"] /\ StoreStatus[f] = "Computing"
      BY <2>2, <2>4, StatusStep, Zenon DEF StoreStatus
    <3>2. task[t].deps \in SUBSET {g \in Facts : StoreStatus[g] = "Ready"}
      BY <2>6, Zenon DEF StoreStatus
    <3> QED
      BY <2>5, <3>1, <3>2, Zenon DEF Store!Publish, StoreStatus
  <2> QED
    BY <2>2, <2>7
<1>5. ASSUME NEW th \in Threads, Publish(th)
      PROVE  UNCHANGED Store!vars
  <2> DEFINE f == task[Top(th).task].fact
  <2>1. Top(th).task \in Tasks /\ task[Top(th).task].phase = "Publishing"
    BY <1>2, <1>5, RunsTask, Zenon DEF Publish, Runs
  <2>2. f \in Facts /\ cell[f].st = "Publishing"
    BY <2>1, ActiveCell, OnlyFlight, Zenon DEF RInv, Inv, Active
  <2>3. \A g \in Facts : cell'[g].st = IF g = f THEN "Ready" ELSE cell[g].st
    <3>1. cell[f] \in Cell
      BY <1>2, <2>2, Zenon DEF TypeOK
    <3> QED
      BY <1>2, <1>5, <2>2, <3>1, Zenon DEF Publish, TypeOK, Cell
  <2>4. UNCHANGED records
    BY <1>5 DEF Publish, runtime
  <2> HIDE DEF f
  <2> QED
    BY <2>2, <2>3, <2>4, Zenon DEF Store!vars
<1>6. ASSUME NEW th \in Threads, Vacate(th)
      PROVE  \E f \in Facts : Store!Abandon(f)
  <2>1. Top(th).task \in Tasks /\ task[Top(th).task].phase = "Abandoned"
    BY <1>2, <1>6, RunsTask DEF Vacate, Runs
  <2>2. PICK f \in Facts : f = task[Top(th).task].fact /\ cell[f].st = "Computing"
    BY <2>1, ActiveCell, OnlyFlight, Zenon DEF RInv, Inv, Active
  <2>3. /\ cell' = [cell EXCEPT ![f] = [st |-> "Vacant", task |-> None]]
        /\ UNCHANGED records
    BY <1>6, <2>2 DEF Vacate, runtime
  <2>4. Store!Abandon(f)
    <3>1. \A g \in Facts : cell'[g].st = IF g = f THEN "Vacant" ELSE cell[g].st
      <4>1. cell \in [Facts -> Cell]
        BY <1>2, Zenon DEF TypeOK
      <4> QED
        BY <2>3, <4>1
    <3>2. StoreStatus' = [StoreStatus EXCEPT ![f] = "Vacant"] /\ StoreStatus[f] = "Computing"
      <4>1. StoreStatus' = [StoreStatus EXCEPT ![f] = "Vacant"]
        BY <3>1, StatusStep
      <4> QED
        BY <2>2, <4>1, Zenon DEF StoreStatus
    <3> QED
      BY <2>3, <3>2, Zenon DEF Store!Abandon, StoreStatus
  <2> QED
    BY <2>2, <2>4
<1>7. ASSUME NEW th \in Threads, ThreadStep(th),
             ~(Claim(th) \/ Commit(th) \/ Publish(th) \/ Vacate(th))
      PROVE  Same
  BY <1>7, Zenon DEF ThreadStep, Request, Check, Look, Admit, WaitFor, RegisterInterest, Unwait,
     DropInterest, Begin, Suspend, Resume, Compute, Fail, CheckShared, Deliver, Abandon,
     LaneEnds, Call, runtime
<1>8. ASSUME NEW th \in Threads, ThreadStep(th)
      PROVE  [Store!Next]_Store!vars
  <2> HIDE DEF Same
  <2> QED
    BY <1>1, <1>3, <1>4, <1>5, <1>6, <1>7, <1>8 DEF Store!Next
<1>9. CASE \/ \E th \in Threads, t \in Tasks, h \in Helpers : SpawnLane(th, t, h)
           \/ \E r \in Roots : Cancel(r)
           \/ UNCHANGED vars
  <2>1. Same
    BY <1>9 DEF SpawnLane, Cancel, vars, runtime
  <2> QED
    BY <1>1, <2>1
<1> QED
  BY <1>8, <1>9 DEF Next

\* The engine implements the abstract store, for any program, any number of
\* threads and any capacity: whatever interleaving, cancellation, cycle or
\* abandonment happens, the cells and records only claim, abandon and publish
\* facts as FactStore allows, each publication after those it depends on.
THEOREM Refinement == Spec => ImplementsFactStore
  BY StoreInit, StoreStep, RInvariance, PTL DEF Spec, ImplementsFactStore, Store!Spec
=============================================================================

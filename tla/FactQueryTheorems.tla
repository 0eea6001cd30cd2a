------------------------- MODULE FactQueryTheorems --------------------------
(***************************************************************************)
(* What FactQuery guarantees beyond FactQuerySafety, for any facts,        *)
(* programs, threads and slots: complete records, real cycles, exact wait  *)
(* edges and cancellation that is the request's own.                       *)
(***************************************************************************)
EXTENDS FactQueryCancellation, FactQuerySafety, FiniteSetTheorems

-----------------------------------------------------------------------------
(***************************************************************************)
(* The counted wait edges: of the steps of a thread only `wait_for' and    *)
(* the end of a wait change who waits, and the edges that a finished       *)
(* evaluation clears were clear, for nobody waits on behalf of a task that *)
(* is past its computation.                                                *)
(***************************************************************************)

\* On behalf of task t, h waits for task u.
Awaits(h, t, u) ==
  /\ At(h, "register") \/ At(h, "wait")
  /\ Context(h) = t /\ Top(h).task = u
Waiters(t, u) == {h \in Threads : Awaits(h, t, u)}

LEMMA WaitersCounted ==
  EdgesExact <=> \A t, u \in Tasks : waiting[t][u] = Cardinality(Waiters(t, u))
  BY DEF EdgesExact, Waiters, Awaits

\* A step of th leaves the waits of the other threads alone.
OthersWait(th) ==
  \A g \in Threads \ {th} : \A t, u \in Tasks : Awaits(g, t, u)' <=> Awaits(g, t, u)

LEMMA OthersKept ==
  ASSUME NEW th \in Threads, \A g \in Threads \ {th} : stack'[g] = stack[g],
         \A g \in Threads \ {th} : stack[g] # <<>> => base'[g] = base[g]
  PROVE  OthersWait(th)
  BY Zenon DEF OthersWait, Awaits, At, Context, Top

\* The waits stay as they are when th did not wait and does not now.
LEMMA NoWait ==
  ASSUME EdgesExact, NEW th \in Threads, OthersWait(th),
         ~At(th, "register") /\ ~At(th, "wait"),
         ~At(th, "register")' /\ ~At(th, "wait")',
         \A t, u \in Tasks : waiting'[t][u] = waiting[t][u]
  PROVE  EdgesExact'
<1>1. ASSUME NEW t \in Tasks, NEW u \in Tasks
      PROVE  Waiters(t, u)' = Waiters(t, u)
  <2>1. ~Awaits(th, t, u) /\ ~Awaits(th, t, u)'
    BY Zenon DEF Awaits
  <2> QED
    BY <2>1, Zenon DEF Waiters, OthersWait
<1>2. ASSUME NEW t \in Tasks, NEW u \in Tasks
      PROVE  waiting'[t][u] = Cardinality(Waiters(t, u))'
  BY <1>1, <1>2, WaitersCounted, Zenon
<1> QED
  BY <1>2, Zenon DEF EdgesExact, Waiters, Awaits

\* Where a request goes on, its context is the same.
LEMMA StaysOn ==
  ASSUME TypeOK, NEW th \in Threads, stack[th] # <<>>, NEW fr \in Frame,
         stack' = [stack EXCEPT ![th] = <<fr>> \o Tail(stack[th])], UNCHANGED base
  PROVE  /\ stack'[th] # <<>> /\ Top(th)' = fr
         /\ Context(th)' = Context(th)
         /\ OthersWait(th)
<1>1. stack[th] \in Seq(Frame) /\ stack'[th] = <<fr>> \o Tail(stack[th])
  BY Zenon DEF TypeOK
<1>2. /\ stack'[th] # <<>> /\ Head(stack'[th]) = fr
      /\ Len(stack'[th]) = Len(stack[th])
      /\ Len(stack[th]) > 1 => stack'[th][2] = stack[th][2]
  BY <1>1
<1>3. OthersWait(th)
  BY OthersKept, Zenon DEF TypeOK
<1>4. Context(th)' = Context(th)
  <2>1. CASE Len(stack[th]) > 1
    <3>1. Len(stack'[th]) > 1 /\ stack'[th][2] = stack[th][2]
      BY <1>2, <2>1
    <3> QED
      BY <2>1, <3>1 DEF Context
  <2>2. CASE ~(Len(stack[th]) > 1)
    BY <1>2, <2>2, Zenon DEF Context
  <2> QED
    BY <2>1, <2>2
<1> QED
  BY <1>2, <1>3, <1>4, Zenon DEF Top

LEMMA GotoStaysOn ==
  ASSUME TypeOK, NEW th \in Threads, stack[th] # <<>>, NEW pc, Goto(th, pc),
         UNCHANGED base,
         \/ pc \in FreePcs
         \/ pc \in TaskPcs /\ Top(th).task \in Tasks
  PROVE  /\ \A p : At(th, p)' <=> p = pc
         /\ Top(th)'.task = Top(th).task
         /\ Context(th)' = Context(th)
         /\ OthersWait(th)
<1> DEFINE fr == [Top(th) EXCEPT !.pc = pc]
<1>1. fr \in Frame
  BY TopType DEF Frame, TaskPcs, FreePcs
<1>2. fr.pc = pc /\ fr.task = Top(th).task
  BY TopType DEF Frame
<1>3. stack' = [stack EXCEPT ![th] = <<fr>> \o Tail(stack[th])]
  BY DEF Goto
<1> HIDE DEF fr
<1>4. /\ stack'[th] # <<>> /\ Top(th)' = fr
      /\ Context(th)' = Context(th) /\ OthersWait(th)
  BY <1>1, <1>3, StaysOn, Zenon
<1> QED
  BY <1>2, <1>4, Zenon DEF At, Top

LEMMA GotoWithStaysOn ==
  ASSUME TypeOK, NEW th \in Threads, stack[th] # <<>>, NEW pc, NEW t,
         GotoWith(th, pc, t), UNCHANGED base,
         \/ pc \in FreePcs /\ t \in Tasks \cup {None}
         \/ pc \in TaskPcs /\ t \in Tasks
  PROVE  (\A p : At(th, p)' <=> p = pc) /\ OthersWait(th)
<1> DEFINE fr == [Top(th) EXCEPT !.pc = pc, !.task = t]
<1>1. fr \in Frame
  BY TopType, Zenon DEF Frame, TaskPcs, FreePcs
<1>2. fr.pc = pc
  BY TopType, Zenon DEF Frame
<1>3. stack' = [stack EXCEPT ![th] = <<fr>> \o Tail(stack[th])]
  BY DEF GotoWith
<1> HIDE DEF fr
<1>4. stack'[th] # <<>> /\ Top(th)' = fr /\ OthersWait(th)
  BY <1>1, <1>3, StaysOn, Zenon
<1> QED
  BY <1>2, <1>4, Zenon DEF At, Top

\* Below a request is the evaluation that made it.
LEMMA ReturnsToRun ==
  ASSUME SInv, NEW th \in Threads, stack[th] # <<>>,
         stack' = [stack EXCEPT ![th] = Tail(stack[th])], UNCHANGED base
  PROVE  ~At(th, "register")' /\ ~At(th, "wait")' /\ OthersWait(th)
<1>1. TypeOK
  BY Zenon DEF SInv, RInv, Inv
<1>2. stack[th] \in Seq(Frame) /\ stack'[th] = Tail(stack[th])
  BY <1>1, Zenon DEF TypeOK
<1>3. ASSUME stack'[th] # <<>>
      PROVE  Head(stack'[th]).pc = "run"
  <2>1. Len(stack[th]) \in Nat /\ Len(stack[th]) > 1 /\ Head(stack'[th]) = stack[th][2]
    <3>1. /\ stack'[th] \in Seq(Frame) /\ Len(stack'[th]) = Len(stack[th]) - 1
          /\ \A i \in 1..Len(stack'[th]) : stack'[th][i] = stack[th][i + 1]
      BY <1>2, HeadTailProperties, Zenon
    <3>2. Len(stack'[th]) > 0 /\ Head(stack'[th]) = stack'[th][1]
      BY <1>3, <3>1, LenProperties, HeadTailProperties, Zenon
    <3>3. Len(stack[th]) \in Nat /\ Len(stack'[th]) \in Nat
      BY <1>2, <3>1, LenProperties, Zenon
    <3>4. 1 \in 1..Len(stack'[th]) /\ 1 + 1 = 2 /\ Len(stack[th]) > 1
      BY <3>1, <3>2, <3>3
    <3> QED
      BY <3>1, <3>2, <3>3, <3>4, Zenon
  <2>2. Depth(th) - 1 \in Levels(th) /\ Depth(th) - 1 # Depth(th)
    BY <2>1 DEF Depth, Levels
  <2>3. Level(th, Depth(th) - 1) = stack[th][2]
    <3>1. Len(stack[th]) + 1 - (Len(stack[th]) - 1) = 2
      BY <2>1
    <3> QED
      BY <3>1, Zenon DEF Level, Depth
  <2>4. Level(th, Depth(th) - 1).pc = "run"
    BY <2>2, Zenon DEF SInv, CallersRun
  <2> QED
    BY <2>1, <2>3, <2>4, Zenon
<1>4. OthersWait(th)
  BY <1>1, OthersKept, Zenon DEF TypeOK
<1>5. "run" # "register" /\ "run" # "wait"
  OBVIOUS
<1> QED
  BY <1>3, <1>4, <1>5, Zenon DEF At

-----------------------------------------------------------------------------
\* Every step but that of a thread into or out of a wait.
LEMMA RequestEdges ==
  ASSUME SInv, EdgesExact, NEW th \in Threads,
         Request(th) \/ Check(th) \/ Look(th) \/ Admit(th) \/ Claim(th) \/ DropInterest(th)
  PROVE  EdgesExact'
<1>1. TypeOK
  BY Zenon DEF SInv, RInv, Inv
<1>2. /\ stack[th] # <<>> /\ ~At(th, "register") /\ ~At(th, "wait")
      /\ UNCHANGED base /\ UNCHANGED waiting
  BY DEF Request, Check, Look, Admit, Claim, DropInterest, At, runtime
<1>3. \/ \E pc \in {"check", "look", "admit", "claim"} : Goto(th, pc)
      \/ cell[Top(th).fact].st = "Computing" /\ GotoWith(th, "wait_for", cell[Top(th).fact].task)
      \/ next_task \in Tasks /\ GotoWith(th, "run", next_task)
      \/ stack' = [stack EXCEPT ![th] = Tail(stack[th])]
  BY Zenon DEF Request, Check, Look, Admit, Claim, DropInterest, Return
<1>4. OthersWait(th) /\ ~At(th, "register")' /\ ~At(th, "wait")'
  <2>1. ASSUME NEW pc \in {"check", "look", "admit", "claim"}, Goto(th, pc)
        PROVE  OthersWait(th) /\ ~At(th, "register")' /\ ~At(th, "wait")'
    <3>1. pc \in FreePcs /\ pc # "register" /\ pc # "wait"
      BY <2>1 DEF FreePcs
    <3> QED
      BY <1>1, <1>2, <2>1, <3>1, GotoStaysOn, Zenon
  <2>2. ASSUME cell[Top(th).fact].st = "Computing",
               GotoWith(th, "wait_for", cell[Top(th).fact].task)
        PROVE  OthersWait(th) /\ ~At(th, "register")' /\ ~At(th, "wait")'
    <3>1. cell[Top(th).fact].task \in Tasks
      <4>1. cell[Top(th).fact] \in Cell
        BY <1>1, <1>2, TopType, Zenon DEF TypeOK
      <4> QED
        BY <2>2, <4>1 DEF Cell
    <3>2. "wait_for" \in TaskPcs /\ "wait_for" # "register" /\ "wait_for" # "wait"
      BY DEF TaskPcs
    <3> QED
      BY <1>1, <1>2, <2>2, <3>1, <3>2, GotoWithStaysOn, Zenon
  <2>3. ASSUME next_task \in Tasks, GotoWith(th, "run", next_task)
        PROVE  OthersWait(th) /\ ~At(th, "register")' /\ ~At(th, "wait")'
    <3>1. "run" \in TaskPcs /\ "run" # "register" /\ "run" # "wait"
      BY DEF TaskPcs
    <3> QED
      BY <1>1, <1>2, <2>3, <3>1, GotoWithStaysOn, Zenon
  <2> QED
    BY <1>2, <1>3, <2>1, <2>2, <2>3, ReturnsToRun, Zenon
<1> QED
  BY <1>2, <1>4, NoWait, Zenon

\* The evaluations: nobody waits on behalf of a task past its computation.
LEMMA EvaluationEdges ==
  ASSUME SInv, EdgesExact, NEW th \in Threads,
         \/ Begin(th) \/ Suspend(th) \/ Resume(th) \/ Compute(th) \/ Fail(th)
         \/ CheckShared(th) \/ Commit(th) \/ Publish(th) \/ Abandon(th)
  PROVE  EdgesExact'
<1>1. TypeOK /\ ContextRecording
  BY AInvContext, Zenon DEF SInv, RInv, Inv
<1>2. UNCHANGED <<stack, base>>
  BY Zenon DEF Begin, Suspend, Resume, Compute, Fail, CheckShared, Commit, Publish, Abandon
<1>3. ASSUME NEW t \in Tasks, NEW u \in Tasks
      PROVE  waiting'[t][u] = waiting[t][u]
  <2>1. CASE UNCHANGED waiting
    BY <2>1, Zenon
  <2>2. ASSUME Commit(th) \/ Abandon(th)
        PROVE  waiting'[t][u] = waiting[t][u]
    <3>1. /\ waiting' = [waiting EXCEPT ![Top(th).task] = [v \in Tasks |-> 0]]
          /\ At(th, "run") /\ task[Top(th).task].phase \in {"Prepare", "Abandoning"}
      BY <2>2, Zenon DEF Commit, Abandon, RemoveEvaluation, Runs
    <3>2. CASE t # Top(th).task
      BY <1>1, <3>1, <3>2, Zenon DEF TypeOK
    <3>3. CASE t = Top(th).task
      <4>1. waiting'[t][u] = 0
        BY <1>1, <3>1, <3>3 DEF TypeOK
      <4>2. task[t].phase \notin {"Recording", "Joining"} /\ t # None
        BY <3>1, <3>3, NoneIsNoTask
      <4>3. Waiters(t, u) = {}
        BY <1>1, <4>2, Zenon DEF Waiters, Awaits, At, ContextRecording
      <4>4. waiting[t][u] = Cardinality({})
        BY <4>3, WaitersCounted, Zenon
      <4> QED
        BY <4>1, <4>4, FS_EmptySet, Zenon
    <3> QED
      BY <3>2, <3>3
  <2> QED
    BY <2>1, <2>2, Zenon DEF Begin, Suspend, Resume, Compute, Fail, CheckShared, Publish, runtime
<1>4. ASSUME NEW t \in Tasks, NEW u \in Tasks
      PROVE  waiting'[t][u] = Cardinality(Waiters(t, u))'
  <2>1. Waiters(t, u)' = Waiters(t, u)
    BY <1>2, Zenon DEF Waiters, Awaits, At, Context, Top
  <2> QED
    BY <1>3, <2>1, WaitersCounted, Zenon
<1> QED
  BY <1>4, Zenon DEF EdgesExact, Waiters, Awaits

\* A finished evaluation returns, a computation makes a request, lanes come and go.
LEMMA CallEdges ==
  ASSUME SInv, EdgesExact, NEW th \in Threads,
         Deliver(th) \/ Vacate(th) \/ \E t \in Tasks : Call(th, t)
  PROVE  EdgesExact'
<1>1. TypeOK
  BY Zenon DEF SInv, RInv, Inv
<1>2. UNCHANGED <<base, waiting>>
  BY Zenon DEF Deliver, Vacate, Call, runtime
<1>3. ~At(th, "register") /\ ~At(th, "wait")
  <2>1. stack[th] = <<>> \/ At(th, "run")
    BY Zenon DEF Deliver, Vacate, Call, Dispatches, Runs
  <2> QED
    BY <2>1 DEF At
<1>4. CASE Deliver(th) \/ Vacate(th)
  <2>1. stack[th] # <<>> /\ stack' = [stack EXCEPT ![th] = Tail(stack[th])]
    BY <1>4, Zenon DEF Deliver, Vacate, Return, Runs, At
  <2> QED
    BY <1>2, <1>3, <2>1, ReturnsToRun, NoWait, Zenon
<1>5. ASSUME NEW t \in Tasks, Call(th, t)
      PROVE  EdgesExact'
  <2> DEFINE fr == NewFrame(Requests[task[t].fact][task[t].next], task[t].tok)
  <2>1. stack' = [stack EXCEPT ![th] = <<fr>> \o stack[th]]
    BY <1>5 DEF Call
  <2>2. fr.pc = "request"
    BY DEF NewFrame
  <2> HIDE DEF fr
  <2>3. stack'[th] = <<fr>> \o stack[th] /\ stack[th] \in Seq(Frame)
    BY <1>1, <2>1, Zenon DEF TypeOK
  <2>4. Head(stack'[th]) = fr
    BY <2>3
  <2>5. ~At(th, "register")' /\ ~At(th, "wait")'
    BY <2>2, <2>4 DEF At
  <2>6. OthersWait(th)
    BY <1>1, <1>2, <2>1, OthersKept, Zenon DEF TypeOK
  <2> QED
    BY <1>2, <1>3, <2>5, <2>6, NoWait, Zenon
<1> QED
  BY <1>4, <1>5

LEMMA LaneEdges ==
  ASSUME SInv, EdgesExact, NEW h \in Threads,
         LaneEnds(h) \/ \E th \in Threads, t \in Tasks : h \in Helpers /\ SpawnLane(th, t, h)
  PROVE  EdgesExact'
<1>1. TypeOK
  BY Zenon DEF SInv, RInv, Inv
<1>2. UNCHANGED <<stack, waiting>>
  BY Zenon DEF LaneEnds, SpawnLane, runtime
<1>3. stack[h] = <<>>
  <2>1. CASE LaneEnds(h)
    BY <2>1, Zenon DEF LaneEnds
  <2>2. ASSUME NEW th \in Threads, NEW t \in Tasks, h \in Helpers, SpawnLane(th, t, h)
        PROVE  stack[h] = <<>>
    <3>1. base[h].task = None
      BY <2>2 DEF SpawnLane, NoLane
    <3> QED
      BY <2>2, <3>1, Zenon DEF SInv, LanesOwn
  <2> QED
    BY <2>1, <2>2, Zenon
<1>4. ~At(h, "register") /\ ~At(h, "wait") /\ ~At(h, "register")' /\ ~At(h, "wait")'
  BY <1>2, <1>3, Zenon DEF At
<1>5. \A g \in Threads \ {h} : base'[g] = base[g]
  BY <1>1, Zenon DEF LaneEnds, SpawnLane, TypeOK
<1>6. OthersWait(h)
  BY <1>2, <1>5, OthersKept, Zenon
<1> QED
  BY <1>2, <1>4, <1>6, NoWait, Zenon

\* One thread more, or less, waits for u on behalf of t.
LEMMA WaitersChange ==
  ASSUME NEW th \in Threads, OthersWait(th), NEW t \in Tasks, NEW u \in Tasks
  PROVE  /\ (Awaits(th, t, u) <=> Awaits(th, t, u)') => Waiters(t, u)' = Waiters(t, u)
         /\ ~Awaits(th, t, u) /\ Awaits(th, t, u)' =>
              Cardinality(Waiters(t, u)') = Cardinality(Waiters(t, u)) + 1
         /\ Awaits(th, t, u) /\ ~Awaits(th, t, u)' =>
              /\ Cardinality(Waiters(t, u)) \in Nat \ {0}
              /\ Cardinality(Waiters(t, u)') = Cardinality(Waiters(t, u)) - 1
<1>1. IsFiniteSet(Waiters(t, u)) /\ IsFiniteSet(Waiters(t, u)')
  BY FactQueryAssumption, FS_Subset, Zenon DEF Waiters
<1>2. (Awaits(th, t, u) <=> Awaits(th, t, u)') => Waiters(t, u)' = Waiters(t, u)
  BY Zenon DEF Waiters, OthersWait
<1>3. ASSUME ~Awaits(th, t, u), Awaits(th, t, u)'
      PROVE  Cardinality(Waiters(t, u)') = Cardinality(Waiters(t, u)) + 1
  <2>1. Waiters(t, u)' = Waiters(t, u) \cup {th} /\ th \notin Waiters(t, u)
    BY <1>3, Zenon DEF Waiters, OthersWait
  <2> QED
    BY <1>1, <2>1, FS_AddElement
<1>4. ASSUME Awaits(th, t, u), ~Awaits(th, t, u)'
      PROVE  /\ Cardinality(Waiters(t, u)) \in Nat \ {0}
             /\ Cardinality(Waiters(t, u)') = Cardinality(Waiters(t, u)) - 1
  <2>1. Waiters(t, u)' = Waiters(t, u) \ {th} /\ th \in Waiters(t, u)
    BY <1>4, Zenon DEF Waiters, OthersWait
  <2>2. /\ Cardinality(Waiters(t, u)') = Cardinality(Waiters(t, u)) - 1
        /\ Cardinality(Waiters(t, u)) \in Nat /\ Cardinality(Waiters(t, u)') \in Nat
    BY <1>1, <2>1, FS_RemoveElement, FS_CardinalityType, Zenon
  <2> QED
    BY <2>2
<1> QED
  BY <1>2, <1>3, <1>4

LEMMA WaitForEdges ==
  ASSUME SInv, EdgesExact, NEW th \in Threads, WaitFor(th)
  PROVE  EdgesExact'
<1> DEFINE u == Top(th).task
           c == Context(th)
<1>1. TypeOK
  BY Zenon DEF SInv, RInv, Inv
<1>2. stack[th] # <<>> /\ ~At(th, "register") /\ ~At(th, "wait") /\ UNCHANGED base
  BY DEF WaitFor, At
<1>3. u \in Tasks /\ c \in Tasks \cup {None}
  BY <1>1, <1>2, TopType, ContextType DEF WaitFor, At, TaskPcs, Top
<1>4. \/ GotoWith(th, "check", None) /\ UNCHANGED waiting
      \/ stack' = [stack EXCEPT ![th] = Tail(stack[th])] /\ UNCHANGED waiting
      \/ /\ waiting' = IF c = None THEN waiting ELSE [waiting EXCEPT ![c][u] = @ + 1]
         /\ Goto(th, "register")
  BY Zenon DEF WaitFor, Return
<1> HIDE DEF u, c
<1>5. ASSUME GotoWith(th, "check", None), UNCHANGED waiting
      PROVE  EdgesExact'
  <2>1. "check" \in FreePcs /\ "check" # "register" /\ "check" # "wait"
    BY DEF FreePcs
  <2>2. OthersWait(th) /\ ~At(th, "register")' /\ ~At(th, "wait")'
    BY <1>1, <1>2, <1>5, <2>1, GotoWithStaysOn, Zenon
  <2> QED
    BY <1>2, <1>5, <2>2, NoWait, Zenon
<1>6. ASSUME stack' = [stack EXCEPT ![th] = Tail(stack[th])], UNCHANGED waiting
      PROVE  EdgesExact'
  BY <1>2, <1>6, ReturnsToRun, NoWait, Zenon
<1>7. ASSUME Goto(th, "register"),
             waiting' = IF c = None THEN waiting ELSE [waiting EXCEPT ![c][u] = @ + 1]
      PROVE  EdgesExact'
  <2>1. "register" \in TaskPcs
    BY DEF TaskPcs
  <2>2. /\ At(th, "register")' /\ Top(th)'.task = u
        /\ Context(th)' = c /\ OthersWait(th)
    BY <1>1, <1>2, <1>3, <1>7, <2>1, GotoStaysOn, Zenon DEF u, c
  <2>3. ASSUME NEW t \in Tasks, NEW v \in Tasks
        PROVE  waiting'[t][v] = Cardinality(Waiters(t, v)')
    <3>1. ~Awaits(th, t, v) /\ (Awaits(th, t, v)' <=> t = c /\ v = u)
      BY <1>2, <2>2, Zenon DEF Awaits
    <3>2. waiting[t][v] = Cardinality(Waiters(t, v))
      BY WaitersCounted, Zenon
    <3>3. CASE t = c /\ v = u
      <4>1. waiting'[t][v] = waiting[t][v] + 1
        BY <1>1, <1>7, <3>3, NoneIsNoTask DEF TypeOK
      <4>2. Cardinality(Waiters(t, v)') = Cardinality(Waiters(t, v)) + 1
        <5>1. Awaits(th, t, v)' /\ ~Awaits(th, t, v)
          BY <3>1, <3>3, Zenon
        <5> QED
          BY <2>2, <5>1, WaitersChange, Zenon
      <4> QED
        BY <3>2, <4>1, <4>2, Zenon
    <3>4. CASE ~(t = c /\ v = u)
      <4>1. waiting'[t][v] = waiting[t][v]
        BY <1>1, <1>3, <1>7, <3>4 DEF TypeOK
      <4> QED
        BY <2>2, <3>1, <3>2, <3>4, <4>1, WaitersChange, Zenon
    <3> QED
      BY <3>3, <3>4
  <2> QED
    BY <2>3, Zenon DEF EdgesExact, Waiters, Awaits
<1> QED
  BY <1>4, <1>5, <1>6, <1>7

LEMMA RegisterEdges ==
  ASSUME SInv, EdgesExact, NEW th \in Threads, RegisterInterest(th)
  PROVE  EdgesExact'
<1>1. TypeOK
  BY Zenon DEF SInv, RInv, Inv
<1>2. stack[th] # <<>> /\ At(th, "register") /\ UNCHANGED <<base, waiting>>
  BY Zenon DEF RegisterInterest, At, runtime
<1>3. Top(th).task \in Tasks /\ "wait" \in TaskPcs
  BY <1>1, <1>2, TopType DEF At, TaskPcs, Top
<1>4. /\ At(th, "wait")' /\ Top(th)'.task = Top(th).task
      /\ Context(th)' = Context(th) /\ OthersWait(th)
  BY <1>1, <1>2, <1>3, GotoStaysOn, Zenon DEF RegisterInterest
<1>5. ASSUME NEW t \in Tasks, NEW v \in Tasks
      PROVE  waiting'[t][v] = Cardinality(Waiters(t, v)')
  <2>1. Awaits(th, t, v) <=> Awaits(th, t, v)'
    BY <1>2, <1>4, Zenon DEF Awaits
  <2> QED
    BY <1>2, <1>4, <2>1, WaitersChange, WaitersCounted, Zenon
<1> QED
  BY <1>5, Zenon DEF EdgesExact, Waiters, Awaits

LEMMA UnwaitEdges ==
  ASSUME SInv, EdgesExact, NEW th \in Threads, Unwait(th)
  PROVE  EdgesExact'
<1> DEFINE u == Top(th).task
           c == Context(th)
<1>1. TypeOK
  BY Zenon DEF SInv, RInv, Inv
<1>2. stack[th] # <<>> /\ At(th, "wait") /\ UNCHANGED base
  BY Zenon DEF Unwait, At
<1>3. u \in Tasks /\ c \in Tasks \cup {None} /\ "drop" \in TaskPcs
  BY <1>1, <1>2, TopType, ContextType DEF At, TaskPcs, Top
<1>4. waiting' = IF c = None THEN waiting
                 ELSE [waiting EXCEPT ![c][u] = IF @ > 0 THEN @ - 1 ELSE 0]
  BY Zenon DEF Unwait, RemoveWait
<1>5. (\A p : At(th, p)' <=> p = "drop") /\ OthersWait(th)
  BY <1>1, <1>2, <1>3, GotoStaysOn, Zenon DEF Unwait
<1>6. ~At(th, "register")' /\ ~At(th, "wait")'
  <2>1. "drop" # "register" /\ "drop" # "wait"
    OBVIOUS
  <2> QED
    BY <1>5, <2>1, Zenon
<1>7. \A t, v \in Tasks : Awaits(th, t, v) <=> t = c /\ v = u
  BY <1>2, Zenon DEF Awaits
<1> HIDE DEF u, c
<1>8. ASSUME NEW t \in Tasks, NEW v \in Tasks
      PROVE  waiting'[t][v] = Cardinality(Waiters(t, v)')
  <2>1. ~Awaits(th, t, v)'
    BY <1>6, Zenon DEF Awaits
  <2>2. waiting[t][v] = Cardinality(Waiters(t, v))
    BY WaitersCounted, Zenon
  <2>3. CASE t = c /\ v = u
    <3>1. /\ waiting[t][v] \in Nat \ {0}
          /\ Cardinality(Waiters(t, v)') = waiting[t][v] - 1
      <4>1. Awaits(th, t, v) /\ ~Awaits(th, t, v)'
        BY <1>7, <2>1, <2>3, Zenon
      <4>2. /\ Cardinality(Waiters(t, v)) \in Nat \ {0}
            /\ Cardinality(Waiters(t, v)') = Cardinality(Waiters(t, v)) - 1
        BY <1>5, <4>1, WaitersChange, Zenon
      <4> QED
        BY <2>2, <4>2, Zenon
    <3>2. waiting'[t][v] = waiting[t][v] - 1
      BY <1>1, <1>4, <2>3, <3>1, NoneIsNoTask DEF TypeOK
    <3> QED
      BY <3>1, <3>2, Zenon
  <2>4. CASE ~(t = c /\ v = u)
    <3>1. waiting'[t][v] = waiting[t][v]
      BY <1>1, <1>3, <1>4, <2>4 DEF TypeOK
    <3> QED
      BY <1>5, <1>7, <2>1, <2>2, <2>4, <3>1, WaitersChange, Zenon
  <2> QED
    BY <2>3, <2>4
<1> QED
  BY <1>8, Zenon DEF EdgesExact, Waiters, Awaits

LEMMA EdgesStep ==
  ASSUME SInv, EdgesExact, [Next]_vars
  PROVE  EdgesExact'
<1>1. ASSUME NEW th \in Threads, ThreadStep(th)
      PROVE  EdgesExact'
  <2>1. CASE \/ Request(th) \/ Check(th) \/ Look(th) \/ Admit(th) \/ Claim(th)
             \/ DropInterest(th)
    BY <2>1, RequestEdges, Zenon
  <2>2. CASE \/ Begin(th) \/ Suspend(th) \/ Resume(th) \/ Compute(th) \/ Fail(th)
             \/ CheckShared(th) \/ Commit(th) \/ Publish(th) \/ Abandon(th)
    BY <2>2, EvaluationEdges, Zenon
  <2>3. CASE Deliver(th) \/ Vacate(th) \/ \E t \in Tasks : Call(th, t)
    BY <2>3, CallEdges, Zenon
  <2>4. CASE LaneEnds(th)
    BY <2>4, LaneEdges, Zenon
  <2> QED
    BY <1>1, <2>1, <2>2, <2>3, <2>4, WaitForEdges, RegisterEdges, UnwaitEdges, Zenon
       DEF ThreadStep
<1>2. ASSUME NEW th \in Threads, NEW t \in Tasks, NEW h \in Helpers, SpawnLane(th, t, h)
      PROVE  EdgesExact'
  <2>1. h \in Threads
    BY Zenon DEF Threads
  <2> QED
    BY <1>2, <2>1, LaneEdges, Zenon
<1>3. ASSUME UNCHANGED <<stack, base, waiting>>
      PROVE  EdgesExact'
  BY <1>3, Zenon DEF EdgesExact, At, Top, Context
<1> QED
  BY <1>1, <1>2, <1>3, Zenon DEF Next, Cancel, vars, runtime

LEMMA EdgesInit ==
  ASSUME Init
  PROVE  EdgesExact
<1>1. ASSUME NEW th \in Threads
      PROVE  ~At(th, "register") /\ ~At(th, "wait")
  <2>1. CASE th \in Roots
    <3>1. Head(stack[th]).pc = "request"
      BY <2>1 DEF Init, NewFrame
    <3> QED
      BY <3>1 DEF At
  <2>2. CASE th \notin Roots
    BY <2>2, Zenon DEF Init, At
  <2> QED
    BY <2>1, <2>2
<1>2. ASSUME NEW t \in Tasks, NEW u \in Tasks
      PROVE  waiting[t][u] = Cardinality(Waiters(t, u))
  <2>1. Waiters(t, u) = {}
    BY <1>1, Zenon DEF Waiters, Awaits
  <2>2. waiting[t][u] = 0
    BY Zenon DEF Init
  <2> QED
    BY <2>1, <2>2, FS_EmptySet, Zenon
<1> QED
  BY <1>2, WaitersCounted, Zenon

-----------------------------------------------------------------------------
(***************************************************************************)
(* The whole invariant of the engine, and what it gives                    *)
(***************************************************************************)
QueryInv == AInv /\ CInv /\ EdgesExact

\* The stacks of all threads, what their requests ask, record and report, their
\* tokens and interests and the wait edges agree through every step.
THEOREM QueryInvariance == Spec => []QueryInv
<1>1. Init => QueryInv
  <2> SUFFICES ASSUME Init PROVE QueryInv
    OBVIOUS
  <2>1. AInv
    BY InitRInv, StacksInit, Zenon
  <2>2. CInv
    BY <2>1, CancellationInit, Zenon DEF AInv
  <2> QED
    BY <2>1, <2>2, EdgesInit, Zenon DEF QueryInv
<1>2. QueryInv /\ [Next]_vars => QueryInv'
  <2> SUFFICES ASSUME QueryInv, [Next]_vars PROVE QueryInv'
    OBVIOUS
  <2>1. AInv /\ CInv /\ SInv /\ RInv /\ EdgesExact
    BY Zenon DEF QueryInv, AInv, SInv
  <2>2. RInv'
    BY <2>1, NextRInv, Zenon
  <2>3. AInv'
    BY <2>1, <2>2, StacksStep, Zenon
  <2>4. CInv'
    BY <2>1, <2>3, CancellationStep, Zenon DEF AInv
  <2>5. EdgesExact'
    BY <2>1, EdgesStep, Zenon
  <2> QED
    BY <2>3, <2>4, <2>5, Zenon DEF QueryInv
<1> QED
  BY <1>1, <1>2, PTL DEF Spec

\* Every record is complete, for any program and any number of threads: a
\* committed fact has recorded every fact its computation asked for, in whatever
\* order and on whatever lane, and all of them were committed before it.
THEOREM RecordsStayComplete == Spec => []RecordsComplete
<1>1. QueryInv => RecordsComplete
  BY AInvRecords, Zenon DEF QueryInv
<1> QED
  BY <1>1, QueryInvariance, PTL

\* A request that is made or served on behalf of a task finds it still recording,
\* on every thread and lane: no dependency is reported to a finished evaluation.
THEOREM ContextsRecord == Spec => []ContextRecording
<1>1. QueryInv => ContextRecording
  BY AInvContext, Zenon DEF QueryInv, AInv
<1> QED
  BY <1>1, QueryInvariance, PTL

\* A cycle is reported only where the facts really ask for each other in one,
\* whatever threads, lanes and waits it was found through.
THEOREM ReportedCyclesReal == Spec => []CyclesAreReal
<1>1. QueryInv => CyclesAreReal
  BY Zenon DEF QueryInv, AInv
<1> QED
  BY <1>1, QueryInvariance, PTL

\* A request ends as cancelled only when its own caller cancelled it: sharing an
\* evaluation with a cancelled request, or waiting for one, never cancels it.
THEOREM CancellationIsOwn == Spec => []OwnCancellation
<1>1. QueryInv => OwnCancellation
  BY Zenon DEF QueryInv, CInv
<1> QED
  BY <1>1, QueryInvariance, PTL

\* The runtime's wait counts are the threads that wait, for any program and any
\* number of threads: no edge is left behind, none goes with another's wait.
THEOREM EdgesStayExact == Spec => []EdgesExact
<1>1. QueryInv => EdgesExact
  BY Zenon DEF QueryInv
<1> QED
  BY <1>1, QueryInvariance, PTL
=============================================================================

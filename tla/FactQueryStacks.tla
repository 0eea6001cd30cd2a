-------------------------- MODULE FactQueryStacks ---------------------------
(***************************************************************************)
(* The thread-local evaluation stacks of FactQuery, for any facts,         *)
(* programs, threads and slots: who evaluates what on whose behalf, and    *)
(* what the requests ask for, record and report.                           *)
(***************************************************************************)
EXTENDS FactQueryInvariants, TLAPS

\* Stacks of requests and the innermost one.  FactQuerySafety, which this module does
\* not need, states the same facts for itself.
\* Sequences: what the stacks of requests are made of.
LEMMA EmptyStack ==
  ASSUME NEW S
  PROVE  <<>> \in Seq(S) /\ Len(<<>>) = 0
  OBVIOUS

LEMMA StackLength ==
  ASSUME NEW S, NEW s \in Seq(S)
  PROVE  /\ Len(s) \in Nat /\ DOMAIN s = 1..Len(s)
         /\ s # <<>> => Len(s) > 0
  OBVIOUS

LEMMA StackItem ==
  ASSUME NEW S, NEW s \in Seq(S), NEW i \in 1..Len(s)
  PROVE  s[i] \in S
  OBVIOUS

LEMMA StackHead ==
  ASSUME NEW S, NEW s \in Seq(S), s # <<>>
  PROVE  /\ Head(s) \in S /\ Head(s) = s[1]
         /\ Tail(s) \in Seq(S) /\ Len(Tail(s)) = Len(s) - 1
         /\ \A i \in 1..Len(Tail(s)) : Tail(s)[i] = s[i + 1]
  OBVIOUS

LEMMA StackJoin ==
  ASSUME NEW S, NEW r \in Seq(S), NEW s \in Seq(S)
  PROVE  /\ r \o s \in Seq(S) /\ Len(r \o s) = Len(r) + Len(s)
         /\ \A i \in 1..Len(r) + Len(s) :
              (r \o s)[i] = IF i <= Len(r) THEN r[i] ELSE s[i - Len(r)]
  OBVIOUS

LEMMA NoTask == None \notin Tasks
  BY FactQueryAssumption DEF None, Tasks

LEMMA TopFrame ==
  ASSUME TypeOK, NEW th \in Threads, stack[th] # <<>>
  PROVE  /\ Top(th) \in Frame
         /\ Top(th).fact \in Facts
         /\ Top(th).tok \in Tokens
         /\ Top(th).task \in Tasks \cup {None}
         /\ Top(th).pc \in TaskPcs => Top(th).task \in Tasks
<1>1. stack[th] \in Seq(Frame)
  BY DEF TypeOK
<1>2. Top(th) \in Frame
  BY <1>1, StackHead DEF Top
<1> QED
  BY <1>2 DEF Frame, TaskPcs, FreePcs

LEMMA ContextTask ==
  ASSUME TypeOK, NEW th \in Threads
  PROVE  Context(th) \in Tasks \cup {None}
<1>1. CASE Len(stack[th]) > 1
  <2>1. stack[th] \in Seq(Frame)
    BY DEF TypeOK
  <2>2. stack[th][2] \in Frame
    BY <1>1, <2>1, StackItem, StackLength
  <2> QED
    BY <1>1, <2>2 DEF Context, Frame
<1>2. CASE ~(Len(stack[th]) > 1)
  BY <1>2 DEF Context, TypeOK
<1> QED
  BY <1>1, <1>2

LEMMA PhaseWritten ==
  ASSUME TypeOK, NEW t \in Tasks, NEW phase \in Phases
  PROVE  [task EXCEPT ![t].phase = phase] \in [Tasks -> Task]
<1>1. task[t] \in Task
  BY DEF TypeOK
<1> QED
  BY <1>1, Zenon DEF TypeOK, Task

\* The task of a thread that runs an evaluation.
LEMMA RunnersTask ==
  ASSUME TypeOK, NEW th \in Threads, At(th, "run")
  PROVE  stack[th] # <<>> /\ Top(th).task \in Tasks /\ Top(th).tok \in Tokens
  BY TopFrame DEF At, TaskPcs, Top

-----------------------------------------------------------------------------
\* The pending requests of h, counted from the outermost: a call adds a level, a
\* return takes the last one away and all others stay where they are.
Depth(h) == Len(stack[h])
Levels(h) == 1..Len(stack[h])
Level(h, k) == stack[h][Len(stack[h]) + 1 - k]

\* The task on whose behalf the request at level k of h was made.
Caller(h, k) == IF k = 1 THEN base[h].task ELSE Level(h, k - 1).task

-----------------------------------------------------------------------------
\* What a step does to the levels: th's last one is replaced, th gets one more,
\* or its last one goes.
Replaced(th, fr) ==
  /\ \A h \in Threads : Depth(h)' = Depth(h)
  /\ \A h \in Threads : \A k \in Levels(h) :
       Level(h, k)' = IF h = th /\ k = Depth(th) THEN fr ELSE Level(h, k)
Pushed(th, fr) ==
  /\ \A h \in Threads : Depth(h)' = IF h = th THEN Depth(h) + 1 ELSE Depth(h)
  /\ \A h \in Threads : \A k \in Levels(h) : Level(h, k)' = Level(h, k)
  /\ Level(th, Depth(th))' = fr
Popped(th) ==
  /\ \A h \in Threads : Depth(h)' = IF h = th THEN Depth(h) - 1 ELSE Depth(h)
  /\ \A h \in Threads : \A k \in Levels(h) :
       (h = th /\ k = Depth(th)) \/ Level(h, k)' = Level(h, k)

LEMMA DepthType ==
  ASSUME TypeOK, NEW h \in Threads
  PROVE  /\ stack[h] \in Seq(Frame)
         /\ Depth(h) \in Nat
         /\ Levels(h) = 1..Depth(h)
         /\ stack[h] = <<>> <=> Depth(h) = 0
<1>1. stack[h] \in Seq(Frame)
  BY Zenon DEF TypeOK
<1>2. stack[h] = <<>> <=> Len(stack[h]) = 0
  BY <1>1, EmptyStack
<1>3. Len(stack[h]) \in Nat
  BY <1>1, StackLength
<1> QED
  BY <1>1, <1>2, <1>3, Zenon DEF Depth, Levels

LEMMA LevelType ==
  ASSUME TypeOK, NEW h \in Threads, NEW k \in Levels(h)
  PROVE  /\ Level(h, k) \in Frame
         /\ k \in Nat \ {0} /\ k <= Depth(h)
         /\ k = Depth(h) \/ k + 1 \in Levels(h)
         /\ k = 1 \/ k - 1 \in Levels(h)
<1>1. /\ stack[h] \in Seq(Frame) /\ Depth(h) \in Nat /\ Levels(h) = 1..Depth(h)
  BY DepthType, Zenon
<1>2. Depth(h) + 1 - k \in 1..Depth(h)
  BY <1>1
<1>3. stack[h][Depth(h) + 1 - k] \in Frame
  BY <1>1, <1>2, StackItem, Zenon DEF Depth
<1>4. Level(h, k) \in Frame
  BY <1>3, Zenon DEF Level, Depth
<1> QED
  BY <1>1, <1>4

\* The innermost request is the last level.
LEMMA TopLevel ==
  ASSUME TypeOK, NEW th \in Threads, stack[th] # <<>>
  PROVE  /\ Depth(th) \in Levels(th)
         /\ Level(th, Depth(th)) = Top(th)
         /\ Context(th) = Caller(th, Depth(th))
<1>1. /\ stack[th] \in Seq(Frame) /\ Depth(th) \in Nat \ {0} /\ Levels(th) = 1..Depth(th)
  BY DepthType
<1>2. Head(stack[th]) = stack[th][1]
  BY <1>1
<1>3. Level(th, Depth(th)) = Top(th)
  BY <1>1, <1>2 DEF Level, Depth, Top
<1>4. Context(th) = Caller(th, Depth(th))
  <2>1. CASE Depth(th) = 1
    BY <2>1 DEF Context, Caller, Depth
  <2>2. CASE Depth(th) # 1
    <3>1. Level(th, Depth(th) - 1) = stack[th][2]
      BY <1>1 DEF Level, Depth
    <3>2. Depth(th) > 1
      BY <1>1, <2>2
    <3> QED
      BY <2>2, <3>1, <3>2, Zenon DEF Context, Caller, Depth
  <2> QED
    BY <2>1, <2>2
<1> QED
  BY <1>1, <1>3, <1>4

LEMMA ReplaceLevels ==
  ASSUME TypeOK, NEW th \in Threads, stack[th] # <<>>, NEW fr \in Frame,
         stack' = [stack EXCEPT ![th] = <<fr>> \o Tail(stack[th])]
  PROVE  Replaced(th, fr)
<1> DEFINE s == stack[th]
           p == <<fr>> \o Tail(s)
<1>1. s \in Seq(Frame) /\ Len(s) \in Nat \ {0}
  BY DepthType DEF Depth
<1>2. Tail(s) \in Seq(Frame) /\ Len(Tail(s)) = Len(s) - 1
  BY <1>1, StackHead
<1>3. Len(p) = Len(s)
  BY <1>1, <1>2, StackJoin
<1>4. ASSUME NEW k \in 1..Len(s)
      PROVE  p[Len(s) + 1 - k] = IF k = Len(s) THEN fr ELSE s[Len(s) + 1 - k]
  <2>1. CASE k = Len(s)
    BY <1>1, <1>2, <2>1, StackJoin
  <2>2. CASE k # Len(s)
    <3> DEFINE i == Len(s) + 1 - k
    <3>1. i \in 2..Len(s) /\ i - 1 \in 1..Len(Tail(s))
      BY <1>1, <1>2, <2>2
    <3>2. p[i] = Tail(s)[i - 1]
      BY <1>1, <1>2, <3>1, StackJoin
    <3>3. Tail(s)[i - 1] = s[i]
      BY <1>1, <3>1, StackHead
    <3> QED
      BY <2>2, <3>2, <3>3
  <2> QED
    BY <2>1, <2>2
<1>5. stack'[th] = p /\ \A h \in Threads \ {th} : stack'[h] = stack[h]
  BY Zenon DEF TypeOK
<1> HIDE DEF p
<1>6. \A h \in Threads : Depth(h)' = Depth(h)
  BY <1>3, <1>5, Zenon DEF Depth
<1>7. ASSUME NEW h \in Threads, NEW k \in Levels(h)
      PROVE  Level(h, k)' = IF h = th /\ k = Depth(th) THEN fr ELSE Level(h, k)
  <2>1. CASE h = th
    BY <1>3, <1>4, <1>5, <2>1, Zenon DEF Level, Levels, Depth
  <2>2. CASE h # th
    BY <1>5, <2>2 DEF Level
  <2> QED
    BY <2>1, <2>2
<1> QED
  BY <1>6, <1>7, Zenon DEF Replaced

LEMMA PushLevels ==
  ASSUME TypeOK, NEW th \in Threads, NEW fr \in Frame,
         stack' = [stack EXCEPT ![th] = <<fr>> \o stack[th]]
  PROVE  Pushed(th, fr)
<1> DEFINE s == stack[th]
           p == <<fr>> \o s
<1>1. s \in Seq(Frame) /\ Len(s) \in Nat
  BY DepthType DEF Depth
<1>2. Len(p) = Len(s) + 1 /\ p[1] = fr
  BY <1>1, StackJoin
<1>3. ASSUME NEW k \in 1..Len(s)
      PROVE  p[Len(s) + 2 - k] = s[Len(s) + 1 - k]
  BY <1>1, StackJoin
<1>4. stack'[th] = p /\ \A h \in Threads \ {th} : stack'[h] = stack[h]
  BY Zenon DEF TypeOK
<1> HIDE DEF p
<1>5. \A h \in Threads : Depth(h)' = IF h = th THEN Depth(h) + 1 ELSE Depth(h)
  BY <1>2, <1>4 DEF Depth
<1>6. ASSUME NEW h \in Threads, NEW k \in Levels(h)
      PROVE  Level(h, k)' = Level(h, k)
  <2>1. CASE h = th
    <3>1. Len(p) + 1 - k = Len(s) + 2 - k
      BY <1>1, <1>2, <2>1 DEF Levels
    <3> QED
      BY <1>3, <1>4, <2>1, <3>1, Zenon DEF Level, Levels
  <2>2. CASE h # th
    BY <1>4, <2>2, Zenon DEF Level
  <2> QED
    BY <2>1, <2>2
<1>7. Level(th, Depth(th))' = fr
  <2>1. Len(p) + 1 - Len(p) = 1
    BY <1>1, <1>2
  <2> QED
    BY <1>2, <1>4, <2>1, Zenon DEF Level, Depth
<1> QED
  BY <1>5, <1>6, <1>7, Zenon DEF Pushed

LEMMA PopLevels ==
  ASSUME TypeOK, NEW th \in Threads, stack[th] # <<>>,
         stack' = [stack EXCEPT ![th] = Tail(stack[th])]
  PROVE  Popped(th)
<1> DEFINE s == stack[th]
           p == Tail(s)
<1>1. s \in Seq(Frame) /\ Len(s) \in Nat \ {0}
  BY DepthType DEF Depth
<1>2. Len(p) = Len(s) - 1
  BY <1>1, StackHead
<1>3. ASSUME NEW k \in 1..Len(s), k # Len(s)
      PROVE  p[Len(s) - k] = s[Len(s) + 1 - k]
  BY <1>1, <1>3, StackHead
<1>4. stack'[th] = p /\ \A h \in Threads \ {th} : stack'[h] = stack[h]
  BY Zenon DEF TypeOK
<1> HIDE DEF p
<1>5. \A h \in Threads : Depth(h)' = IF h = th THEN Depth(h) - 1 ELSE Depth(h)
  BY <1>2, <1>4 DEF Depth
<1>6. ASSUME NEW h \in Threads, NEW k \in Levels(h), ~(h = th /\ k = Depth(th))
      PROVE  Level(h, k)' = Level(h, k)
  <2>1. CASE h = th
    <3>1. Len(p) + 1 - k = Len(s) - k
      BY <1>1, <1>2, <2>1 DEF Levels
    <3> QED
      BY <1>3, <1>4, <1>6, <2>1, <3>1, Zenon DEF Level, Levels, Depth
  <2>2. CASE h # th
    BY <1>4, <2>2, Zenon DEF Level
  <2> QED
    BY <2>1, <2>2
<1> QED
  BY <1>5, <1>6, Zenon DEF Popped

-----------------------------------------------------------------------------
\* The same with the callers, in a step that leaves the lanes alone: the last
\* request of th goes on, makes a request on behalf of t, or returns.
GoesOn(th, fr) ==
  /\ \A h \in Threads : Levels(h)' = Levels(h) /\ Depth(h)' = Depth(h)
  /\ \A h \in Threads : \A k \in Levels(h) :
       /\ Caller(h, k)' = Caller(h, k)
       /\ (h = th /\ k = Depth(th)) \/ Level(h, k)' = Level(h, k)
  /\ Level(th, Depth(th))' = fr
Calls(th, fr, t) ==
  /\ \A h \in Threads : \A k \in Levels(h) :
       /\ k \in Levels(h)'
       /\ Caller(h, k)' = Caller(h, k)
       /\ Level(h, k)' = Level(h, k)
  /\ \A h \in Threads : \A k \in Levels(h)' :
       /\ k \in Levels(h) \/ (h = th /\ k = Depth(th)')
       /\ k \in Levels(h) /\ k = Depth(h) /\ h # th => k = Depth(h)'
       /\ h = th /\ k = Depth(th)' => k \notin Levels(th)
  /\ Depth(th)' \in Levels(th)'
  /\ Caller(th, Depth(th))' = t
  /\ Level(th, Depth(th))' = fr
Returns(th) ==
  \A h \in Threads :
    /\ \A k \in Levels(h) : k \in Levels(h)' \/ (h = th /\ k = Depth(th))
    /\ \A k \in Levels(h)' :
         /\ k \in Levels(h)
         /\ ~(h = th /\ k = Depth(th))
         /\ k = Depth(h) => k = Depth(h)'
         /\ Caller(h, k)' = Caller(h, k)
         /\ Level(h, k)' = Level(h, k)

LEMMA ReplacedCallers ==
  ASSUME TypeOK, TypeOK', NEW th \in Threads, stack[th] # <<>>, NEW fr, Replaced(th, fr),
         UNCHANGED base
  PROVE  GoesOn(th, fr)
<1>1. ASSUME NEW h \in Threads, NEW k \in Levels(h)
      PROVE  /\ Caller(h, k)' = Caller(h, k)
             /\ (h = th /\ k = Depth(th)) \/ Level(h, k)' = Level(h, k)
  <2>1. CASE k = 1
    BY <2>1, Zenon DEF Caller, Replaced
  <2>2. CASE k # 1
    <3>1. k - 1 \in Levels(h) /\ k - 1 # Depth(h)
      BY <2>2, LevelType, DepthType
    <3>2. Level(h, k - 1)' = Level(h, k - 1)
      BY <3>1, Zenon DEF Replaced
    <3> QED
      BY <2>2, <3>2, Zenon DEF Caller, Replaced
  <2> QED
    BY <2>1, <2>2
<1>2. \A h \in Threads : Levels(h)' = Levels(h) /\ Depth(h)' = Depth(h)
  BY Zenon DEF Replaced, Levels, Depth
<1>3. Level(th, Depth(th))' = fr
  BY <1>2, TopLevel, Zenon DEF Replaced
<1> QED
  BY <1>1, <1>2, <1>3, Zenon DEF GoesOn

LEMMA PushedCallers ==
  ASSUME TypeOK, TypeOK', NEW th \in Threads, NEW fr, NEW t, Pushed(th, fr), UNCHANGED base,
         IF stack[th] = <<>> THEN base[th].task = t ELSE Top(th).task = t
  PROVE  Calls(th, fr, t)
<1>1. ASSUME NEW h \in Threads, NEW k \in Levels(h)
      PROVE  /\ k \in Levels(h)'
             /\ Caller(h, k)' = Caller(h, k)
             /\ Level(h, k)' = Level(h, k)
  <2>1. CASE k = 1
    <3>1. k \in Levels(h)'
      BY DepthType DEF Pushed, Levels, Depth
    <3> QED
      BY <2>1, <3>1, Zenon DEF Caller, Pushed
  <2>2. CASE k # 1
    <3>1. k - 1 \in Levels(h)
      BY <2>2, LevelType, Zenon
    <3>2. Level(h, k - 1)' = Level(h, k - 1)
      BY <3>1, Zenon DEF Pushed
    <3>3. k \in Levels(h)'
      BY DepthType DEF Pushed, Levels, Depth
    <3> QED
      BY <2>2, <3>2, <3>3, Zenon DEF Caller, Pushed
  <2> QED
    BY <2>1, <2>2
<1>2. \A h \in Threads : /\ Depth(h) \in Nat /\ Levels(h) = 1..Depth(h)
                         /\ Levels(h)' = 1..(Depth(h)')
                         /\ Depth(h)' = IF h = th THEN Depth(h) + 1 ELSE Depth(h)
  BY DepthType, Zenon DEF Pushed, Levels, Depth
<1>3. ASSUME NEW h \in Threads, NEW k \in Levels(h)'
      PROVE  /\ k \in Levels(h) \/ (h = th /\ k = Depth(th)')
             /\ k \in Levels(h) /\ k = Depth(h) /\ h # th => k = Depth(h)'
             /\ h = th /\ k = Depth(th)' => k \notin Levels(th)
  <2>1. /\ Depth(h) \in Nat /\ Levels(h) = 1..Depth(h) /\ Levels(h)' = 1..(Depth(h)')
        /\ Depth(h)' = IF h = th THEN Depth(h) + 1 ELSE Depth(h)
    BY <1>2, Zenon
  <2>2. CASE h = th
    BY <1>3, <2>1, <2>2
  <2>3. CASE h # th
    BY <1>3, <2>1, <2>3
  <2> QED
    BY <2>2, <2>3
<1>4. Depth(th)' \in Levels(th)'
  BY <1>2
<1>5. Caller(th, Depth(th))' = t
  <2>1. CASE stack[th] = <<>>
    <3>1. Depth(th)' = 1
      BY <1>2, <2>1, DepthType
    <3> QED
      BY <2>1, <3>1, Zenon DEF Caller
  <2>2. CASE stack[th] # <<>>
    <3>1. Depth(th)' # 1 /\ Depth(th)' - 1 = Depth(th)
      BY <1>2, <2>2, DepthType
    <3>2. Level(th, Depth(th)) = Top(th) /\ Depth(th) \in Levels(th)
      BY <2>2, TopLevel, Zenon
    <3>3. \A k \in Levels(th) : Level(th, k)' = Level(th, k)
      BY <1>1, Zenon
    <3>4. ASSUME NEW d, d \in Levels(th), Depth(th)' # 1, Depth(th)' - 1 = d
          PROVE  Caller(th, Depth(th))' = Level(th, d).task
      BY <3>3, <3>4, Zenon DEF Caller
    <3> QED
      BY <2>2, <3>1, <3>2, <3>4, Zenon
  <2> QED
    BY <2>1, <2>2
<1>6. Level(th, Depth(th))' = fr
  BY Zenon DEF Pushed
<1> QED
  BY <1>1, <1>3, <1>4, <1>5, <1>6, Zenon DEF Calls

LEMMA PoppedCallers ==
  ASSUME TypeOK, TypeOK', NEW th \in Threads, stack[th] # <<>>, Popped(th), UNCHANGED base
  PROVE  Returns(th)
<1>1. \A h \in Threads : /\ Depth(h) \in Nat /\ Levels(h) = 1..Depth(h)
                         /\ Levels(h)' = 1..(Depth(h)')
                         /\ Depth(h)' = IF h = th THEN Depth(h) - 1 ELSE Depth(h)
  BY DepthType, Zenon DEF Popped, Levels, Depth
<1>2. ASSUME NEW h \in Threads, NEW k \in Levels(h)'
      PROVE  /\ k \in Levels(h)
             /\ ~(h = th /\ k = Depth(th))
             /\ k = Depth(h) => k = Depth(h)'
  BY <1>1
<1>3. ASSUME NEW h \in Threads, NEW k \in Levels(h)'
      PROVE  Caller(h, k)' = Caller(h, k) /\ Level(h, k)' = Level(h, k)
  <2>1. k \in Levels(h) /\ ~(h = th /\ k = Depth(th))
    BY <1>2, Zenon
  <2>2. Level(h, k)' = Level(h, k)
    BY <2>1, Zenon DEF Popped
  <2>3. CASE k = 1
    BY <2>2, <2>3, Zenon DEF Caller
  <2>4. CASE k # 1
    <3>1. k - 1 \in Levels(h) /\ k - 1 # Depth(h)
      BY <1>1, <2>1, <2>4
    <3>2. Level(h, k - 1)' = Level(h, k - 1)
      BY <3>1, Zenon DEF Popped
    <3> QED
      BY <2>2, <2>4, <3>2, Zenon DEF Caller
  <2> QED
    BY <2>3, <2>4
<1>4. ASSUME NEW h \in Threads, NEW k \in Levels(h)
      PROVE  k \in Levels(h)' \/ (h = th /\ k = Depth(th))
  <2>1. /\ Depth(h) \in Nat /\ Levels(h) = 1..Depth(h) /\ Levels(h)' = 1..(Depth(h)')
        /\ Depth(h)' = IF h = th THEN Depth(h) - 1 ELSE Depth(h)
    BY <1>1, Zenon
  <2> QED
    BY <1>4, <2>1
<1> QED
  BY <1>2, <1>3, <1>4, Zenon DEF Returns

-----------------------------------------------------------------------------
(***************************************************************************)
(* The shapes of a step                                                    *)
(***************************************************************************)

\* The request of th waits for task t, or finds it computing its fact.
WaitPcs == {"wait_for", "register", "wait", "drop"}
WaitsFor(th, t) ==
  \/ Top(th).pc \in WaitPcs /\ Top(th).task = t
  \/ cell[Top(th).fact].st = "Computing" /\ cell[Top(th).fact].task = t

\* A request gives up an interest only on its way out of a wait.
InterestsKept(th) ==
  \/ \A u \in Tasks : interests[u] \subseteq interests'[u]
  \/ Top(th).pc = "drop" /\ Unregister(Top(th).task, th, Top(th).tok)

\* A request that runs no task goes on to another place that runs none.
Walks(th) ==
  /\ stack[th] # <<>> /\ Top(th).pc # "run"
  /\ Top(th).pc = "request" => Top(th).fact \notin Evaluating(th)
  /\ UNCHANGED <<task, base, result>> /\ InterestsKept(th)
  /\ \E fr \in Frame : /\ GoesOn(th, fr) /\ fr.pc # "run"
                       /\ fr.fact = Top(th).fact /\ fr.tok = Top(th).tok
                       /\ fr.pc \in WaitPcs => WaitsFor(th, fr.task)

\* A request claims its fact for the unused task t.
Claims(th, t) ==
  /\ stack[th] # <<>> /\ Top(th).pc # "run" /\ Top(th).pc # "request"
  /\ UNCHANGED <<base, result>> /\ Register(t, th, Top(th).tok)
  /\ t \in Tasks /\ task[t].phase = "Free"
  /\ \A u \in Tasks \ {t} : task'[u] = task[u]
  /\ task'[t] = NewTask(Top(th).fact, IF Top(th).fact \in Requested THEN t ELSE Top(th).tok)
  /\ \E fr \in Frame : /\ GoesOn(th, fr) /\ fr.pc = "run" /\ fr.task = t
                       /\ fr.fact = Top(th).fact /\ fr.tok = Top(th).tok

\* The record of a task, old and new, when a request for f returns; `mine' when
\* it was made on the task's behalf.
HeardBy(new, old, mine, f, outcome) ==
  /\ new.fact = old.fact /\ new.next = old.next
  /\ new.tok = old.tok /\ new.forked = old.forked
  /\ (new.deps = old.deps /\ new.errors = old.errors) \/ mine
  /\ mine =>
       \/ outcome = "Ok" /\ new.errors = old.errors /\ new.deps = old.deps \cup {f}
       \/ /\ outcome = "Cycle" /\ old.fact \in Absorbs
          /\ new.errors = old.errors /\ new.deps = old.deps
       \/ /\ outcome \in Errors /\ new.errors = old.errors \cup {outcome}
          /\ new.deps = old.deps
Hears(th, outcome) ==
  \A u \in Tasks : HeardBy(task'[u], task[u], u = Context(th), Top(th).fact, outcome)

\* The request of a root ends with this outcome when its last level goes.
Answers(th, outcome) ==
  result' = IF th \in Roots /\ Depth(th) = 1 THEN [result EXCEPT ![th] = outcome]
            ELSE result

\* Why a request reports a cycle: its fact is under evaluation on the thread, or
\* the task it would wait for waits for the task that makes the request.
FindsCycle(th) ==
  \/ Top(th).fact \in Evaluating(th)
  \/ /\ Top(th).task \in Tasks /\ owners[Top(th).fact] = Top(th).task
     /\ Context(th) # None /\ Reaches(Top(th).task, Context(th))

Outcomes == {"Ok"} \cup Errors

\* A request that runs no task returns.
Leaves(th, outcome) ==
  /\ stack[th] # <<>> /\ Top(th).pc # "run"
  /\ UNCHANGED <<base, interests>>
  /\ Returns(th)
  /\ Hears(th, outcome) /\ Answers(th, outcome)
  /\ \A u \in Tasks : task'[u].phase = task[u].phase
  /\ outcome = "Cancelled" => IsCancelled(Top(th).tok)
  /\ outcome = "Cycle" => FindsCycle(th)

\* A request returns at the end of the evaluation that it ran.
Finishes(th, outcome) ==
  /\ stack[th] # <<>> /\ Top(th).pc = "run"
  /\ UNCHANGED base /\ Unregister(Top(th).task, th, Top(th).tok)
  /\ Returns(th)
  /\ Hears(th, outcome) /\ Answers(th, outcome)
  /\ task[Top(th).task].phase \in {"Published", "Abandoned"}
  /\ task'[Top(th).task].phase = "Done"
  /\ \A u \in Tasks \ {Top(th).task} : task'[u].phase = task[u].phase
  /\ \/ outcome = "Ok" \/ outcome \in task[Top(th).task].errors
     \/ outcome = "Cancelled" /\ IsCancelled(Top(th).tok)

\* The course of an evaluation of t, from the old phase to the new one.
Course(t) ==
  LET old == task[t].phase
      new == task'[t].phase
  IN \/ /\ \/ old = "Claimed" /\ new = "Recording"
           \/ old = "Computed" /\ new = "Prepare"
           \/ old = "Publishing" /\ new = "Published"
        /\ task'[t].deps = task[t].deps /\ task'[t].errors = task[t].errors
        /\ task'[t].forked = task[t].forked
     \/ /\ old = "Recording" /\ new = "Joining" /\ task[t].forked /\ task'[t].forked
        /\ task'[t].deps = task[t].deps /\ task'[t].errors = task[t].errors
     \/ /\ old = "Joining" /\ new = "Recording" /\ ~\E h \in Helpers : base[h].task = t
        /\ task'[t].deps = task[t].deps /\ task'[t].errors = task[t].errors
     \/ /\ old = "Recording" /\ new = "Computed" /\ task[t].next > Items(t)
        /\ ~task[t].forked /\ task[t].errors = {}
        /\ task'[t].deps = task[t].deps /\ task'[t].errors = {}
     \/ /\ old = "Recording" /\ new = "Abandoning" /\ (Parallel(t) => ~task[t].forked)
        /\ task'[t].deps = task[t].deps
        /\ \E e \in task[t].errors : task'[t].errors = {e}
     \/ /\ old = "Computed" /\ new = "Abandoning" /\ IsCancelled(t)
        /\ task'[t].deps = task[t].deps /\ task'[t].errors = {"Cancelled"}
     \/ /\ \/ old = "Prepare" /\ new = "Publishing"
           \/ old = "Abandoning" /\ new = "Abandoned"
        /\ task'[t].deps = {} /\ task'[t].errors = task[t].errors

\* The evaluation that th runs goes on.
Evaluates(th) ==
  /\ At(th, "run")
  /\ UNCHANGED <<stack, base, result, interests>>
  /\ \A u \in Tasks \ {Top(th).task} : task'[u] = task[u]
  /\ task'[Top(th).task].fact = task[Top(th).task].fact
  /\ task'[Top(th).task].tok = task[Top(th).task].tok
  /\ task'[Top(th).task].next = task[Top(th).task].next
  /\ Course(Top(th).task)

\* What a fact's computation asks for.
Wants(f) == {Requests[f][i] : i \in 1..Len(Requests[f])}

\* On th, the computation of t makes its next request.
Asks(th, t) ==
  /\ t \in Tasks /\ Dispatches(th, t) /\ task[t].phase = "Recording"
  /\ UNCHANGED <<base, result, interests>>
  /\ \A u \in Tasks \ {t} : task'[u] = task[u]
  /\ task'[t] = [task[t] EXCEPT !.next = @ + 1]
  /\ task[t].next \in 1..Len(Requests[task[t].fact])
  /\ \E fr \in Frame : /\ Calls(th, fr, t)
                       /\ fr.pc = "request" /\ fr.tok = task[t].tok
                       /\ fr.fact = Requests[task[t].fact][task[t].next]

\* On th, the computation of t leaves an item to a lane on h.
Spawns(th, t, h) ==
  /\ t \in Tasks /\ Dispatches(th, t) /\ task[t].phase = "Recording" /\ Parallel(t)
  /\ h \in Helpers /\ base[h] = NoLane
  /\ UNCHANGED <<stack, result, interests>>
  /\ base'[h].task = t
  /\ base'[h].facts = IF stack[th] = <<>> THEN base[th].facts
                      ELSE Evaluating(th) \cup {task[t].fact}
  /\ \A g \in Threads \ {h} : base'[g] = base[g]
  /\ \A u \in Tasks \ {t} : task'[u] = task[u]
  /\ task'[t] = [task[t] EXCEPT !.forked = TRUE]

\* The lane of h ends.
Ends(h) ==
  /\ stack[h] = <<>> /\ base[h].task # None
  /\ UNCHANGED <<stack, task, result, interests>>
  /\ base'[h] = NoLane /\ \A g \in Threads \ {h} : base'[g] = base[g]

LEMMA GotoWalks ==
  ASSUME TypeOK, TypeOK', NEW th \in Threads, stack[th] # <<>>, Top(th).pc # "run",
         NEW pc, Goto(th, pc), UNCHANGED <<task, base, result>>, InterestsKept(th),
         Top(th).pc = "request" => Top(th).fact \notin Evaluating(th),
         \/ pc \in FreePcs
         \/ pc \in WaitPcs /\ Top(th).pc \in WaitPcs
  PROVE  Walks(th)
<1> DEFINE fr == [Top(th) EXCEPT !.pc = pc]
<1>1. fr \in Frame
  BY TopFrame DEF Frame, TaskPcs, FreePcs, WaitPcs
<1>2. fr.pc # "run" /\ fr.fact = Top(th).fact /\ fr.tok = Top(th).tok
  BY TopFrame DEF Frame, TaskPcs, FreePcs, WaitPcs
<1>5. fr.pc \in WaitPcs => WaitsFor(th, fr.task)
  BY TopFrame DEF Frame, TaskPcs, FreePcs, WaitPcs, WaitsFor
<1>3. stack' = [stack EXCEPT ![th] = <<fr>> \o Tail(stack[th])]
  BY DEF Goto
<1> HIDE DEF fr
<1>4. GoesOn(th, fr)
  BY <1>1, <1>3, ReplaceLevels, ReplacedCallers, Zenon
<1> QED
  BY <1>1, <1>2, <1>4, <1>5, Zenon DEF Walks

LEMMA GotoWithStep ==
  ASSUME TypeOK, TypeOK', NEW th \in Threads, stack[th] # <<>>, NEW pc, NEW t,
         GotoWith(th, pc, t), UNCHANGED base,
         \/ pc \in FreePcs /\ t \in Tasks \cup {None}
         \/ pc \in TaskPcs /\ t \in Tasks
  PROVE  \E fr \in Frame : /\ GoesOn(th, fr) /\ fr.pc = pc /\ fr.task = t
                           /\ fr.fact = Top(th).fact /\ fr.tok = Top(th).tok
<1> DEFINE fr == [Top(th) EXCEPT !.pc = pc, !.task = t]
<1>1. fr \in Frame
  BY TopFrame, Zenon DEF Frame, TaskPcs, FreePcs
<1>2. fr.pc = pc /\ fr.task = t /\ fr.fact = Top(th).fact /\ fr.tok = Top(th).tok
  BY TopFrame, Zenon DEF Frame
<1>3. stack' = [stack EXCEPT ![th] = <<fr>> \o Tail(stack[th])]
  BY DEF GotoWith
<1> HIDE DEF fr
<1>4. GoesOn(th, fr)
  BY <1>1, <1>3, ReplaceLevels, ReplacedCallers, Zenon
<1> QED
  BY <1>1, <1>2, <1>4, Zenon

LEMMA SettleHears ==
  ASSUME NEW tk \in [Tasks -> Task], NEW c \in Tasks \cup {None}, NEW f \in Facts,
         NEW outcome \in {"Ok"} \cup Errors, NEW u \in Tasks
  PROVE  /\ HeardBy(Settle(tk, c, f, outcome)[u], tk[u], u = c, f, outcome)
         /\ Settle(tk, c, f, outcome)[u].phase = tk[u].phase
<1> DEFINE v == Settle(tk, c, f, outcome)[u]
<1> SUFFICES HeardBy(v, tk[u], u = c, f, outcome) /\ v.phase = tk[u].phase
  OBVIOUS
<1>1. tk[u] \in Task
  OBVIOUS
<1>2. CASE u # c
  <2>1. v = tk[u]
    BY <1>2, Zenon DEF Settle
  <2> HIDE DEF v
  <2> QED
    BY <1>2, <2>1, Zenon DEF HeardBy
<1>3. CASE u = c
  <2>1. c # None
    BY <1>3, NoTask
  <2>2. CASE outcome = "Cycle" /\ tk[c].fact \in Absorbs
    BY <1>3, <2>2, Zenon DEF Settle, HeardBy
  <2>3. CASE outcome = "Ok"
    <3>1. v = [tk[u] EXCEPT !.deps = @ \cup {f}]
      BY <1>3, <2>1, <2>3 DEF Settle
    <3> HIDE DEF v
    <3> QED
      BY <1>1, <1>3, <2>3, <3>1, Zenon DEF Task, HeardBy
  <2>4. CASE outcome \in Errors /\ ~(outcome = "Cycle" /\ tk[c].fact \in Absorbs)
    <3>1. v = [tk[u] EXCEPT !.errors = @ \cup {outcome}]
      BY <1>3, <2>1, <2>4 DEF Settle, Errors
    <3> HIDE DEF v
    <3> QED
      BY <1>1, <1>3, <2>4, <3>1, Zenon DEF Task, HeardBy
  <2> QED
    BY <2>2, <2>3, <2>4
<1> QED
  BY <1>2, <1>3

LEMMA ReturnStep ==
  ASSUME TypeOK, TypeOK', NEW th \in Threads, stack[th] # <<>>,
         NEW outcome \in {"Ok"} \cup Errors, NEW tk \in [Tasks -> Task],
         Return(th, outcome, tk), UNCHANGED base,
         \A u \in Tasks : /\ tk[u].fact = task[u].fact /\ tk[u].next = task[u].next
                          /\ tk[u].tok = task[u].tok /\ tk[u].forked = task[u].forked
                          /\ tk[u].deps = task[u].deps /\ tk[u].errors = task[u].errors
  PROVE  /\ Returns(th) /\ Hears(th, outcome) /\ Answers(th, outcome)
         /\ \A u \in Tasks : task'[u].phase = tk[u].phase
<1>1. Returns(th)
  BY PopLevels, PoppedCallers, Zenon DEF Return
<1>2. Answers(th, outcome)
  BY Zenon DEF Return, Answers, Depth
<1>3. Context(th) \in Tasks \cup {None} /\ Top(th).fact \in Facts
  BY ContextTask, TopFrame, Zenon
<1>4. ASSUME NEW u \in Tasks
      PROVE  /\ HeardBy(task'[u], task[u], u = Context(th), Top(th).fact, outcome)
             /\ task'[u].phase = tk[u].phase
  <2> DEFINE v == Settle(tk, Context(th), Top(th).fact, outcome)[u]
  <2>1. HeardBy(v, tk[u], u = Context(th), Top(th).fact, outcome) /\ v.phase = tk[u].phase
    BY <1>3, SettleHears
  <2>2. task'[u] = v
    BY Zenon DEF Return
  <2> HIDE DEF v
  <2> QED
    BY <2>1, <2>2, Zenon DEF HeardBy
<1> QED
  BY <1>1, <1>2, <1>4, Zenon DEF Hears

LEMMA LeaveStep ==
  ASSUME TypeOK, TypeOK', NEW th \in Threads, stack[th] # <<>>, Top(th).pc # "run",
         NEW outcome \in {"Ok"} \cup Errors, Return(th, outcome, task),
         UNCHANGED <<base, interests>>,
         outcome = "Cancelled" => IsCancelled(Top(th).tok),
         outcome = "Cycle" => FindsCycle(th)
  PROVE  Leaves(th, outcome)
<1>1. task \in [Tasks -> Task]
  BY Zenon DEF TypeOK
<1> QED
  BY <1>1, ReturnStep, Zenon DEF Leaves

LEMMA RequestStep ==
  ASSUME TypeOK, TypeOK', NEW th \in Threads,
         Request(th) \/ Check(th) \/ Look(th) \/ Admit(th) \/ WaitFor(th)
  PROVE  Walks(th) \/ \E outcome \in Outcomes : Leaves(th, outcome)
<1>1. stack[th] # <<>> /\ Top(th).pc # "run"
  <2>1. Top(th).pc \in {"request", "check", "look", "admit", "wait_for"} /\ stack[th] # <<>>
    BY Zenon DEF Request, Check, Look, Admit, WaitFor, At, Top
  <2> QED
    BY <2>1
<1>2. UNCHANGED <<base, interests>> /\ InterestsKept(th)
  BY Zenon DEF Request, Check, Look, Admit, WaitFor, InterestsKept
<1>3. ASSUME NEW outcome \in Outcomes, Return(th, outcome, task),
             outcome = "Cancelled" => IsCancelled(Top(th).tok),
             outcome = "Cycle" => FindsCycle(th)
      PROVE  \E o \in Outcomes : Leaves(th, o)
  BY <1>1, <1>2, <1>3, LeaveStep, Zenon DEF Outcomes
<1>4. ASSUME NEW pc \in FreePcs, Goto(th, pc), UNCHANGED <<task, result>>,
             Top(th).pc = "request" => Top(th).fact \notin Evaluating(th)
      PROVE  Walks(th)
  BY <1>1, <1>2, <1>4, GotoWalks, Zenon
<1>5. ASSUME NEW pc, NEW t, GotoWith(th, pc, t), UNCHANGED <<task, result>>,
             Top(th).pc # "request",
             \/ pc \in FreePcs /\ t \in Tasks \cup {None}
             \/ pc \in WaitPcs /\ t \in Tasks /\ WaitsFor(th, t)
      PROVE  Walks(th)
  <2>1. /\ pc # "run" /\ (pc \in WaitPcs => pc \in TaskPcs)
        /\ pc \in WaitPcs => WaitsFor(th, t)
    BY <1>5 DEF TaskPcs, FreePcs, WaitPcs
  <2>2. \E fr \in Frame : /\ GoesOn(th, fr) /\ fr.pc = pc /\ fr.task = t
                          /\ fr.fact = Top(th).fact /\ fr.tok = Top(th).tok
    BY <1>1, <1>2, <1>5, <2>1, GotoWithStep
  <2> QED
    BY <1>1, <1>2, <1>5, <2>1, <2>2, Zenon DEF Walks
<1>6. /\ "Ok" \in Outcomes /\ "Cycle" \in Outcomes /\ "Cancelled" \in Outcomes
      /\ "Ok" # "Cycle" /\ "Ok" # "Cancelled" /\ "Cycle" # "Cancelled"
  BY DEF Outcomes, Errors
<1>7. CASE Request(th)
  <2>1. CASE Top(th).fact \in Evaluating(th)
    BY <1>3, <1>6, <1>7, <2>1, Zenon DEF Request, FindsCycle
  <2>2. CASE Top(th).fact \notin Evaluating(th)
    BY <1>3, <1>4, <1>6, <1>7, <2>2, Zenon DEF Request, FreePcs
  <2> QED
    BY <2>1, <2>2
<1>8. CASE Check(th)
  <2>1. Top(th).pc # "request"
    BY <1>8 DEF Check, At, Top
  <2> QED
    BY <1>3, <1>4, <1>6, <1>8, <2>1, Zenon DEF Check, FreePcs
<1>9. CASE Admit(th)
  <2>1. Top(th).pc # "request"
    BY <1>9 DEF Admit, At, Top
  <2> QED
    BY <1>3, <1>4, <1>6, <1>9, <2>1, Zenon DEF Admit, FreePcs
<1>10. CASE Look(th)
  <2>0. Top(th).pc # "request"
    BY <1>10 DEF Look, At, Top
  <2>1. ASSUME cell[Top(th).fact].st = "Computing",
               GotoWith(th, "wait_for", cell[Top(th).fact].task), UNCHANGED <<task, result>>
        PROVE  Walks(th)
    <3>1. cell[Top(th).fact] \in Cell
      BY <1>1, TopFrame, Zenon DEF TypeOK
    <3>2. cell[Top(th).fact].task \in Tasks /\ "wait_for" \in WaitPcs
      BY <2>1, <3>1 DEF Cell, WaitPcs
    <3>3. WaitsFor(th, cell[Top(th).fact].task)
      BY <2>1, Zenon DEF WaitsFor
    <3> QED
      BY <1>5, <2>0, <2>1, <3>2, <3>3, Zenon
  <2> QED
    BY <1>3, <1>4, <1>6, <1>10, <2>0, <2>1, Zenon DEF Look, FreePcs
<1>11. CASE WaitFor(th)
  <2>0. Top(th).pc = "wait_for"
    BY <1>11, Zenon DEF WaitFor, At, Top
  <2>1. /\ Top(th).task \in Tasks /\ "register" \in WaitPcs
        /\ Top(th).pc \in WaitPcs /\ Top(th).pc # "request"
    BY <1>1, <2>0, TopFrame DEF TaskPcs, WaitPcs
  <2>2. ASSUME GotoWith(th, "check", None), UNCHANGED <<task, result>>
        PROVE  Walks(th)
    <3>1. "check" \in FreePcs /\ None \in Tasks \cup {None}
      BY DEF FreePcs
    <3> QED
      BY <1>5, <2>1, <2>2, <3>1, Zenon
  <2>3. ASSUME Goto(th, "register"), UNCHANGED <<task, result>>
        PROVE  Walks(th)
    BY <1>1, <1>2, <2>1, <2>3, GotoWalks, Zenon
  <2> QED
    BY <1>3, <1>6, <1>11, <2>1, <2>2, <2>3, Zenon DEF WaitFor, FindsCycle
<1> QED
  BY <1>7, <1>8, <1>9, <1>10, <1>11, Zenon

LEMMA WaitStep ==
  ASSUME TypeOK, TypeOK', NEW th \in Threads,
         RegisterInterest(th) \/ Unwait(th) \/ DropInterest(th)
  PROVE  Walks(th)
<1>1. Top(th).pc \in {"register", "wait", "drop"} /\ stack[th] # <<>>
  BY Zenon DEF RegisterInterest, Unwait, DropInterest, At, Top
<1>2. Top(th).pc \in WaitPcs /\ Top(th).pc # "run" /\ Top(th).pc # "request"
  BY <1>1 DEF WaitPcs
<1>3. UNCHANGED <<task, base, result>>
  BY Zenon DEF RegisterInterest, Unwait, DropInterest
<1>6. InterestsKept(th)
  <2>1. CASE RegisterInterest(th)
    <3>1. interests \in [Tasks -> SUBSET (Threads \X Tokens)]
      BY Zenon DEF TypeOK
    <3>2. interests' = [interests EXCEPT ![Top(th).task] = @ \cup {<<th, Top(th).tok>>}]
      BY <2>1, Zenon DEF RegisterInterest, Register
    <3>3. \A u \in Tasks : interests[u] \subseteq interests'[u]
      BY <3>1, <3>2, Zenon
    <3> QED
      BY <3>3, Zenon DEF InterestsKept
  <2>2. CASE Unwait(th)
    BY <2>2, Zenon DEF Unwait, InterestsKept
  <2>3. CASE DropInterest(th)
    BY <2>3, Zenon DEF DropInterest, At, Top, InterestsKept
  <2> QED
    BY <2>1, <2>2, <2>3
<1>4. PICK pc \in {"wait", "drop", "check"} : Goto(th, pc)
  BY Zenon DEF RegisterInterest, Unwait, DropInterest
<1>5. pc \in FreePcs \/ pc \in WaitPcs
  BY DEF WaitPcs, FreePcs
<1> QED
  BY <1>1, <1>2, <1>3, <1>4, <1>5, <1>6, GotoWalks, Zenon

LEMMA ClaimStep ==
  ASSUME Inv, TypeOK', NEW th \in Threads, Claim(th)
  PROVE  Walks(th) \/ Claims(th, next_task)
<1>1. TypeOK /\ task \in [Tasks -> Task]
  BY Zenon DEF Inv, TypeOK
<1>2. stack[th] # <<>> /\ Top(th).pc = "claim" /\ UNCHANGED <<base, result>>
  BY Zenon DEF Claim, At, Top
<1>3. Top(th).pc # "run" /\ Top(th).pc # "request"
  BY <1>2
<1>4. CASE cell[Top(th).fact].st # "Vacant"
  BY <1>1, <1>2, <1>3, <1>4, GotoWalks, Zenon DEF Claim, FreePcs, InterestsKept
<1>5. CASE cell[Top(th).fact].st = "Vacant"
  <2>1. /\ next_task \in Tasks /\ GotoWith(th, "run", next_task)
        /\ task' = [task EXCEPT ![next_task] =
                      NewTask(Top(th).fact, IF Top(th).fact \in Requested THEN next_task
                                            ELSE Top(th).tok)]
        /\ Register(next_task, th, Top(th).tok)
    BY <1>5, Zenon DEF Claim
  <2>2. task[next_task].phase = "Free"
    <3>1. Fresh /\ next_task \in Nat
      BY Zenon DEF Inv, TypeOK
    <3> QED
      BY <2>1, <3>1 DEF Fresh
  <2>3. "run" \in TaskPcs
    BY DEF TaskPcs
  <2>4. \E fr \in Frame : /\ GoesOn(th, fr) /\ fr.pc = "run" /\ fr.task = next_task
                          /\ fr.fact = Top(th).fact /\ fr.tok = Top(th).tok
    BY <1>1, <1>2, <2>1, <2>3, GotoWithStep
  <2>5. /\ \A u \in Tasks \ {next_task} : task'[u] = task[u]
        /\ task'[next_task] = NewTask(Top(th).fact, IF Top(th).fact \in Requested
                                                    THEN next_task ELSE Top(th).tok)
    BY <1>1, <2>1, Zenon
  <2> QED
    BY <1>2, <1>3, <2>1, <2>2, <2>4, <2>5, Zenon DEF Claims
<1> QED
  BY <1>4, <1>5

LEMMA EvaluationStep ==
  ASSUME TypeOK, NEW th \in Threads,
         \/ Begin(th) \/ Suspend(th) \/ Resume(th) \/ Compute(th) \/ Fail(th)
         \/ CheckShared(th) \/ Commit(th) \/ Publish(th) \/ Abandon(th)
  PROVE  Evaluates(th)
<1> DEFINE t == Top(th).task
           Kept == /\ task'[t].fact = task[t].fact /\ task'[t].tok = task[t].tok
                   /\ task'[t].next = task[t].next
           Same == /\ Kept /\ task'[t].deps = task[t].deps
                   /\ task'[t].errors = task[t].errors
           Others == \A u \in Tasks \ {t} : task'[u] = task[u]
<1>1. At(th, "run") /\ UNCHANGED <<stack, base, result, interests>>
  BY Zenon DEF Begin, Suspend, Resume, Compute, Fail, CheckShared, Commit, Publish, Abandon, Runs
<1>2. t \in Tasks /\ task[t] \in Task /\ task \in [Tasks -> Task]
  BY <1>1, RunnersTask, Zenon DEF TypeOK
<1>3. ASSUME NEW ph, SetPhase(t, ph)
      PROVE  /\ Same /\ Others /\ task'[t].phase = ph
             /\ task'[t].forked = task[t].forked
  <2> HIDE DEF t
  <2>1. Others /\ task'[t] = [task[t] EXCEPT !.phase = ph]
    BY <1>2, <1>3, Zenon DEF SetPhase
  <2> QED
    BY <1>2, <2>1, Zenon DEF Task
<1>4. ASSUME Resume(th)
      PROVE  Same /\ Others /\ task'[t].phase = "Recording"
  <2>1. task' = [task EXCEPT ![t].phase = "Recording", ![t].forked = FALSE]
    BY <1>4, Zenon DEF Resume
  <2> HIDE DEF t
  <2> QED
    BY <1>2, <2>1, Zenon DEF Task
<1>5. ASSUME NEW e, task' = [task EXCEPT ![t].phase = "Abandoning", ![t].errors = {e}]
      PROVE  /\ Kept /\ Others /\ task'[t].phase = "Abandoning"
             /\ task'[t].deps = task[t].deps /\ task'[t].errors = {e}
  <2> HIDE DEF t
  <2> QED
    BY <1>2, <1>5, Zenon DEF Task
<1>6. ASSUME NEW ph, task' = [task EXCEPT ![t].phase = ph, ![t].deps = {}]
      PROVE  /\ Kept /\ Others /\ task'[t].phase = ph
             /\ task'[t].deps = {} /\ task'[t].errors = task[t].errors
  <2> HIDE DEF t
  <2> QED
    BY <1>2, <1>6, Zenon DEF Task
<1>7. CASE Begin(th) \/ Suspend(th) \/ Compute(th) \/ Publish(th)
  <2>1. CASE Begin(th)
    <3>1. task[t].phase = "Claimed" /\ SetPhase(t, "Recording")
      BY <2>1, Zenon DEF Begin, Runs
    <3> HIDE DEF t
    <3> QED
      BY <1>1, <1>3, <3>1, Zenon DEF Evaluates, Course, t
  <2>2. CASE Suspend(th)
    <3>1. task[t].phase = "Recording" /\ SetPhase(t, "Joining") /\ task[t].forked
      BY <2>2, Zenon DEF Suspend, Runs
    <3> HIDE DEF t
    <3> QED
      BY <1>1, <1>3, <3>1, Zenon DEF Evaluates, Course, t
  <2>3. CASE Compute(th)
    <3>1. /\ task[t].phase = "Recording" /\ SetPhase(t, "Computed") /\ ~task[t].forked
          /\ task[t].errors = {} /\ task[t].next > Items(t)
      BY <2>3, Zenon DEF Compute, Runs, Joined
    <3> HIDE DEF t
    <3> QED
      BY <1>1, <1>3, <3>1, Zenon DEF Evaluates, Course, t
  <2>4. CASE Publish(th)
    <3>1. task[t].phase = "Publishing" /\ SetPhase(t, "Published")
      BY <2>4, Zenon DEF Publish, Runs
    <3> HIDE DEF t
    <3> QED
      BY <1>1, <1>3, <3>1, Zenon DEF Evaluates, Course, t
  <2> QED
    BY <1>7, <2>1, <2>2, <2>3, <2>4
<1>8. CASE Resume(th)
  <2>1. task[t].phase = "Joining" /\ ~\E h \in Helpers : base[h].task = t
    BY <1>8, Zenon DEF Resume, Runs
  <2> HIDE DEF t
  <2> QED
    BY <1>1, <1>4, <1>8, <2>1, Zenon DEF Evaluates, Course, t
<1>9. CASE Fail(th)
  <2>1. /\ task[t].phase = "Recording" /\ (Parallel(t) => ~task[t].forked)
        /\ \E e \in task[t].errors :
             task' = [task EXCEPT ![t].phase = "Abandoning", ![t].errors = {e}]
    BY <1>9, Zenon DEF Fail, Runs, Joined
  <2>2. PICK e \in task[t].errors :
             task' = [task EXCEPT ![t].phase = "Abandoning", ![t].errors = {e}]
    BY <2>1, Zenon
  <2>3. /\ Kept /\ Others /\ task'[t].phase = "Abandoning"
        /\ task'[t].deps = task[t].deps /\ task'[t].errors = {e}
    BY <1>5, <2>2, Zenon
  <2> HIDE DEF t
  <2> QED
    BY <1>1, <2>1, <2>2, <2>3, Zenon DEF Evaluates, Course, t
<1>10. CASE CheckShared(th)
  <2>1. CASE IsCancelled(t)
    <3>1. /\ task[t].phase = "Computed"
          /\ task' = [task EXCEPT ![t].phase = "Abandoning", ![t].errors = {"Cancelled"}]
      BY <1>10, <2>1, Zenon DEF CheckShared, Runs
    <3>2. /\ Kept /\ Others /\ task'[t].phase = "Abandoning"
          /\ task'[t].deps = task[t].deps /\ task'[t].errors = {"Cancelled"}
      BY <1>5, <3>1, Zenon
    <3> HIDE DEF t
    <3> QED
      BY <1>1, <2>1, <3>1, <3>2, Zenon DEF Evaluates, Course, t
  <2>2. CASE ~IsCancelled(t)
    <3>1. task[t].phase = "Computed" /\ SetPhase(t, "Prepare")
      BY <1>10, <2>2, Zenon DEF CheckShared, Runs, SetPhase
    <3> HIDE DEF t
    <3> QED
      BY <1>1, <1>3, <3>1, Zenon DEF Evaluates, Course, t
  <2> QED
    BY <2>1, <2>2
<1>11. CASE Commit(th) \/ Abandon(th)
  <2>1. PICK ph : /\ \/ task[t].phase = "Prepare" /\ ph = "Publishing"
                     \/ task[t].phase = "Abandoning" /\ ph = "Abandoned"
                  /\ task' = [task EXCEPT ![t].phase = ph, ![t].deps = {}]
    BY <1>11, Zenon DEF Commit, Abandon, Runs
  <2>2. /\ Kept /\ Others /\ task'[t].phase = ph
        /\ task'[t].deps = {} /\ task'[t].errors = task[t].errors
    BY <1>6, <2>1, Zenon
  <2> HIDE DEF t
  <2> QED
    BY <1>1, <2>1, <2>2, Zenon DEF Evaluates, Course, t
<1> QED
  BY <1>7, <1>8, <1>9, <1>10, <1>11, Zenon

LEMMA FinishStep ==
  ASSUME TypeOK, TypeOK', NEW th \in Threads, Deliver(th) \/ Vacate(th)
  PROVE  \E outcome \in Outcomes : Finishes(th, outcome)
<1> DEFINE t == Top(th).task
           tk == [task EXCEPT ![t].phase = "Done"]
<1>1. /\ At(th, "run") /\ task[t].phase \in {"Published", "Abandoned"}
      /\ UNCHANGED base /\ Unregister(t, th, Top(th).tok)
  BY Zenon DEF Deliver, Vacate, Runs
<1>2. /\ stack[th] # <<>> /\ Top(th).pc = "run"
      /\ t \in Tasks /\ task[t] \in Task /\ task \in [Tasks -> Task]
  BY <1>1, RunnersTask, Zenon DEF TypeOK, At, Top
<1>3. /\ tk \in [Tasks -> Task]
      /\ tk[t].phase = "Done" /\ \A u \in Tasks \ {t} : tk[u].phase = task[u].phase
      /\ \A u \in Tasks : /\ tk[u].fact = task[u].fact /\ tk[u].next = task[u].next
                          /\ tk[u].tok = task[u].tok /\ tk[u].forked = task[u].forked
                          /\ tk[u].deps = task[u].deps /\ tk[u].errors = task[u].errors
  <2>1. tk \in [Tasks -> Task]
    BY <1>2, PhaseWritten, Zenon DEF Phases
  <2>2. tk[t] = [task[t] EXCEPT !.phase = "Done"] /\ \A u \in Tasks \ {t} : tk[u] = task[u]
    BY <1>2, Zenon
  <2> HIDE DEF tk, t
  <2> QED
    BY <1>2, <2>1, <2>2, Zenon DEF Task
<1>4. ASSUME NEW outcome \in Outcomes, Return(th, outcome, tk),
             \/ outcome = "Ok" \/ outcome \in task[t].errors
             \/ outcome = "Cancelled" /\ IsCancelled(Top(th).tok)
      PROVE  \E o \in Outcomes : Finishes(th, o)
  <2> HIDE DEF tk
  <2>1. /\ Returns(th) /\ Hears(th, outcome) /\ Answers(th, outcome)
        /\ \A u \in Tasks : task'[u].phase = tk[u].phase
    BY <1>1, <1>2, <1>3, <1>4, ReturnStep, Zenon DEF Outcomes
  <2> QED
    BY <1>1, <1>2, <1>3, <1>4, <2>1, Zenon DEF Finishes
<1>5. "Ok" \in Outcomes /\ "Cancelled" \in Outcomes
  BY DEF Outcomes, Errors
<1>6. CASE Deliver(th)
  BY <1>4, <1>5, <1>6, Zenon DEF Deliver
<1>7. CASE Vacate(th)
  <2>1. PICK e \in task[t].errors : Return(th, e, tk)
    BY <1>7, Zenon DEF Vacate
  <2>2. e \in Outcomes
    BY <1>2, <2>1, Zenon DEF Task, Outcomes
  <2> HIDE DEF tk
  <2> QED
    BY <1>4, <2>1, <2>2, Zenon
<1> QED
  BY <1>6, <1>7, Zenon

LEMMA AskStep ==
  ASSUME TypeOK, TypeOK', NEW th \in Threads, NEW t \in Tasks, Call(th, t)
  PROVE  Asks(th, t)
<1> DEFINE f == task[t].fact
           fr == NewFrame(Requests[f][task[t].next], task[t].tok)
<1>1. task \in [Tasks -> Task] /\ task[t] \in Task /\ f \in Facts
  BY Zenon DEF TypeOK, Task
<1>2. Requests[f] \in Seq(Facts)
  BY <1>1, FactQueryAssumption, Zenon
<1>3. task[t].next \in 1..Len(Requests[f])
  <2>1. task[t].next \in Nat \ {0}
    BY <1>1, Zenon DEF Task
  <2>2. Len(Requests[f]) \in Nat
    BY <1>2, StackLength
  <2>3. task[t].next <= Len(Requests[f])
    BY Zenon DEF Call, Items
  <2> QED
    BY <2>1, <2>2, <2>3
<1>4. Requests[f][task[t].next] \in Facts
  BY <1>2, <1>3, StackItem, Zenon
<1>5. fr \in Frame
  BY <1>1, <1>4, Zenon DEF NewFrame, Frame, FreePcs, Task
<1>6. fr.pc = "request" /\ fr.tok = task[t].tok /\ fr.fact = Requests[f][task[t].next]
  BY Zenon DEF NewFrame
<1>7. /\ stack' = [stack EXCEPT ![th] = <<fr>> \o stack[th]]
      /\ task' = [task EXCEPT ![t].next = @ + 1]
      /\ Dispatches(th, t) /\ task[t].phase = "Recording" /\ UNCHANGED <<base, result, interests>>
  BY Zenon DEF Call
<1> HIDE DEF fr
<1>8. Calls(th, fr, t)
  <2>1. Pushed(th, fr)
    BY <1>5, <1>7, PushLevels, Zenon
  <2>2. IF stack[th] = <<>> THEN base[th].task = t ELSE Top(th).task = t
    BY <1>7, Zenon DEF Dispatches
  <2> QED
    BY <1>7, <2>1, <2>2, PushedCallers, Zenon
<1>9. /\ \A u \in Tasks \ {t} : task'[u] = task[u]
      /\ task'[t] = [task[t] EXCEPT !.next = @ + 1]
  BY <1>1, <1>7, Zenon
<1> QED
  BY <1>3, <1>5, <1>6, <1>7, <1>8, <1>9, Zenon DEF Asks

LEMMA SpawnStep ==
  ASSUME TypeOK, NEW th \in Threads, NEW t \in Tasks, NEW h \in Helpers, SpawnLane(th, t, h)
  PROVE  Spawns(th, t, h)
<1>1. /\ base \in [Threads -> [task : Tasks \cup {None}, facts : SUBSET Facts]]
      /\ task \in [Tasks -> Task] /\ h \in Threads
  BY Zenon DEF TypeOK, Threads
<1>2. /\ base' = [base EXCEPT ![h] =
             [task |-> t, facts |-> IF stack[th] = <<>> THEN base[th].facts
                                    ELSE Evaluating(th) \cup {task[t].fact}]]
      /\ task' = [task EXCEPT ![t].forked = TRUE]
  BY Zenon DEF SpawnLane
<1>3. /\ base'[h] = [task |-> t, facts |-> IF stack[th] = <<>> THEN base[th].facts
                                    ELSE Evaluating(th) \cup {task[t].fact}]
      /\ \A g \in Threads \ {h} : base'[g] = base[g]
  BY <1>1, <1>2, Zenon
<1>4. /\ \A u \in Tasks \ {t} : task'[u] = task[u]
      /\ task'[t] = [task[t] EXCEPT !.forked = TRUE]
  BY <1>1, <1>2, Zenon
<1>5. /\ base'[h].task = t
      /\ base'[h].facts = IF stack[th] = <<>> THEN base[th].facts
                          ELSE Evaluating(th) \cup {task[t].fact}
  BY <1>3
<1>6. /\ Dispatches(th, t) /\ task[t].phase = "Recording" /\ Parallel(t)
      /\ base[h] = NoLane /\ UNCHANGED <<stack, result, interests>>
  BY Zenon DEF SpawnLane
<1> QED
  BY <1>3, <1>4, <1>5, <1>6, Zenon DEF Spawns

LEMMA EndStep ==
  ASSUME TypeOK, NEW h \in Threads, LaneEnds(h)
  PROVE  Ends(h)
<1>1. base \in [Threads -> [task : Tasks \cup {None}, facts : SUBSET Facts]]
  BY Zenon DEF TypeOK
<1>2. base' = [base EXCEPT ![h] = NoLane]
  BY Zenon DEF LaneEnds
<1>3. base'[h] = NoLane /\ \A g \in Threads \ {h} : base'[g] = base[g]
  BY <1>1, <1>2, Zenon
<1> QED
  BY <1>3, Zenon DEF LaneEnds, Ends

\* Every step has one of these shapes.
ShapeOf(th) ==
  \/ Walks(th) \/ Claims(th, next_task) \/ Evaluates(th) \/ Ends(th)
  \/ \E outcome \in Outcomes : Leaves(th, outcome) \/ Finishes(th, outcome)
  \/ \E t \in Tasks : Asks(th, t)
  \/ \E t \in Tasks, h \in Helpers : Spawns(th, t, h)

LEMMA StepShape ==
  ASSUME Inv, TypeOK', [Next]_vars
  PROVE  \/ \E th \in Threads : ShapeOf(th)
         \/ UNCHANGED <<stack, base, task, result, interests>>
<1>1. TypeOK
  BY Zenon DEF Inv
<1>2. ASSUME NEW th \in Threads, ThreadStep(th)
      PROVE  ShapeOf(th)
  <2>1. CASE Request(th) \/ Check(th) \/ Look(th) \/ Admit(th) \/ WaitFor(th)
    BY <1>1, <2>1, RequestStep, Zenon DEF ShapeOf
  <2>2. CASE RegisterInterest(th) \/ Unwait(th) \/ DropInterest(th)
    BY <1>1, <2>2, WaitStep, Zenon DEF ShapeOf
  <2>3. CASE Claim(th)
    BY <2>3, ClaimStep, Zenon DEF ShapeOf
  <2>4. CASE \/ Begin(th) \/ Suspend(th) \/ Resume(th) \/ Compute(th) \/ Fail(th)
             \/ CheckShared(th) \/ Commit(th) \/ Publish(th) \/ Abandon(th)
    BY <1>1, <2>4, EvaluationStep, Zenon DEF ShapeOf
  <2>5. CASE Deliver(th) \/ Vacate(th)
    BY <1>1, <2>5, FinishStep, Zenon DEF ShapeOf
  <2>6. CASE LaneEnds(th)
    BY <1>1, <2>6, EndStep, Zenon DEF ShapeOf
  <2>7. CASE \E t \in Tasks : Call(th, t)
    BY <1>1, <2>7, AskStep, Zenon DEF ShapeOf
  <2> QED
    BY <1>2, <2>1, <2>2, <2>3, <2>4, <2>5, <2>6, <2>7, Zenon DEF ThreadStep
<1>3. ASSUME NEW th \in Threads, NEW t \in Tasks, NEW h \in Helpers, SpawnLane(th, t, h)
      PROVE  ShapeOf(th)
  BY <1>1, <1>3, SpawnStep, Zenon DEF ShapeOf
<1> QED
  BY <1>2, <1>3, Zenon DEF Next, Cancel, vars

-----------------------------------------------------------------------------
(***************************************************************************)
(* The structure of the stacks                                             *)
(***************************************************************************)

\* A level with another one above it runs a task that is recording.
CallersRun ==
  \A h \in Threads : \A k \in Levels(h) :
    k # Depth(h) => /\ Level(h, k).pc = "run"
                    /\ task[Level(h, k).task].phase = "Recording"

\* A task is evaluated at one level of one thread.
OneRunner ==
  \A h, g \in Threads : \A k \in Levels(h), j \in Levels(g) :
    (/\ Level(h, k).pc = "run" /\ Level(g, j).pc = "run"
     /\ Level(h, k).task = Level(g, j).task) => h = g /\ k = j

\* A helper runs requests only as a lane, of a parallel computation that has not
\* joined its lanes.
LanesOwn ==
  \A h \in Threads :
    /\ base[h].task # None =>
         /\ h \in Helpers
         /\ task[base[h].task].phase \in {"Recording", "Joining"}
         /\ task[base[h].task].forked /\ task[base[h].task].fact \in Par
    /\ base[h].task = None => /\ base[h] = NoLane
                              /\ h \in Helpers => stack[h] = <<>>

SInv == RInv /\ CallersRun /\ OneRunner /\ LanesOwn

LEMMA RunLevel ==
  ASSUME RInv, NEW h \in Threads, NEW k \in Levels(h), Level(h, k).pc = "run"
  PROVE  /\ Level(h, k).task \in Tasks
         /\ task[Level(h, k).task].fact = Level(h, k).fact
         /\ task[Level(h, k).task].phase # "Free"
<1>1. TypeOK /\ RunsOwn
  BY Zenon DEF RInv, Inv
<1>2. Level(h, k) \in Frame
  BY <1>1, LevelType, Zenon
<1>3. Level(h, k).task \in Tasks
  BY <1>2 DEF Frame, FreePcs
<1>4. Level(h, k) \in Frames(stack[h])
  <2>1. stack[h] \in Seq(Frame) /\ Len(stack[h]) \in Nat
    BY <1>1, DepthType, Zenon DEF Depth
  <2>2. Len(stack[h]) + 1 - k \in 1..Len(stack[h])
    BY <2>1 DEF Levels
  <2> QED
    BY <2>2, Zenon DEF Level, Frames
<1> QED
  BY <1>1, <1>3, <1>4, Zenon DEF RunsOwn, FrameOK

\* A level evaluated on behalf of a task: the task is recording or joining.
LEMMA CallerRecords ==
  ASSUME SInv, NEW h \in Threads, NEW k \in Levels(h), Caller(h, k) # None
  PROVE  /\ Caller(h, k) \in Tasks
         /\ task[Caller(h, k)].phase \in {"Recording", "Joining"}
<1>1. RInv /\ TypeOK
  BY Zenon DEF SInv, RInv, Inv
<1>2. CASE k = 1
  <2>1. Caller(h, k) = base[h].task
    BY <1>2, Zenon DEF Caller
  <2>2. base[h].task \in Tasks \cup {None}
    BY <1>1 DEF TypeOK
  <2> QED
    BY <2>1, <2>2, Zenon DEF SInv, LanesOwn
<1>3. CASE k # 1
  <2>1. k - 1 \in Levels(h) /\ k - 1 # Depth(h)
    BY <1>1, <1>3, LevelType, DepthType
  <2>2. Level(h, k - 1).pc = "run" /\ task[Level(h, k - 1).task].phase = "Recording"
    BY <2>1, Zenon DEF SInv, CallersRun
  <2>3. Caller(h, k) = Level(h, k - 1).task
    BY <1>3, Zenon DEF Caller
  <2> QED
    BY <1>1, <2>1, <2>2, <2>3, RunLevel, Zenon
<1> QED
  BY <1>2, <1>3

\* Levels and callers when the stacks do not change.
LEMMA SameLevels ==
  ASSUME UNCHANGED stack, NEW h
  PROVE  /\ Depth(h)' = Depth(h) /\ Levels(h)' = Levels(h)
         /\ \A k : Level(h, k)' = Level(h, k)
         /\ base'[h].task = base[h].task => \A k : Caller(h, k)' = Caller(h, k)
  BY Zenon DEF Depth, Levels, Level, Caller

\* Where th's own evaluation is.
LEMMA RunTop ==
  ASSUME RInv, NEW th \in Threads, stack[th] # <<>>, Top(th).pc = "run"
  PROVE  /\ Depth(th) \in Levels(th) /\ Level(th, Depth(th)) = Top(th)
         /\ Top(th).task \in Tasks
         /\ task[Top(th).task].fact = Top(th).fact
         /\ task[Top(th).task].phase # "Free"
<1>1. TypeOK
  BY Zenon DEF RInv, Inv
<1>2. Depth(th) \in Levels(th) /\ Level(th, Depth(th)) = Top(th)
  BY <1>1, TopLevel, Zenon
<1> QED
  BY <1>2, RunLevel, Zenon

LEMMA AtRun ==
  ASSUME NEW th, At(th, "run")
  PROVE  stack[th] # <<>> /\ Top(th).pc = "run"
  BY Zenon DEF At, Top

\* What leaving an item to a lane, and making a request, change in a task.
LEMMA SpawnKeeps ==
  ASSUME TypeOK, NEW th, NEW t, NEW h, Spawns(th, t, h)
  PROVE  /\ UNCHANGED stack
         /\ task'[t].forked
         /\ \A u \in Tasks :
              /\ task'[u].phase = task[u].phase /\ task'[u].fact = task[u].fact
              /\ task'[u].next = task[u].next /\ task'[u].tok = task[u].tok
              /\ task'[u].deps = task[u].deps /\ task'[u].errors = task[u].errors
              /\ task[u].forked => task'[u].forked
<1>1. /\ t \in Tasks /\ UNCHANGED stack
      /\ \A u \in Tasks \ {t} : task'[u] = task[u]
      /\ task'[t] = [task[t] EXCEPT !.forked = TRUE]
  BY Zenon DEF Spawns
<1>2. task[t] \in Task
  BY <1>1, Zenon DEF TypeOK
<1> QED
  BY <1>1, <1>2, Zenon DEF Task

LEMMA AskKeeps ==
  ASSUME TypeOK, NEW th, NEW t, Asks(th, t)
  PROVE  /\ task'[t].next = task[t].next + 1
         /\ \A u \in Tasks :
              /\ task'[u].phase = task[u].phase /\ task'[u].fact = task[u].fact
              /\ task'[u].deps = task[u].deps /\ task'[u].errors = task[u].errors
              /\ task'[u].tok = task[u].tok /\ task'[u].forked = task[u].forked
              /\ u = t \/ task'[u].next = task[u].next
<1>1. /\ t \in Tasks
      /\ \A u \in Tasks \ {t} : task'[u] = task[u]
      /\ task'[t] = [task[t] EXCEPT !.next = @ + 1]
  BY Zenon DEF Asks
<1>2. task[t] \in Task
  BY <1>1, Zenon DEF TypeOK
<1> QED
  BY <1>1, <1>2, Zenon DEF Task

LEMMA CallersRunStep ==
  ASSUME SInv, TypeOK', NEW th \in Threads, ShapeOf(th)
  PROVE  CallersRun'
<1>1. RInv /\ TypeOK /\ CallersRun
  BY Zenon DEF SInv, RInv, Inv
<1>2. ASSUME NEW h \in Threads, NEW k \in Levels(h), k # Depth(h)
      PROVE  /\ Level(h, k).pc = "run" /\ Level(h, k).task \in Tasks
             /\ task[Level(h, k).task].phase = "Recording"
  BY <1>1, <1>2, RunLevel, Zenon DEF CallersRun
<1> SUFFICES ASSUME NEW h \in Threads, NEW k \in Levels(h)', k # Depth(h)'
             PROVE  Level(h, k)'.pc = "run" /\ task'[Level(h, k)'.task].phase = "Recording"
  BY Zenon DEF CallersRun
<1>3. CASE Walks(th)
  <2>1. k \in Levels(h) /\ k # Depth(h) /\ UNCHANGED task /\ Level(h, k)' = Level(h, k)
    BY <1>3, Zenon DEF Walks, GoesOn
  <2> QED
    BY <1>2, <2>1, Zenon
<1>4. CASE Claims(th, next_task)
  <2>1. /\ k \in Levels(h) /\ k # Depth(h) /\ Level(h, k)' = Level(h, k)
        /\ task[next_task].phase = "Free"
        /\ \A u \in Tasks \ {next_task} : task'[u] = task[u]
    BY <1>4, Zenon DEF Claims, GoesOn
  <2>2. Level(h, k).task # next_task
    BY <1>2, <2>1
  <2> QED
    BY <1>2, <2>1, <2>2, Zenon
<1>5. ASSUME NEW outcome, Leaves(th, outcome)
      PROVE  Level(h, k)'.pc = "run" /\ task'[Level(h, k)'.task].phase = "Recording"
  <2>1. /\ k \in Levels(h) /\ k # Depth(h) /\ Level(h, k)' = Level(h, k)
        /\ \A u \in Tasks : task'[u].phase = task[u].phase
    BY <1>5, Zenon DEF Leaves, Returns
  <2> QED
    BY <1>2, <2>1, Zenon
<1>6. ASSUME NEW outcome, Finishes(th, outcome)
      PROVE  Level(h, k)'.pc = "run" /\ task'[Level(h, k)'.task].phase = "Recording"
  <2>1. /\ k \in Levels(h) /\ k # Depth(h) /\ Level(h, k)' = Level(h, k)
        /\ task[Top(th).task].phase \in {"Published", "Abandoned"}
        /\ \A u \in Tasks \ {Top(th).task} : task'[u].phase = task[u].phase
    BY <1>6, Zenon DEF Finishes, Returns
  <2>2. Level(h, k).task # Top(th).task
    BY <1>2, <2>1
  <2> QED
    BY <1>2, <2>1, <2>2, Zenon
<1>7. CASE Evaluates(th)
  <2>1. /\ UNCHANGED stack /\ At(th, "run")
        /\ \A u \in Tasks \ {Top(th).task} : task'[u] = task[u]
    BY <1>7, Zenon DEF Evaluates
  <2>2. k \in Levels(h) /\ k # Depth(h) /\ Level(h, k)' = Level(h, k)
    BY <2>1, SameLevels, Zenon
  <2>3. /\ Depth(th) \in Levels(th) /\ Level(th, Depth(th)) = Top(th)
        /\ Top(th).pc = "run"
    BY <1>1, <2>1, RunTop, AtRun, Zenon
  <2>4. ASSUME Level(h, k).task = Top(th).task
        PROVE  FALSE
    <3>1. Level(h, k).pc = "run" /\ OneRunner
      BY <1>2, <2>2, Zenon DEF SInv
    <3>2. h = th /\ k = Depth(th)
      BY <2>2, <2>3, <2>4, <3>1, Zenon DEF OneRunner
    <3> QED
      BY <2>2, <3>2, Zenon
  <2> QED
    BY <1>2, <2>1, <2>2, <2>4, Zenon
<1>8. CASE Ends(th)
  <2>1. UNCHANGED <<stack, task>>
    BY <1>8, Zenon DEF Ends
  <2>2. k \in Levels(h) /\ k # Depth(h) /\ Level(h, k)' = Level(h, k)
    BY <2>1, SameLevels, Zenon
  <2> QED
    BY <1>2, <2>1, <2>2, Zenon
<1>9. ASSUME NEW t \in Tasks, NEW g \in Helpers, Spawns(th, t, g)
      PROVE  Level(h, k)'.pc = "run" /\ task'[Level(h, k)'.task].phase = "Recording"
  <2>1. UNCHANGED stack /\ \A u \in Tasks : task'[u].phase = task[u].phase
    BY <1>1, <1>9, SpawnKeeps, Zenon
  <2>2. k \in Levels(h) /\ k # Depth(h) /\ Level(h, k)' = Level(h, k)
    BY <2>1, SameLevels, Zenon
  <2> QED
    BY <1>2, <2>1, <2>2, Zenon
<1>10. ASSUME NEW t \in Tasks, Asks(th, t)
       PROVE  Level(h, k)'.pc = "run" /\ task'[Level(h, k)'.task].phase = "Recording"
  <2>1. \A u \in Tasks : task'[u].phase = task[u].phase
    BY <1>1, <1>10, AskKeeps, Zenon
  <2>2. /\ k \in Levels(h) /\ Level(h, k)' = Level(h, k)
        /\ k = Depth(h) => h = th
    BY <1>10, Zenon DEF Asks, Calls
  <2>3. CASE k # Depth(h)
    BY <1>2, <2>1, <2>2, <2>3, Zenon
  <2>4. CASE k = Depth(h)
    <3>1. stack[th] # <<>>
      BY <1>1, <2>2, <2>4, LevelType, DepthType
    <3>2. Level(h, k) = Top(th) /\ Top(th).pc = "run" /\ Top(th).task = t
      BY <1>1, <1>10, <2>2, <2>4, <3>1, TopLevel, AtRun, Zenon DEF Asks, Dispatches
    <3> QED
      BY <1>10, <2>1, <2>2, <3>2, Zenon DEF Asks
  <2> QED
    BY <2>3, <2>4
<1> QED
  BY <1>3, <1>4, <1>5, <1>6, <1>7, <1>8, <1>9, <1>10, Zenon DEF ShapeOf

\* No evaluation starts in the step.
NoneStarts ==
  \A h \in Threads : \A k \in Levels(h)' :
    Level(h, k)'.pc = "run" => k \in Levels(h) /\ Level(h, k)' = Level(h, k)

LEMMA OnlyClaimsStart ==
  ASSUME TypeOK, NEW th \in Threads, ShapeOf(th)
  PROVE  NoneStarts \/ Claims(th, next_task)
<1>1. CASE UNCHANGED stack
  <2>1. ASSUME NEW h \in Threads, NEW k \in Levels(h)'
        PROVE  k \in Levels(h) /\ Level(h, k)' = Level(h, k)
    BY <1>1, SameLevels, Zenon
  <2> QED
    BY <2>1, Zenon DEF NoneStarts
<1>2. CASE Walks(th)
  BY <1>2, Zenon DEF Walks, GoesOn, NoneStarts
<1>3. CASE Returns(th)
  BY <1>3, Zenon DEF Returns, NoneStarts
<1>4. ASSUME NEW t \in Tasks, Asks(th, t)
      PROVE  NoneStarts
  <2>1. PICK fr \in Frame : Calls(th, fr, t) /\ fr.pc = "request"
    BY <1>4, Zenon DEF Asks
  <2>2. ASSUME NEW h \in Threads, NEW k \in Levels(h)', Level(h, k)'.pc = "run"
        PROVE  k \in Levels(h)
    <3>1. CASE h = th /\ k = Depth(th)'
      <4>1. Level(h, k)' = fr
        BY <2>1, <3>1, Zenon DEF Calls
      <4> QED
        BY <2>1, <2>2, <4>1
    <3> QED
      BY <2>1, <3>1, Zenon DEF Calls
  <2> QED
    BY <2>1, <2>2, Zenon DEF Calls, NoneStarts
<1> QED
  BY <1>1, <1>2, <1>3, <1>4, Zenon
     DEF ShapeOf, Evaluates, Ends, Spawns, Leaves, Finishes

LEMMA OneRunnerStep ==
  ASSUME SInv, NEW th \in Threads, ShapeOf(th)
  PROVE  OneRunner'
<1>1. RInv /\ TypeOK /\ OneRunner
  BY Zenon DEF SInv, RInv, Inv
<1> SUFFICES ASSUME NEW h \in Threads, NEW g \in Threads,
                    NEW k \in Levels(h)', NEW j \in Levels(g)',
                    Level(h, k)'.pc = "run", Level(g, j)'.pc = "run",
                    Level(h, k)'.task = Level(g, j)'.task
             PROVE  h = g /\ k = j
  BY Zenon DEF OneRunner
<1>2. CASE NoneStarts
  <2>1. /\ k \in Levels(h) /\ Level(h, k)' = Level(h, k)
        /\ j \in Levels(g) /\ Level(g, j)' = Level(g, j)
    BY <1>2, Zenon DEF NoneStarts
  <2> QED
    BY <1>1, <2>1, Zenon DEF OneRunner
<1>3. CASE Claims(th, next_task)
  <2>1. PICK fr \in Frame : GoesOn(th, fr) /\ fr.task = next_task
    BY <1>3, Zenon DEF Claims
  <2>2. task[next_task].phase = "Free"
    BY <1>3, Zenon DEF Claims
  <2> DEFINE New(x, i) == x = th /\ i = Depth(th)
  <2>3. ASSUME NEW x \in Threads, NEW i \in Levels(x)', Level(x, i)'.pc = "run", ~New(x, i)
        PROVE  i \in Levels(x) /\ Level(x, i)' = Level(x, i) /\ Level(x, i).task # next_task
    <3>1. i \in Levels(x) /\ Level(x, i)' = Level(x, i)
      BY <2>1, <2>3, Zenon DEF GoesOn
    <3>2. task[Level(x, i).task].phase # "Free"
      BY <1>1, <2>3, <3>1, RunLevel, Zenon
    <3> QED
      BY <2>2, <3>1, <3>2, Zenon
  <2>4. Level(th, Depth(th))' = fr /\ Depth(th)' = Depth(th)
    BY <2>1, Zenon DEF GoesOn
  <2>5. ASSUME NEW x, NEW i, New(x, i)
        PROVE  Level(x, i)'.task = next_task
    BY <2>1, <2>4, <2>5, Zenon
  <2>6. CASE New(h, k) \/ New(g, j)
    BY <2>3, <2>5, <2>6, Zenon
  <2>7. CASE ~New(h, k) /\ ~New(g, j)
    <3>1. /\ k \in Levels(h) /\ Level(h, k)' = Level(h, k)
          /\ j \in Levels(g) /\ Level(g, j)' = Level(g, j)
      BY <2>3, <2>7, Zenon
    <3> QED
      BY <1>1, <3>1, Zenon DEF OneRunner
  <2> QED
    BY <2>6, <2>7
<1> QED
  BY <1>1, <1>2, <1>3, OnlyClaimsStart, Zenon

\* A task in one of these phases has no lanes.
LEMMA NoLanes ==
  ASSUME LanesOwn, NEW h \in Threads, NEW t, base[h].task = t, t # None
  PROVE  /\ task[t].phase \in {"Recording", "Joining"} /\ h \in Helpers
         /\ task[t].forked /\ Parallel(t)
  BY Zenon DEF LanesOwn, Parallel

LEMMA LanesOwnStep ==
  ASSUME SInv, TypeOK', NEW th \in Threads, ShapeOf(th)
  PROVE  LanesOwn'
<1>1. RInv /\ TypeOK /\ LanesOwn
  BY Zenon DEF SInv, RInv, Inv
<1>2. ASSUME NEW h \in Threads
      PROVE  base[h].task \in Tasks \cup {None}
  BY <1>1 DEF TypeOK
<1>3. ASSUME UNCHANGED base,
             \A h \in Threads : stack'[h] = <<>> \/ stack[h] # <<>> \/ base[h].task # None,
             \A u \in Tasks : (\E h \in Threads : base[h].task = u) =>
                                /\ task'[u].phase \in {"Recording", "Joining"}
                                /\ task'[u].forked /\ task'[u].fact = task[u].fact
      PROVE  LanesOwn'
  <2>1. ASSUME NEW h \in Threads, base[h].task # None
        PROVE  /\ h \in Helpers
               /\ task'[base[h].task].phase \in {"Recording", "Joining"}
               /\ task'[base[h].task].forked /\ task'[base[h].task].fact \in Par
    <3>1. base[h].task \in Tasks /\ h \in Helpers /\ task[base[h].task].fact \in Par
      BY <1>1, <1>2, <2>1, Zenon DEF LanesOwn
    <3> QED
      BY <1>3, <3>1, Zenon
  <2>2. ASSUME NEW h \in Threads, base[h].task = None
        PROVE  base[h] = NoLane /\ (h \in Helpers => stack'[h] = <<>>)
    BY <1>1, <1>3, <2>2, Zenon DEF LanesOwn
  <2> QED
    BY <1>3, <2>1, <2>2, Zenon DEF LanesOwn
<1>4. \A h \in Threads : Depth(h) \in Nat /\ (stack[h] = <<>> <=> Depth(h) = 0)
  BY <1>1, DepthType, Zenon
<1>5. \A h \in Threads : Depth(h)' \in Nat /\ (stack'[h] = <<>> <=> Depth(h)' = 0)
                         /\ Levels(h)' = 1..(Depth(h)')
  <2>1. ASSUME NEW h \in Threads
        PROVE  stack'[h] \in Seq(Frame)
    BY Zenon DEF TypeOK
  <2>2. ASSUME NEW h \in Threads
        PROVE  Len(stack'[h]) \in Nat /\ (stack'[h] = <<>> <=> Len(stack'[h]) = 0)
    BY <2>1, EmptyStack, StackLength
  <2> QED
    BY <2>2, Zenon DEF Depth, Levels
<1>6. ASSUME \A h \in Threads : \A k \in Levels(h)' : k \in Levels(h)
      PROVE  \A h \in Threads : stack'[h] = <<>> \/ stack[h] # <<>> \/ base[h].task # None
  <2> SUFFICES ASSUME NEW h \in Threads, stack'[h] # <<>>
               PROVE  stack[h] # <<>>
    OBVIOUS
  <2>1. 1 \in Levels(h)'
    BY <1>5
  <2>2. 1 \in 1..Depth(h) /\ Depth(h) \in Nat
    BY <1>1, <1>6, <2>1, DepthType, Zenon
  <2> QED
    BY <1>4, <2>2
<1>7. ASSUME NEW u \in Tasks, \E h \in Threads : base[h].task = u
      PROVE  /\ task[u].phase \in {"Recording", "Joining"}
             /\ task[u].forked /\ Parallel(u) /\ \E h \in Helpers : base[h].task = u
  BY <1>1, <1>7, NoTask, NoLanes, Zenon
<1>8. CASE Walks(th)
  <2>1. UNCHANGED <<task, base>> /\ \A h \in Threads : \A k \in Levels(h)' : k \in Levels(h)
    BY <1>8, Zenon DEF Walks, GoesOn
  <2> QED
    BY <1>3, <1>6, <1>7, <2>1, Zenon
<1>9. CASE Claims(th, next_task)
  <2>1. /\ UNCHANGED base /\ \A h \in Threads : \A k \in Levels(h)' : k \in Levels(h)
        /\ task[next_task].phase = "Free"
        /\ \A u \in Tasks \ {next_task} : task'[u] = task[u]
    BY <1>9, Zenon DEF Claims, GoesOn
  <2>2. ASSUME NEW u \in Tasks, \E h \in Threads : base[h].task = u
        PROVE  task'[u] = task[u]
    <3>1. u # next_task
      BY <1>7, <2>1, <2>2
    <3> QED
      BY <2>1, <3>1, Zenon
  <2> QED
    BY <1>3, <1>6, <1>7, <2>1, <2>2, Zenon
<1>10. ASSUME NEW outcome, Leaves(th, outcome)
       PROVE  LanesOwn'
  <2>1. /\ UNCHANGED base /\ \A h \in Threads : \A k \in Levels(h)' : k \in Levels(h)
        /\ \A u \in Tasks : /\ task'[u].phase = task[u].phase
                            /\ task'[u].forked = task[u].forked
                            /\ task'[u].fact = task[u].fact
    BY <1>10, Zenon DEF Leaves, Returns, Hears, HeardBy
  <2> QED
    BY <1>3, <1>6, <1>7, <2>1, Zenon
<1>11. ASSUME NEW outcome, Finishes(th, outcome)
       PROVE  LanesOwn'
  <2>1. /\ UNCHANGED base /\ \A h \in Threads : \A k \in Levels(h)' : k \in Levels(h)
        /\ task[Top(th).task].phase \in {"Published", "Abandoned"}
        /\ \A u \in Tasks \ {Top(th).task} : task'[u].phase = task[u].phase
        /\ \A u \in Tasks : /\ task'[u].forked = task[u].forked
                            /\ task'[u].fact = task[u].fact
    BY <1>11, Zenon DEF Finishes, Returns, Hears, HeardBy
  <2>2. ASSUME NEW u \in Tasks, \E h \in Threads : base[h].task = u
        PROVE  u # Top(th).task
    BY <1>7, <2>1, <2>2
  <2> QED
    BY <1>3, <1>6, <1>7, <2>1, <2>2, Zenon
<1>12. CASE Evaluates(th)
  <2> DEFINE t == Top(th).task
  <2>1. /\ UNCHANGED <<base, stack>> /\ t \in Tasks
        /\ \A u \in Tasks \ {t} : task'[u] = task[u]
        /\ task'[t].fact = task[t].fact /\ Course(t)
    BY <1>1, <1>12, RunTop, AtRun, Zenon DEF Evaluates
  <2> HIDE DEF t
  <2>2. ASSUME \E h \in Threads : base[h].task = t
        PROVE  task'[t].phase \in {"Recording", "Joining"} /\ task'[t].forked
    <3>1. /\ task[t].phase \in {"Recording", "Joining"}
          /\ task[t].forked /\ Parallel(t) /\ \E h \in Helpers : base[h].task = t
      BY <1>7, <2>1, <2>2, Zenon
    <3>2. CASE task[t].phase = "Recording"
      BY <2>1, <3>1, <3>2, Zenon DEF Course
    <3>3. CASE task[t].phase = "Joining"
      BY <2>1, <3>1, <3>3, Zenon DEF Course
    <3> QED
      BY <3>1, <3>2, <3>3
  <2> QED
    BY <1>3, <1>7, <2>1, <2>2, Zenon
<1>13. ASSUME NEW t \in Tasks, Asks(th, t)
       PROVE  LanesOwn'
  <2>1. UNCHANGED base /\ Dispatches(th, t) /\ \E fr : Calls(th, fr, t)
    BY <1>13, Zenon DEF Asks
  <2>2. ASSUME NEW h \in Threads
        PROVE  stack'[h] = <<>> \/ stack[h] # <<>> \/ base[h].task # None
    <3>1. CASE h = th
      BY <2>1, <3>1, NoTask, Zenon DEF Dispatches
    <3>2. CASE h # th
      <4> SUFFICES ASSUME stack'[h] # <<>>
                   PROVE  stack[h] # <<>>
        OBVIOUS
      <4>1. 1 \in Levels(h)'
        BY <1>5
      <4>2. 1 \in Levels(h)
        BY <2>1, <3>2, <4>1, Zenon DEF Calls
      <4>3. 1 \in 1..Depth(h)
        BY <1>1, <4>2, DepthType, Zenon
      <4> QED
        BY <1>4, <4>3
    <3> QED
      BY <3>1, <3>2
  <2>3. \A u \in Tasks : /\ task'[u].phase = task[u].phase
                         /\ task'[u].forked = task[u].forked
                         /\ task'[u].fact = task[u].fact
    BY <1>1, <1>13, AskKeeps, Zenon
  <2> QED
    BY <1>3, <1>7, <2>1, <2>2, <2>3, Zenon
<1>14. CASE Ends(th)
  <2>1. /\ stack[th] = <<>> /\ UNCHANGED <<stack, task>>
        /\ base'[th] = NoLane /\ \A g \in Threads \ {th} : base'[g] = base[g]
    BY <1>14, Zenon DEF Ends
  <2>2. NoLane.task = None
    BY Zenon DEF NoLane
  <2> QED
    BY <1>1, <2>1, <2>2, Zenon DEF LanesOwn
<1>15. ASSUME NEW t \in Tasks, NEW g \in Helpers, Spawns(th, t, g)
       PROVE  LanesOwn'
  <2>1. /\ base'[g].task = t /\ \A h \in Threads \ {g} : base'[h] = base[h]
        /\ task[t].phase = "Recording" /\ task[t].fact \in Par /\ UNCHANGED stack
    BY <1>15, Zenon DEF Spawns, Parallel
  <2>2. /\ task'[t].forked
        /\ \A u \in Tasks : /\ task'[u].phase = task[u].phase /\ task'[u].fact = task[u].fact
                            /\ task[u].forked => task'[u].forked
    BY <1>1, <1>15, SpawnKeeps, Zenon
  <2>3. ASSUME NEW h \in Threads, h # g
        PROVE  /\ base'[h].task # None =>
                    /\ h \in Helpers
                    /\ task'[base'[h].task].phase \in {"Recording", "Joining"}
                    /\ task'[base'[h].task].forked /\ task'[base'[h].task].fact \in Par
               /\ base'[h].task = None => /\ base'[h] = NoLane
                                          /\ h \in Helpers => stack'[h] = <<>>
    <3>1. base'[h] = base[h] /\ base[h].task \in Tasks \cup {None}
      BY <1>2, <2>1, <2>3, Zenon
    <3> QED
      BY <1>1, <2>1, <2>2, <3>1, Zenon DEF LanesOwn
  <2>4. /\ task'[t].phase \in {"Recording", "Joining"}
        /\ task'[t].forked /\ task'[t].fact \in Par /\ t # None
    BY <2>1, <2>2, NoTask
  <2> QED
    BY <2>1, <2>3, <2>4, Zenon DEF LanesOwn
<1> QED
  BY <1>8, <1>9, <1>10, <1>11, <1>12, <1>13, <1>14, <1>15, Zenon DEF ShapeOf

\* The levels after a step: each was there, with the same request, or is the one
\* that the step adds; each that was there still is, or is the one that returns.
Stays(h, k) ==
  /\ k \in Levels(h) /\ k \in Levels(h)'
  /\ Caller(h, k)' = Caller(h, k)
  /\ Level(h, k)'.fact = Level(h, k).fact /\ Level(h, k)'.tok = Level(h, k).tok

LEMMA LevelsStay ==
  ASSUME SInv, NEW th \in Threads, ShapeOf(th)
  PROVE  /\ \A h \in Threads : \A k \in Levels(h)' :
              \/ Stays(h, k)
              \/ h = th /\ k = Depth(th)' /\ \E t \in Tasks : Asks(th, t)
         /\ \A h \in Threads : \A k \in Levels(h) :
              \/ Stays(h, k)
              \/ /\ h = th /\ k = Depth(th)
                 /\ \E outcome \in Outcomes : Leaves(th, outcome) \/ Finishes(th, outcome)
<1> DEFINE All == \A h \in Threads : /\ Levels(h)' = Levels(h)
                                     /\ \A k \in Levels(h) : Stays(h, k)
<1>1. TypeOK /\ LanesOwn
  BY Zenon DEF SInv, RInv, Inv
<1>2. ASSUME NEW fr, GoesOn(th, fr), fr.fact = Top(th).fact, fr.tok = Top(th).tok,
             stack[th] # <<>>
      PROVE  All
  <2>1. Depth(th) \in Levels(th) /\ Level(th, Depth(th)) = Top(th)
    BY <1>1, <1>2, TopLevel, Zenon
  <2>2. Level(th, Depth(th))' = fr /\ Depth(th)' = Depth(th)
    BY <1>2, Zenon DEF GoesOn
  <2>3. ASSUME NEW h \in Threads, NEW k \in Levels(h)
        PROVE  /\ Level(h, k)'.fact = Level(h, k).fact
               /\ Level(h, k)'.tok = Level(h, k).tok
    <3>1. CASE h = th /\ k = Depth(th)
      BY <1>2, <2>1, <2>2, <3>1, Zenon
    <3>2. CASE ~(h = th /\ k = Depth(th))
      BY <1>2, <3>2, Zenon DEF GoesOn
    <3> QED
      BY <3>1, <3>2
  <2> QED
    BY <1>2, <2>3, Zenon DEF GoesOn, Stays
<1>3. CASE Walks(th) \/ Claims(th, next_task)
  <2>1. PICK fr : GoesOn(th, fr) /\ fr.fact = Top(th).fact /\ fr.tok = Top(th).tok
    BY <1>3, Zenon DEF Walks, Claims
  <2>2. All
    BY <1>2, <1>3, <2>1, Zenon DEF Walks, Claims
  <2> QED
    BY <2>2, Zenon
<1>4. ASSUME UNCHANGED stack,
             \A h \in Threads : base'[h].task = base[h].task \/ stack[h] = <<>>
      PROVE  All
  <2>1. ASSUME NEW h \in Threads, NEW k \in Levels(h)
        PROVE  Stays(h, k)
    <3>1. Depth(h) # 0 /\ (stack[h] = <<>> => Depth(h) = 0)
      BY <1>1, DepthType
    <3>2. base'[h].task = base[h].task
      BY <1>4, <3>1, Zenon
    <3> QED
      BY <1>4, <3>2, SameLevels, Zenon DEF Stays
  <2>2. \A h \in Threads : Levels(h)' = Levels(h)
    BY <1>4, Zenon DEF Levels
  <2> QED
    BY <2>1, <2>2, Zenon
<1>5. CASE Evaluates(th)
  <2>1. All
    BY <1>4, <1>5, Zenon DEF Evaluates
  <2> QED
    BY <2>1, Zenon
<1>6. CASE Ends(th)
  <2>1. All
    BY <1>4, <1>6, Zenon DEF Ends
  <2> QED
    BY <2>1, Zenon
<1>7. ASSUME NEW t \in Tasks, NEW g \in Helpers, Spawns(th, t, g)
      PROVE  All
  <2>1. base[g] = NoLane /\ UNCHANGED stack /\ \A h \in Threads \ {g} : base'[h] = base[h]
    BY <1>7, Zenon DEF Spawns
  <2>2. NoLane.task = None /\ g \in Threads
    BY Zenon DEF NoLane, Threads
  <2>3. stack[g] = <<>>
    BY <1>1, <2>1, <2>2, Zenon DEF LanesOwn
  <2> QED
    BY <1>4, <2>1, <2>3, Zenon
<1>8. ASSUME NEW outcome \in Outcomes, Leaves(th, outcome) \/ Finishes(th, outcome)
      PROVE  /\ \A h \in Threads : \A k \in Levels(h)' : Stays(h, k)
             /\ \A h \in Threads : \A k \in Levels(h) :
                  Stays(h, k) \/ (h = th /\ k = Depth(th))
  <2>1. Returns(th)
    BY <1>8, Zenon DEF Leaves, Finishes
  <2> QED
    BY <2>1, Zenon DEF Returns, Stays
<1>9. ASSUME NEW t \in Tasks, Asks(th, t)
      PROVE  /\ \A h \in Threads : \A k \in Levels(h)' :
                  Stays(h, k) \/ (h = th /\ k = Depth(th)')
             /\ \A h \in Threads : \A k \in Levels(h) : Stays(h, k)
  <2>1. PICK fr : Calls(th, fr, t)
    BY <1>9, Zenon DEF Asks
  <2> QED
    BY <2>1, Zenon DEF Calls, Stays
<1> HIDE DEF All
<1>10. All => /\ \A h \in Threads : \A k \in Levels(h)' : Stays(h, k)
              /\ \A h \in Threads : \A k \in Levels(h) : Stays(h, k)
  BY Zenon DEF All
<1> QED
  BY <1>3, <1>5, <1>6, <1>7, <1>8, <1>9, <1>10, Zenon DEF ShapeOf

\* The fact and the token of a task in use never change, and it stays in use.
LEMMA FactsStay ==
  ASSUME SInv, NEW th \in Threads, ShapeOf(th), NEW u \in Tasks, task[u].phase # "Free"
  PROVE  /\ task'[u].fact = task[u].fact /\ task'[u].tok = task[u].tok
         /\ task'[u].phase # "Free"
<1>1. RInv /\ TypeOK
  BY Zenon DEF SInv, RInv, Inv
<1>2. CASE Walks(th) \/ Ends(th)
  BY <1>2, Zenon DEF Walks, Ends
<1>3. CASE Claims(th, next_task)
  BY <1>3, Zenon DEF Claims
<1>4. ASSUME NEW outcome, Leaves(th, outcome)
      PROVE  /\ task'[u].fact = task[u].fact /\ task'[u].tok = task[u].tok
             /\ task'[u].phase # "Free"
  BY <1>4, Zenon DEF Leaves, Hears, HeardBy
<1>5. ASSUME NEW outcome, Finishes(th, outcome)
      PROVE  /\ task'[u].fact = task[u].fact /\ task'[u].tok = task[u].tok
             /\ task'[u].phase # "Free"
  <2>1. CASE u = Top(th).task
    BY <1>5, <2>1, Zenon DEF Finishes, Hears, HeardBy
  <2>2. CASE u # Top(th).task
    BY <1>5, <2>2, Zenon DEF Finishes, Hears, HeardBy
  <2> QED
    BY <2>1, <2>2
<1>6. CASE Evaluates(th)
  <2>1. CASE u = Top(th).task
    BY <1>6, <2>1, Zenon DEF Evaluates, Course
  <2>2. CASE u # Top(th).task
    BY <1>6, <2>2, Zenon DEF Evaluates
  <2> QED
    BY <2>1, <2>2
<1>7. ASSUME NEW t, Asks(th, t)
      PROVE  /\ task'[u].fact = task[u].fact /\ task'[u].tok = task[u].tok
             /\ task'[u].phase # "Free"
  BY <1>1, <1>7, AskKeeps, Zenon
<1>8. ASSUME NEW t, NEW g, Spawns(th, t, g)
      PROVE  /\ task'[u].fact = task[u].fact /\ task'[u].tok = task[u].tok
             /\ task'[u].phase # "Free"
  BY <1>1, <1>8, SpawnKeeps, Zenon
<1> QED
  BY <1>2, <1>3, <1>4, <1>5, <1>6, <1>7, <1>8, Zenon DEF ShapeOf

-----------------------------------------------------------------------------
(***************************************************************************)
(* What computations ask for and what they record                          *)
(***************************************************************************)

\* A request made on behalf of a task is for a fact its computation asks for.
AskedFor ==
  \A h \in Threads : \A k \in Levels(h) :
    Caller(h, k) # None => Level(h, k).fact \in Wants(task[Caller(h, k)].fact)

LEMMA AskedForStep ==
  ASSUME SInv, AskedFor, NEW th \in Threads, ShapeOf(th)
  PROVE  AskedFor'
<1> SUFFICES ASSUME NEW h \in Threads, NEW k \in Levels(h)', Caller(h, k)' # None
             PROVE  Level(h, k)'.fact \in Wants(task'[Caller(h, k)'].fact)
  BY Zenon DEF AskedFor, Wants
<1>1. CASE Stays(h, k)
  <2>1. k \in Levels(h) /\ Caller(h, k) # None
    BY <1>1, Zenon DEF Stays
  <2>2. Caller(h, k) \in Tasks /\ task[Caller(h, k)].phase # "Free"
    BY <2>1, CallerRecords
  <2>3. task'[Caller(h, k)].fact = task[Caller(h, k)].fact
    BY <2>2, FactsStay, Zenon
  <2> QED
    BY <1>1, <2>1, <2>3, Zenon DEF Stays, AskedFor
<1>2. ASSUME NEW t \in Tasks, Asks(th, t), h = th, k = Depth(th)'
      PROVE  Level(h, k)'.fact \in Wants(task'[Caller(h, k)'].fact)
  <2>1. PICK fr : Calls(th, fr, t) /\ fr.fact = Requests[task[t].fact][task[t].next]
    BY <1>2, Zenon DEF Asks
  <2>2. Level(h, k)' = fr /\ Caller(h, k)' = t
    BY <1>2, <2>1, Zenon DEF Calls
  <2>3. task'[t].fact = task[t].fact
    BY <1>2, AskKeeps, Zenon DEF SInv, RInv, Inv
  <2>4. fr.fact \in Wants(task[t].fact)
    BY <1>2, <2>1, Zenon DEF Asks, Wants
  <2> QED
    BY <2>2, <2>3, <2>4, Zenon
<1> QED
  BY <1>1, <1>2, LevelsStay, Zenon

\* Request i of t's computation is under way.
UnderWay(t, i) ==
  \E h \in Threads : \E k \in Levels(h) :
    Caller(h, k) = t /\ Level(h, k).fact = Requests[task[t].fact][i]

\* What a computation has recorded: facts that it asked for; each one that it
\* asked for, until an error ends it and but for the requests under way; all of
\* them once it is through.
RecordsHeard ==
  \A t \in Tasks :
    /\ task[t].deps \subseteq Wants(task[t].fact)
    /\ (/\ task[t].phase \in {"Claimed", "Recording", "Joining"}
        /\ task[t].fact \notin Absorbs /\ task[t].errors = {}) =>
         \A i \in 1..Len(Requests[task[t].fact]) :
           \/ i >= task[t].next
           \/ Requests[task[t].fact][i] \in task[t].deps
           \/ UnderWay(t, i)
    /\ (task[t].phase \in {"Computed", "Prepare"} /\ task[t].fact \notin Absorbs) =>
         task[t].deps = Wants(task[t].fact)

\* A request under way in an earlier state still is, or the step ends it.
LEMMA StaysUnderWay ==
  ASSUME SInv, NEW th \in Threads, ShapeOf(th), NEW t \in Tasks, NEW i,
         task'[t].fact = task[t].fact, UnderWay(t, i)
  PROVE  \/ UnderWay(t, i)'
         \/ /\ t = Context(th) /\ Top(th).fact = Requests[task[t].fact][i]
            /\ \E outcome \in Outcomes : Leaves(th, outcome) \/ Finishes(th, outcome)
<1>0. PICK h \in Threads : \E k \in Levels(h) :
         Caller(h, k) = t /\ Level(h, k).fact = Requests[task[t].fact][i]
  BY Zenon DEF UnderWay
<1>1. PICK k \in Levels(h) :
         Caller(h, k) = t /\ Level(h, k).fact = Requests[task[t].fact][i]
  BY <1>0
<1>2. CASE Stays(h, k)
  <2>1. /\ k \in Levels(h)' /\ Caller(h, k)' = t
        /\ Level(h, k)'.fact = Requests[task'[t].fact][i]
    BY <1>1, <1>2, Zenon DEF Stays
  <2> QED
    BY <2>1, Zenon DEF UnderWay
<1>3. ASSUME h = th, k = Depth(th), NEW outcome \in Outcomes,
             Leaves(th, outcome) \/ Finishes(th, outcome)
      PROVE  t = Context(th) /\ Top(th).fact = Requests[task[t].fact][i]
  <2>1. stack[th] # <<>>
    BY <1>3, Zenon DEF Leaves, Finishes
  <2>2. TypeOK
    BY Zenon DEF SInv, RInv, Inv
  <2>3. Level(th, Depth(th)) = Top(th) /\ Context(th) = Caller(th, Depth(th))
    BY <2>1, <2>2, TopLevel, Zenon
  <2> QED
    BY <1>1, <1>3, <2>3, Zenon
<1> QED
  BY <1>2, <1>3, LevelsStay, Zenon

\* A computation about to return a value has no request under way.
LEMMA NoneUnderWay ==
  ASSUME SInv, NEW th \in Threads, At(th, "run"), ~task[Top(th).task].forked, NEW i
  PROVE  ~UnderWay(Top(th).task, i)
<1> DEFINE t == Top(th).task
<1> SUFFICES ASSUME NEW h \in Threads, NEW k \in Levels(h), Caller(h, k) = t
             PROVE  FALSE
  BY Zenon DEF UnderWay
<1>1. RInv /\ TypeOK /\ LanesOwn /\ OneRunner /\ CallersRun
  BY Zenon DEF SInv, RInv, Inv
<1>2. /\ Depth(th) \in Levels(th) /\ Level(th, Depth(th)) = Top(th)
      /\ t \in Tasks /\ Top(th).pc = "run"
  BY <1>1, AtRun, RunTop, Zenon
<1>3. t # None
  BY <1>2, NoTask
<1>4. CASE k = 1
  <2>1. base[h].task = t
    BY <1>4, Zenon DEF Caller
  <2> QED
    BY <1>1, <1>3, <2>1, Zenon DEF LanesOwn
<1>5. CASE k # 1
  <2>1. Caller(h, k) = Level(h, k - 1).task
    BY <1>5, Zenon DEF Caller
  <2>2. k - 1 \in Levels(h) /\ k - 1 # Depth(h)
    <3>1. Depth(h) \in Nat /\ Levels(h) = 1..Depth(h)
      BY <1>1, DepthType
    <3> QED
      BY <1>5, <3>1
  <2>3. Level(h, k - 1).pc = "run"
    BY <1>1, <2>2, Zenon DEF CallersRun
  <2>4. h = th /\ k - 1 = Depth(th)
    BY <1>1, <1>2, <2>1, <2>2, <2>3, Zenon DEF OneRunner
  <2> QED
    BY <2>2, <2>4, Zenon
<1> QED
  BY <1>4, <1>5

LEMMA ClaimedNew ==
  ASSUME NEW th, NEW t, Claims(th, t)
  PROVE  /\ task'[t].fact = Top(th).fact /\ task'[t].phase = "Claimed"
         /\ task'[t].next = 1 /\ task'[t].deps = {} /\ task'[t].errors = {}
         /\ ~task'[t].forked
<1>1. PICK tok : task'[t] = NewTask(Top(th).fact, tok)
  BY Zenon DEF Claims
<1> QED
  BY <1>1 DEF NewTask

\* How a step changes what a task in use has recorded.
RecordsKept(t) ==
  /\ task'[t].deps = task[t].deps /\ task'[t].next = task[t].next
  /\ task'[t].errors = task[t].errors /\ task'[t].phase = task[t].phase

LEMMA RecordsStep ==
  ASSUME SInv, NEW th \in Threads, ShapeOf(th), NEW t \in Tasks
  PROVE  /\ \/ RecordsKept(t) /\ task'[t].fact = task[t].fact
            \/ Claims(th, t)
            \/ Evaluates(th) /\ t = Top(th).task
            \/ Asks(th, t)
            \/ \E outcome \in Outcomes : Leaves(th, outcome) \/ Finishes(th, outcome)
         /\ \A outcome \in Outcomes :
              (Leaves(th, outcome) \/ Finishes(th, outcome)) =>
                /\ task'[t].fact = task[t].fact
                /\ \/ RecordsKept(t) /\ t # Context(th)
                   \/ /\ t # Context(th)
                      /\ task'[t].phase = "Done" /\ task'[t].deps = task[t].deps
                   \/ t = Context(th) /\ task'[t].phase \in {"Done", task[t].phase}
<1>1. RInv /\ TypeOK
  BY Zenon DEF SInv, RInv, Inv
<1>2. ASSUME Walks(th) \/ Ends(th)
      PROVE  RecordsKept(t) /\ task'[t].fact = task[t].fact
  BY <1>2, Zenon DEF Walks, Ends, RecordsKept
<1>3. ASSUME Claims(th, next_task)
      PROVE  (RecordsKept(t) /\ task'[t].fact = task[t].fact) \/ Claims(th, t)
  BY <1>3, Zenon DEF Claims, RecordsKept
<1>4. ASSUME NEW outcome \in Outcomes, Leaves(th, outcome)
      PROVE  /\ task'[t].fact = task[t].fact
             /\ \/ RecordsKept(t) /\ t # Context(th)
                \/ t = Context(th) /\ task'[t].phase = task[t].phase
  BY <1>4, Zenon DEF Leaves, Hears, HeardBy, RecordsKept
<1>5. ASSUME NEW outcome \in Outcomes, Finishes(th, outcome)
      PROVE  /\ task'[t].fact = task[t].fact
             /\ \/ RecordsKept(t) /\ t # Context(th)
                \/ t # Context(th) /\ task'[t].phase = "Done" /\ task'[t].deps = task[t].deps
                \/ t = Context(th) /\ task'[t].phase \in {"Done", task[t].phase}
  <2>1. task'[t].phase = "Done" \/ task'[t].phase = task[t].phase
    BY <1>5, Zenon DEF Finishes
  <2>2. /\ task'[t].fact = task[t].fact /\ task'[t].next = task[t].next
        /\ t # Context(th) => /\ task'[t].deps = task[t].deps
                              /\ task'[t].errors = task[t].errors
    BY <1>5, Zenon DEF Finishes, Hears, HeardBy
  <2> QED
    BY <2>1, <2>2, Zenon DEF RecordsKept
<1>6. ASSUME Evaluates(th)
      PROVE  (RecordsKept(t) /\ task'[t].fact = task[t].fact) \/ t = Top(th).task
  BY <1>6, Zenon DEF Evaluates, RecordsKept
<1>7. ASSUME NEW u \in Tasks, Asks(th, u)
      PROVE  (RecordsKept(t) /\ task'[t].fact = task[t].fact) \/ Asks(th, t)
  BY <1>1, <1>7, AskKeeps, Zenon DEF RecordsKept
<1>8. ASSUME NEW u \in Tasks, NEW g \in Helpers, Spawns(th, u, g)
      PROVE  RecordsKept(t) /\ task'[t].fact = task[t].fact
  BY <1>1, <1>8, SpawnKeeps, Zenon DEF RecordsKept
<1> QED
  BY <1>2, <1>3, <1>4, <1>5, <1>6, <1>7, <1>8, Zenon DEF ShapeOf

LEMMA OnlyWantedStep ==
  ASSUME SInv, AskedFor, RecordsHeard, NEW th \in Threads, ShapeOf(th), NEW t \in Tasks
  PROVE  task'[t].deps \subseteq Wants(task'[t].fact)
<1>1. task[t].deps \subseteq Wants(task[t].fact)
  BY Zenon DEF RecordsHeard
<1>2. RInv /\ TypeOK
  BY Zenon DEF SInv, RInv, Inv
<1>3. CASE RecordsKept(t) /\ task'[t].fact = task[t].fact
  BY <1>1, <1>3, Zenon DEF RecordsKept
<1>4. CASE Claims(th, t)
  BY <1>4, ClaimedNew, Zenon
<1>5. CASE Evaluates(th) /\ t = Top(th).task
  <2>1. task'[t].deps = task[t].deps \/ task'[t].deps = {}
    BY <1>5, Zenon DEF Evaluates, Course
  <2> QED
    BY <1>1, <1>5, <2>1, Zenon DEF Evaluates
<1>6. CASE Asks(th, t)
  BY <1>1, <1>2, <1>6, AskKeeps, Zenon
<1>7. ASSUME NEW outcome \in Outcomes, Leaves(th, outcome) \/ Finishes(th, outcome)
      PROVE  task'[t].deps \subseteq Wants(task'[t].fact)
  <2>1. HeardBy(task'[t], task[t], t = Context(th), Top(th).fact, outcome)
    BY <1>7, Zenon DEF Leaves, Finishes, Hears
  <2>2. CASE t # Context(th)
    BY <1>1, <2>1, <2>2, Zenon DEF HeardBy
  <2>3. CASE t = Context(th)
    <3>1. stack[th] # <<>>
      BY <1>7, Zenon DEF Leaves, Finishes
    <3>2. Caller(th, Depth(th)) = t /\ Depth(th) \in Levels(th) /\ Level(th, Depth(th)) = Top(th)
      BY <1>2, <2>3, <3>1, TopLevel
    <3>3. t # None
      BY NoTask
    <3>4. Top(th).fact \in Wants(task[t].fact)
      BY <3>2, <3>3, Zenon DEF AskedFor
    <3>5. /\ task'[t].fact = task[t].fact
          /\ task'[t].deps = task[t].deps \/ task'[t].deps = task[t].deps \cup {Top(th).fact}
      BY <2>1, Zenon DEF HeardBy
    <3> QED
      BY <1>1, <3>4, <3>5, Zenon
  <2> QED
    BY <2>2, <2>3
<1> QED
  BY <1>3, <1>4, <1>5, <1>6, <1>7, RecordsStep, Zenon

LEMMA AllHeardStep ==
  ASSUME SInv, RecordsHeard, NEW th \in Threads, ShapeOf(th), NEW t \in Tasks,
         task'[t].phase \in {"Computed", "Prepare"}, task'[t].fact \notin Absorbs
  PROVE  task'[t].deps = Wants(task'[t].fact)
<1>1. RInv /\ TypeOK
  BY Zenon DEF SInv, RInv, Inv
<1>2. ASSUME RecordsKept(t), task'[t].fact = task[t].fact
      PROVE  task'[t].deps = Wants(task'[t].fact)
  BY <1>2, Zenon DEF RecordsHeard, RecordsKept
<1>3. CASE Claims(th, t)
  BY <1>3, ClaimedNew, Zenon
<1>4. CASE Evaluates(th) /\ t = Top(th).task
  <2>0. Course(t) /\ At(th, "run") /\ task'[t].fact = task[t].fact
    BY <1>4, Zenon DEF Evaluates
  <2>1. CASE task[t].phase = "Computed" /\ task'[t].deps = task[t].deps
    BY <2>0, <2>1, Zenon DEF RecordsHeard
  <2>2. CASE /\ task[t].phase = "Recording" /\ task[t].next > Items(t) /\ ~task[t].forked
             /\ task[t].errors = {} /\ task'[t].deps = task[t].deps
    <3>1. ASSUME NEW i \in 1..Len(Requests[task[t].fact])
          PROVE  Requests[task[t].fact][i] \in task[t].deps
      <4>1. ~UnderWay(t, i)
        BY <1>4, <2>0, <2>2, NoneUnderWay, Zenon
      <4>2. ~(i >= task[t].next)
        <5>1. task[t].next \in Nat /\ Len(Requests[task[t].fact]) \in Nat
          BY <1>1, FactQueryAssumption DEF TypeOK, Task
        <5> QED
          BY <2>2, <5>1 DEF Items
      <4> QED
        BY <2>0, <2>2, <4>1, <4>2, Zenon DEF RecordsHeard
    <3>2. task[t].deps \subseteq Wants(task[t].fact)
      BY Zenon DEF RecordsHeard
    <3> QED
      BY <2>0, <2>2, <3>1, <3>2, Zenon DEF Wants
  <2> QED
    BY <2>0, <2>1, <2>2, Zenon DEF Course
<1>5. CASE Asks(th, t)
  <2>1. task[t].phase = "Recording"
    BY <1>5, Zenon DEF Asks
  <2>2. task'[t].phase = task[t].phase
    BY <1>1, <1>5, AskKeeps, Zenon
  <2> QED
    BY <2>1, <2>2, Zenon
<1>6. ASSUME NEW outcome \in Outcomes, Leaves(th, outcome) \/ Finishes(th, outcome),
             t = Context(th), task'[t].phase \in {"Done", task[t].phase}
      PROVE  FALSE
  <2>1. stack[th] # <<>>
    BY <1>6, Zenon DEF Leaves, Finishes
  <2>2. Caller(th, Depth(th)) = t /\ Depth(th) \in Levels(th)
    BY <1>1, <1>6, <2>1, TopLevel, Zenon
  <2>3. t # None
    BY NoTask
  <2>4. task[t].phase \in {"Recording", "Joining"}
    BY <2>2, <2>3, CallerRecords
  <2> QED
    BY <1>6, <2>4, Zenon
<1>7. task'[t].phase # "Done"
  OBVIOUS
<1> QED
  BY <1>2, <1>3, <1>4, <1>5, <1>6, <1>7, RecordsStep, Zenon

LEMMA StillHeardStep ==
  ASSUME SInv, RecordsHeard, NEW th \in Threads, ShapeOf(th), NEW t \in Tasks,
         task'[t].phase \in {"Claimed", "Recording", "Joining"},
         task'[t].fact \notin Absorbs, task'[t].errors = {},
         NEW i \in 1..Len(Requests[task'[t].fact])
  PROVE  \/ i >= task'[t].next
         \/ Requests[task'[t].fact][i] \in task'[t].deps
         \/ UnderWay(t, i)'
<1>1. RInv /\ TypeOK
  BY Zenon DEF SInv, RInv, Inv
<1>2. ASSUME task'[t].fact = task[t].fact, task[t].errors = {},
             task[t].phase \in {"Claimed", "Recording", "Joining"}
      PROVE  \/ i >= task[t].next
             \/ Requests[task'[t].fact][i] \in task[t].deps
             \/ UnderWay(t, i)'
             \/ /\ t = Context(th) /\ Top(th).fact = Requests[task'[t].fact][i]
                /\ \E outcome \in Outcomes : Leaves(th, outcome) \/ Finishes(th, outcome)
  <2>1. \/ i >= task[t].next \/ Requests[task[t].fact][i] \in task[t].deps
        \/ UnderWay(t, i)
    BY <1>2, Zenon DEF RecordsHeard
  <2>2. CASE UnderWay(t, i)
    <3>1. \/ UnderWay(t, i)'
          \/ /\ t = Context(th) /\ Top(th).fact = Requests[task[t].fact][i]
             /\ \E outcome \in Outcomes : Leaves(th, outcome) \/ Finishes(th, outcome)
      BY <1>2, <2>2, StaysUnderWay
    <3>2. Requests[task'[t].fact][i] = Requests[task[t].fact][i]
      BY <1>2, Zenon
    <3> QED
      BY <3>1, <3>2, Zenon
  <2> QED
    BY <1>2, <2>1, <2>2, Zenon
<1>3. ASSUME NEW outcome, Leaves(th, outcome) \/ Finishes(th, outcome), t = Context(th),
             task'[t].fact = task[t].fact
      PROVE  /\ task'[t].next = task[t].next
             /\ task[t].errors = {}
             /\ task'[t].deps = task[t].deps \cup {Top(th).fact}
  <2>1. HeardBy(task'[t], task[t], t = Context(th), Top(th).fact, outcome)
    BY <1>3, Zenon DEF Leaves, Finishes, Hears
  <2>2. task'[t].errors # task[t].errors \cup {outcome}
    OBVIOUS
  <2> QED
    BY <1>3, <2>1, <2>2, Zenon DEF HeardBy
<1>4. ASSUME ~\E outcome \in Outcomes : Leaves(th, outcome) \/ Finishes(th, outcome)
      PROVE  (RecordsKept(t) /\ task'[t].fact = task[t].fact)
             \/ Claims(th, t) \/ (Evaluates(th) /\ t = Top(th).task) \/ Asks(th, t)
  BY <1>4, RecordsStep, Zenon
<1>5. CASE RecordsKept(t) /\ task'[t].fact = task[t].fact /\ t # Context(th)
  BY <1>2, <1>5, Zenon DEF RecordsKept
<1>6. ASSUME RecordsKept(t), task'[t].fact = task[t].fact,
             ~\E outcome \in Outcomes : Leaves(th, outcome) \/ Finishes(th, outcome)
      PROVE  \/ i >= task'[t].next
             \/ Requests[task'[t].fact][i] \in task'[t].deps
             \/ UnderWay(t, i)'
  BY <1>2, <1>6, Zenon DEF RecordsKept
<1>7. CASE Claims(th, t)
  <2>1. task'[t].next = 1
    BY <1>7, ClaimedNew, Zenon
  <2> QED
    BY <2>1
<1>8. ASSUME Evaluates(th), t = Top(th).task,
             ~\E outcome \in Outcomes : Leaves(th, outcome) \/ Finishes(th, outcome)
      PROVE  \/ i >= task'[t].next
             \/ Requests[task'[t].fact][i] \in task'[t].deps
             \/ UnderWay(t, i)'
  <2>1. /\ task'[t].fact = task[t].fact /\ task'[t].next = task[t].next
        /\ task[t].phase \in {"Claimed", "Recording", "Joining"}
        /\ task'[t].deps = task[t].deps /\ task'[t].errors = task[t].errors
    BY <1>8, Zenon DEF Evaluates, Course
  <2> QED
    BY <1>2, <1>8, <2>1, Zenon
<1>9. CASE Asks(th, t)
  <2>1. /\ task'[t].fact = task[t].fact /\ task'[t].next = task[t].next + 1
        /\ task'[t].deps = task[t].deps /\ task'[t].errors = task[t].errors
        /\ task'[t].phase = task[t].phase
    BY <1>1, <1>9, AskKeeps, Zenon
  <2>2. CASE i = task[t].next
    <3>1. PICK fr : Calls(th, fr, t) /\ fr.fact = Requests[task[t].fact][task[t].next]
      BY <1>9, Zenon DEF Asks
    <3>2. /\ Depth(th)' \in Levels(th)'
          /\ Level(th, Depth(th))' = fr /\ Caller(th, Depth(th))' = t
      BY <3>1, Zenon DEF Calls
    <3>3. UnderWay(t, i)'
      BY <2>1, <2>2, <3>1, <3>2, Zenon DEF UnderWay
    <3> QED
      BY <3>3
  <2>3. CASE i # task[t].next
    <3>1. i >= task[t].next => i >= task'[t].next
      <4>1. task[t].next \in Nat
        BY <1>1 DEF TypeOK, Task
      <4> QED
        BY <2>1, <2>3, <4>1
    <3>2. \/ i >= task[t].next \/ Requests[task[t].fact][i] \in task[t].deps
          \/ UnderWay(t, i)
      BY <2>1, Zenon DEF RecordsHeard
    <3>3. \A h \in Threads : \A k \in Levels(h) : Stays(h, k)
      <4>1. PICK fr : Calls(th, fr, t)
        BY <1>9, Zenon DEF Asks
      <4> QED
        BY <4>1, Zenon DEF Calls, Stays
    <3>4. UnderWay(t, i) => UnderWay(t, i)'
      BY <2>1, <3>3, Zenon DEF UnderWay, Stays
    <3> QED
      BY <2>1, <3>1, <3>2, <3>4, Zenon
  <2> QED
    BY <2>2, <2>3
<1>10. ASSUME NEW outcome \in Outcomes, Leaves(th, outcome) \/ Finishes(th, outcome),
              task'[t].fact = task[t].fact, t = Context(th),
              task'[t].phase \in {"Done", task[t].phase}
       PROVE  \/ i >= task'[t].next
              \/ Requests[task'[t].fact][i] \in task'[t].deps
              \/ UnderWay(t, i)'
  <2>1. task'[t].phase = task[t].phase
    BY <1>10
  <2> QED
    BY <1>2, <1>3, <1>10, <2>1, Zenon
<1>11. task'[t].phase # "Done"
  OBVIOUS
<1>12. CASE \E outcome \in Outcomes : Leaves(th, outcome) \/ Finishes(th, outcome)
  BY <1>5, <1>10, <1>11, <1>12, RecordsStep, Zenon
<1> QED
  BY <1>4, <1>6, <1>7, <1>8, <1>9, <1>12, Zenon

LEMMA RecordsHeardStep ==
  ASSUME SInv, AskedFor, RecordsHeard, NEW th \in Threads, ShapeOf(th)
  PROVE  RecordsHeard'
  BY OnlyWantedStep, AllHeardStep, StillHeardStep, Zenon DEF RecordsHeard, Wants

-----------------------------------------------------------------------------
(***************************************************************************)
(* Where requests come from                                                *)
(***************************************************************************)

\* The request for f leads to g: a set of facts each of which, but g, asks for
\* one of the set.
LeadsTo(f, g) ==
  \E S \in SUBSET Facts : /\ f \in S /\ g \in S
                          /\ \A x \in S \ {g} : Wants(x) \cap S # {}

LEMMA LeadsSelf ==
  ASSUME NEW f \in Facts
  PROVE  LeadsTo(f, f)
<1>1. {f} \in SUBSET Facts /\ f \in {f} /\ {f} \ {f} = {}
  BY Zenon
<1>2. \A x \in {f} \ {f} : Wants(x) \cap {f} # {}
  BY <1>1, Zenon
<1>. QED  BY <1>1, <1>2, Zenon DEF LeadsTo

LEMMA LeadsOn ==
  ASSUME NEW f, NEW g, NEW h \in Facts, LeadsTo(f, g), h \in Wants(g)
  PROVE  LeadsTo(f, h)
<1>1. PICK S \in SUBSET Facts : /\ f \in S /\ g \in S
                                /\ \A x \in S \ {g} : Wants(x) \cap S # {}
  BY Zenon DEF LeadsTo
<1> DEFINE R == S \cup {h}
<1>2. R \in SUBSET Facts /\ f \in R /\ h \in R
  BY <1>1, Zenon
<1>3. ASSUME NEW x \in R \ {h}
      PROVE  Wants(x) \cap R # {}
  <2>1. CASE x = g
    BY <2>1, Zenon
  <2>2. CASE x # g
    BY <1>1, <1>3, <2>2, Zenon
  <2> QED
    BY <2>1, <2>2
<1> HIDE DEF R
<1> QED
  BY <1>2, <1>3, Zenon DEF LeadsTo

\* A fact that asks for one that leads back to it is cyclic, and so is a fact
\* that asks for a cyclic one.
LEMMA LeadsBack ==
  ASSUME NEW f, NEW g, LeadsTo(f, g), f \in Wants(g)
  PROVE  Cyclic(g)
<1>1. PICK S \in SUBSET Facts : /\ f \in S /\ g \in S
                                /\ \A x \in S \ {g} : Wants(x) \cap S # {}
  BY Zenon DEF LeadsTo
<1>2. \A x \in S : Wants(x) \cap S # {}
  BY <1>1, Zenon
<1>3. \A x \in S : \E i \in 1..Len(Requests[x]) : Requests[x][i] \in S
  BY <1>2, Zenon DEF Wants
<1> QED
  BY <1>1, <1>3, Zenon DEF Cyclic

LEMMA CyclicCaller ==
  ASSUME NEW f, NEW g \in Facts, Cyclic(f), f \in Wants(g)
  PROVE  Cyclic(g)
<1>1. PICK S \in SUBSET Facts :
        f \in S /\ \A x \in S : \E i \in 1..Len(Requests[x]) : Requests[x][i] \in S
  BY Zenon DEF Cyclic
<1> DEFINE R == S \cup {g}
<1>2. R \in SUBSET Facts /\ g \in R
  BY <1>1, Zenon
<1>3. ASSUME NEW x \in R
      PROVE  \E i \in 1..Len(Requests[x]) : Requests[x][i] \in R
  <2>1. CASE x = g
    BY <1>1, <2>1, Zenon DEF Wants
  <2>2. CASE x # g
    BY <1>1, <1>3, <2>2, Zenon
  <2> QED
    BY <2>1, <2>2
<1> HIDE DEF R
<1> QED
  BY <1>2, <1>3, Zenon DEF Cyclic

\* The evaluations on a thread, the ones it has taken over as a lane included,
\* lead to its last request.
EvaluationsLead ==
  \A h \in Threads :
    /\ \A j, k \in Levels(h) : j < k => LeadsTo(Level(h, j).fact, Level(h, k).fact)
    /\ \A k \in Levels(h) : \A f \in base[h].facts : LeadsTo(f, Level(h, k).fact)
    /\ base[h].task # None =>
         \A f \in base[h].facts : LeadsTo(f, task[base[h].task].fact)

\* What is under evaluation on a thread.
LEMMA EvaluatingLevels ==
  ASSUME TypeOK, NEW th \in Threads, NEW f \in Evaluating(th)
  PROVE  \/ f \in base[th].facts
         \/ \E j \in Levels(th) : j < Depth(th) /\ f = Level(th, j).fact
<1>1. Depth(th) \in Nat /\ Levels(th) = 1..Depth(th) /\ Depth(th) = Len(stack[th])
  BY DepthType DEF Depth
<1>2. SUFFICES ASSUME NEW i \in 2..Len(stack[th]), f = stack[th][i].fact
               PROVE  \E j \in Levels(th) : j < Depth(th) /\ f = Level(th, j).fact
  BY Zenon DEF Evaluating
<1> DEFINE j == Len(stack[th]) + 1 - i
<1>3. j \in Levels(th) /\ j < Depth(th) /\ Len(stack[th]) + 1 - j = i
  BY <1>1, <1>2
<1>4. Level(th, j) = stack[th][i]
  BY <1>3, Zenon DEF Level
<1> HIDE DEF j
<1> QED
  BY <1>2, <1>3, <1>4, Zenon

\* Where t's computation makes a request or leaves an item to a lane, what is
\* under evaluation leads to t's fact.
LEMMA DispatcherLeads ==
  ASSUME SInv, EvaluationsLead, NEW th \in Threads, NEW t \in Tasks, Dispatches(th, t)
  PROVE  /\ \A j \in Levels(th) : LeadsTo(Level(th, j).fact, task[t].fact)
         /\ \A f \in base[th].facts : LeadsTo(f, task[t].fact)
<1>1. RInv /\ TypeOK
  BY Zenon DEF SInv, RInv, Inv
<1>2. Depth(th) \in Nat /\ Levels(th) = 1..Depth(th) /\ (stack[th] = <<>> => Depth(th) = 0)
  BY <1>1, DepthType
<1>3. CASE stack[th] = <<>>
  <2>1. Levels(th) = {}
    BY <1>2, <1>3
  <2>2. base[th].task = t /\ t # None
    BY <1>3, NoTask, Zenon DEF Dispatches
  <2> QED
    BY <2>1, <2>2, Zenon DEF EvaluationsLead
<1>4. CASE stack[th] # <<>>
  <2>1. At(th, "run") /\ Top(th).task = t
    BY <1>4, Zenon DEF Dispatches
  <2>2. /\ Depth(th) \in Levels(th) /\ Level(th, Depth(th)) = Top(th)
        /\ task[t].fact = Top(th).fact
    BY <1>1, <2>1, AtRun, RunTop, Zenon
  <2>3. ASSUME NEW j \in Levels(th)
        PROVE  LeadsTo(Level(th, j).fact, task[t].fact)
    <3>1. CASE j = Depth(th)
      <4>1. task[t].fact \in Facts
        BY <1>1 DEF TypeOK, Task
      <4> QED
        BY <2>2, <3>1, <4>1, LeadsSelf, Zenon
    <3>2. CASE j # Depth(th)
      <4>1. j < Depth(th)
        BY <1>2, <3>2
      <4> QED
        BY <2>2, <4>1, Zenon DEF EvaluationsLead
    <3> QED
      BY <3>1, <3>2
  <2> QED
    BY <2>2, <2>3, Zenon DEF EvaluationsLead
<1> QED
  BY <1>3, <1>4

\* The lanes after a step.
LEMMA LanesStep ==
  ASSUME SInv, NEW th \in Threads, ShapeOf(th), NEW h \in Threads
  PROVE  \/ base'[h] = base[h]
         \/ stack[h] = <<>> /\ stack'[h] = <<>> /\ base'[h] = NoLane
         \/ stack[h] = <<>> /\ stack'[h] = <<>> /\ \E t \in Tasks : Spawns(th, t, h)
<1>1. LanesOwn
  BY Zenon DEF SInv
<1>2. CASE \/ Walks(th) \/ Claims(th, next_task) \/ Evaluates(th)
           \/ \E outcome \in Outcomes : Leaves(th, outcome) \/ Finishes(th, outcome)
           \/ \E t \in Tasks : Asks(th, t)
  BY <1>2, Zenon DEF Walks, Claims, Evaluates, Leaves, Finishes, Asks
<1>3. CASE Ends(th)
  BY <1>3, Zenon DEF Ends
<1>4. ASSUME NEW t \in Tasks, NEW g \in Helpers, Spawns(th, t, g)
      PROVE  base'[h] = base[h] \/ (stack[h] = <<>> /\ stack'[h] = <<>> /\ h = g)
  <2>1. NoLane.task = None /\ g \in Threads
    BY Zenon DEF NoLane, Threads
  <2>2. /\ base[g] = NoLane /\ UNCHANGED stack
        /\ \A x \in Threads \ {g} : base'[x] = base[x]
    BY <1>4, Zenon DEF Spawns
  <2>3. stack[g] = <<>>
    BY <1>1, <1>4, <2>1, <2>2, Zenon DEF LanesOwn
  <2> QED
    BY <2>2, <2>3, Zenon
<1> QED
  BY <1>2, <1>3, <1>4, Zenon DEF ShapeOf

LEMMA EvaluationsLeadStep ==
  ASSUME SInv, TypeOK', EvaluationsLead, NEW th \in Threads, ShapeOf(th)
  PROVE  EvaluationsLead'
<1>1. RInv /\ TypeOK /\ LanesOwn
  BY Zenon DEF SInv, RInv, Inv
<1>2. ASSUME NEW h \in Threads
      PROVE  /\ Depth(h)' \in Nat /\ Levels(h)' = 1..Depth(h)'
             /\ stack'[h] = <<>> => Levels(h)' = {}
  <2>1. stack'[h] \in Seq(Frame)
    BY Zenon DEF TypeOK
  <2> QED
    BY <2>1 DEF Depth, Levels
<1>3. ASSUME NEW h \in Threads, NEW k \in Levels(h)', ~Stays(h, k)
      PROVE  /\ \A j \in Levels(h)' : j < k => LeadsTo(Level(h, j)'.fact, Level(h, k)'.fact)
             /\ \A f \in base'[h].facts : LeadsTo(f, Level(h, k)'.fact)
  <2>1. PICK t \in Tasks : Asks(th, t)
    BY <1>3, LevelsStay, Zenon
  <2>2. h = th /\ k = Depth(th)'
    BY <1>3, LevelsStay, Zenon
  <2>3. PICK fr \in Frame : /\ Calls(th, fr, t)
                            /\ fr.fact = Requests[task[t].fact][task[t].next]
    BY <2>1, Zenon DEF Asks
  <2>4. Level(h, k)' = fr
    BY <2>2, <2>3, Zenon DEF Calls
  <2>5. fr.fact \in Wants(task[t].fact) /\ fr.fact \in Facts
    <3>1. fr.fact \in Wants(task[t].fact)
      BY <2>1, <2>3, Zenon DEF Asks, Wants
    <3>2. fr.fact \in Facts
      BY <2>3 DEF Frame
    <3> QED
      BY <3>1, <3>2
  <2>6. /\ \A j \in Levels(th) : LeadsTo(Level(th, j).fact, task[t].fact)
        /\ \A f \in base[th].facts : LeadsTo(f, task[t].fact)
    BY <2>1, DispatcherLeads, Zenon DEF Asks
  <2>7. \A f : LeadsTo(f, task[t].fact) => LeadsTo(f, fr.fact)
    BY <2>5, LeadsOn, Zenon
  <2>8. ASSUME NEW j \in Levels(h)', j < k
        PROVE  LeadsTo(Level(h, j)'.fact, Level(h, k)'.fact)
    <3>1. j # k
      BY <1>2, <2>8
    <3>2. j \in Levels(th)
      BY <2>2, <2>3, <3>1, Zenon DEF Calls
    <3>3. Level(th, j)' = Level(th, j)
      BY <2>3, <3>2, Zenon DEF Calls
    <3> QED
      BY <2>2, <2>4, <2>6, <2>7, <3>2, <3>3, Zenon
  <2>9. base'[h] = base[h]
    BY <2>1, Zenon DEF Asks
  <2> QED
    BY <2>2, <2>4, <2>6, <2>7, <2>8, <2>9, Zenon
<1>4. ASSUME NEW h \in Threads, NEW k \in Levels(h)', Stays(h, k)
      PROVE  /\ \A j \in Levels(h)' : j < k => LeadsTo(Level(h, j)'.fact, Level(h, k)'.fact)
             /\ \A f \in base'[h].facts : LeadsTo(f, Level(h, k)'.fact)
  <2>1. ASSUME NEW j \in Levels(h)', j < k
        PROVE  LeadsTo(Level(h, j)'.fact, Level(h, k)'.fact)
    <3>1. Stays(h, j)
      <4>1. j # Depth(h)'
        BY <1>2, <2>1
      <4> QED
        BY <4>1, LevelsStay, Zenon
    <3>2. LeadsTo(Level(h, j).fact, Level(h, k).fact)
      BY <1>4, <2>1, <3>1, Zenon DEF EvaluationsLead, Stays
    <3> QED
      BY <1>4, <3>1, <3>2, Zenon DEF Stays
  <2>2. base'[h] = base[h]
    <3>1. stack'[h] # <<>>
      BY <1>2, <1>4, Zenon
    <3> QED
      BY <3>1, LanesStep, Zenon
  <2>3. \A f \in base[h].facts : LeadsTo(f, Level(h, k).fact)
    BY <1>4, Zenon DEF EvaluationsLead, Stays
  <2> QED
    BY <1>4, <2>1, <2>2, <2>3, Zenon DEF Stays
<1>5. ASSUME NEW h \in Threads, base'[h].task # None, NEW f \in base'[h].facts
      PROVE  LeadsTo(f, task'[base'[h].task].fact)
  <2>1. CASE base'[h] = base[h]
    <3>1. base[h].task \in Tasks
      BY <1>1, <1>5, <2>1 DEF TypeOK
    <3>2. task[base[h].task].phase # "Free"
      BY <1>1, <1>5, <2>1 DEF LanesOwn
    <3>3. task'[base[h].task].fact = task[base[h].task].fact
      BY <3>1, <3>2, FactsStay, Zenon
    <3> QED
      BY <1>5, <2>1, <3>3, Zenon DEF EvaluationsLead
  <2>2. CASE base'[h] = NoLane
    <3>1. NoLane.task = None
      BY Zenon DEF NoLane
    <3> QED
      BY <1>5, <2>2, <3>1, Zenon
  <2>3. ASSUME NEW t \in Tasks, Spawns(th, t, h)
        PROVE  LeadsTo(f, task'[base'[h].task].fact)
    <3>1. base'[h].task = t /\ Dispatches(th, t)
      BY <2>3, Zenon DEF Spawns
    <3>2. task'[t].fact = task[t].fact
      BY <1>1, <2>3, SpawnKeeps, Zenon
    <3>3. /\ \A j \in Levels(th) : LeadsTo(Level(th, j).fact, task[t].fact)
          /\ \A g \in base[th].facts : LeadsTo(g, task[t].fact)
      BY <3>1, DispatcherLeads, Zenon
    <3>4. f \in base[th].facts \/ f \in Evaluating(th) \/ f = task[t].fact
      BY <1>5, <2>3, Zenon DEF Spawns
    <3>5. CASE f = task[t].fact
      <4>1. task[t].fact \in Facts
        BY <1>1 DEF TypeOK, Task
      <4> QED
        BY <3>1, <3>2, <3>5, <4>1, LeadsSelf, Zenon
    <3>6. CASE f \in Evaluating(th)
      BY <1>1, <3>1, <3>2, <3>3, <3>6, EvaluatingLevels, Zenon
    <3> QED
      BY <3>1, <3>2, <3>3, <3>4, <3>5, <3>6, Zenon
  <2> QED
    BY <2>1, <2>2, <2>3, LanesStep, Zenon
<1>6. \A h \in Threads : \A j, k \in Levels(h)' :
        j < k => LeadsTo(Level(h, j)'.fact, Level(h, k)'.fact)
  BY <1>3, <1>4, Zenon
<1>7. \A h \in Threads : \A k \in Levels(h)' : \A f \in base'[h].facts :
        LeadsTo(f, Level(h, k)'.fact)
  BY <1>3, <1>4, Zenon
<1> QED
  BY <1>5, <1>6, <1>7, Zenon DEF EvaluationsLead

\* A root's first request is for its fact.
RootsAsk == \A r \in Roots : \A k \in Levels(r) : k = 1 => Level(r, k).fact = RootFact[r]

LEMMA RootsAskStep ==
  ASSUME SInv, RootsAsk, NEW th \in Threads, ShapeOf(th)
  PROVE  RootsAsk'
<1> SUFFICES ASSUME NEW r \in Roots, NEW k \in Levels(r)', k = 1
             PROVE  Level(r, k)'.fact = RootFact[r]
  BY Zenon DEF RootsAsk
<1>0. r \in Threads
  BY Zenon DEF Threads
<1>1. CASE Stays(r, k)
  BY <1>1, Zenon DEF Stays, RootsAsk
<1>2. ASSUME NEW t \in Tasks, Asks(th, t), r = th, k = Depth(th)'
      PROVE  FALSE
  <2>1. PICK fr : Calls(th, fr, t)
    BY <1>2, Zenon DEF Asks
  <2>2. k \notin Levels(th)
    BY <1>2, <2>1, Zenon DEF Calls
  <2>3. stack[th] = <<>>
    <3>1. TypeOK
      BY Zenon DEF SInv, RInv, Inv
    <3>2. Depth(th) \in Nat /\ Levels(th) = 1..Depth(th) /\ (Depth(th) = 0 => stack[th] = <<>>)
      BY <3>1, DepthType
    <3> QED
      BY <2>2, <3>2
  <2>4. base[th].task = t /\ t # None
    BY <1>2, <2>3, NoTask, Zenon DEF Asks, Dispatches
  <2>5. th \in Helpers
    BY <2>4, Zenon DEF SInv, LanesOwn
  <2> QED
    BY <1>2, <2>5, FactQueryAssumption, Zenon
<1> QED
  BY <1>0, <1>1, <1>2, LevelsStay, Zenon

\* A task waits only for the evaluation of facts that its computation asks for.
WaitsAsked ==
  \A t, u \in Tasks : waiting[t][u] > 0 =>
    task[t].phase # "Free" /\ task[u].fact \in Wants(task[t].fact)

\* Only `wait_for' adds a wait.
LEMMA NewWait ==
  ASSUME TypeOK, [Next]_vars, NEW t \in Tasks, NEW u \in Tasks,
         waiting'[t][u] > 0, ~(waiting[t][u] > 0)
  PROVE  \E th \in Threads :
           /\ stack[th] # <<>> /\ Context(th) = t /\ Top(th).task = u
           /\ owners[Top(th).fact] = u
<1>1. waiting \in [Tasks -> [Tasks -> Nat]]
  BY Zenon DEF TypeOK
<1>2. ASSUME UNCHANGED waiting
      PROVE  FALSE
  BY <1>2, Zenon
<1>3. ASSUME NEW th \in Threads, WaitFor(th)
      PROVE  /\ stack[th] # <<>> /\ Context(th) = t /\ Top(th).task = u
             /\ owners[Top(th).fact] = u
  <2>0. stack[th] # <<>>
    BY <1>3, Zenon DEF WaitFor, At
  <2>1. waiting' # waiting
    BY <1>2, Zenon
  <2>2. /\ owners[Top(th).fact] = Top(th).task
        /\ waiting' = [waiting EXCEPT ![Context(th)][Top(th).task] = @ + 1]
    BY <1>3, <2>1, Zenon DEF WaitFor
  <2>3. Context(th) = t /\ Top(th).task = u
    BY <1>1, <2>2, SMT
  <2> QED
    BY <2>0, <2>2, <2>3, Zenon
<1>4. ASSUME NEW c, NEW x, RemoveWait(c, x)
      PROVE  FALSE
  <2>1. waiting' = [waiting EXCEPT ![c][x] = IF @ > 0 THEN @ - 1 ELSE 0]
    BY <1>2, <1>4, Zenon DEF RemoveWait
  <2> QED
    BY <1>1, <2>1, SMT
<1>5. ASSUME NEW x, RemoveEvaluation(x)
      PROVE  FALSE
  <2>1. waiting' = [waiting EXCEPT ![x] = [y \in Tasks |-> 0]]
    BY <1>5, Zenon DEF RemoveEvaluation
  <2> QED
    BY <1>1, <2>1, SMT
<1>6. ASSUME NEW th \in Threads, ThreadStep(th)
      PROVE  WaitFor(th)
  <2>1. CASE Request(th) \/ Check(th) \/ Look(th) \/ Admit(th) \/ Claim(th)
    BY <1>2, <2>1, Zenon DEF Request, Check, Look, Admit, Claim, runtime
  <2>2. CASE RegisterInterest(th) \/ DropInterest(th) \/ Begin(th) \/ Suspend(th) \/ Resume(th)
    BY <1>2, <2>2, Zenon DEF RegisterInterest, DropInterest, Begin, Suspend, Resume, runtime
  <2>3. CASE Compute(th) \/ Fail(th) \/ CheckShared(th) \/ Publish(th)
    BY <1>2, <2>3, Zenon DEF Compute, Fail, CheckShared, Publish, runtime
  <2>4. CASE Deliver(th) \/ Vacate(th) \/ LaneEnds(th)
    BY <1>2, <2>4, Zenon DEF Deliver, Vacate, LaneEnds, runtime
  <2>5. CASE Unwait(th)
    BY <1>4, <2>5, Zenon DEF Unwait
  <2>6. CASE Commit(th) \/ Abandon(th)
    BY <1>5, <2>6, Zenon DEF Commit, Abandon
  <2>7. CASE \E x \in Tasks : Call(th, x)
    BY <1>2, <2>7, Zenon DEF Call, runtime
  <2> QED
    BY <1>6, <2>1, <2>2, <2>3, <2>4, <2>5, <2>6, <2>7, Zenon DEF ThreadStep
<1>7. ASSUME NEW th, NEW x, NEW h, SpawnLane(th, x, h)
      PROVE  FALSE
  BY <1>2, <1>7, Zenon DEF SpawnLane, runtime
<1>8. ASSUME NEW r, Cancel(r)
      PROVE  FALSE
  BY <1>2, <1>8, Zenon DEF Cancel, runtime
<1>9. ASSUME UNCHANGED vars
      PROVE  FALSE
  BY <1>2, <1>9, Zenon DEF vars, runtime
<1> QED
  BY <1>3, <1>6, <1>7, <1>8, <1>9, Zenon DEF Next

\* The request of th was made on behalf of a task that asks for its fact.
LEMMA ContextAsks ==
  ASSUME SInv, AskedFor, NEW th \in Threads, stack[th] # <<>>, Context(th) # None
  PROVE  /\ Context(th) \in Tasks /\ task[Context(th)].phase \in {"Recording", "Joining"}
         /\ Top(th).fact \in Wants(task[Context(th)].fact)
<1>1. TypeOK
  BY Zenon DEF SInv, RInv, Inv
<1>2. /\ Depth(th) \in Levels(th) /\ Level(th, Depth(th)) = Top(th)
      /\ Context(th) = Caller(th, Depth(th))
  BY <1>1, TopLevel
<1>3. /\ Context(th) \in Tasks /\ task[Context(th)].phase \in {"Recording", "Joining"}
  BY <1>2, CallerRecords
<1> QED
  BY <1>2, <1>3, Zenon DEF AskedFor

\* The owner of a fact evaluates it.
LEMMA OwnerEvaluates ==
  ASSUME SInv, NEW f \in Facts, NEW u \in Tasks, owners[f] = u
  PROVE  task[u].fact = f /\ task[u].phase # "Free"
<1>1. u # None
  BY NoTask
<1>2. task[u].fact = f
  BY <1>1, Zenon DEF SInv, RInv, Inv, Owned
<1>3. task[u].phase \in Begun
  BY <1>2, Zenon DEF SInv, RInv, Inv, SingleFlight
<1> QED
  BY <1>2, <1>3 DEF Begun

LEMMA WaitsAskedStep ==
  ASSUME SInv, AskedFor, WaitsAsked, TypeOK', [Next]_vars
  PROVE  WaitsAsked'
<1> SUFFICES ASSUME NEW t \in Tasks, NEW u \in Tasks, waiting'[t][u] > 0
             PROVE  task'[t].phase # "Free" /\ task'[u].fact \in Wants(task'[t].fact)
  BY Zenon DEF WaitsAsked
<1>1. Inv /\ TypeOK /\ WaitsBegun
  BY Zenon DEF SInv, RInv, Inv
<1>2. /\ task[t].phase # "Free" /\ task[u].phase # "Free"
      /\ task[u].fact \in Wants(task[t].fact)
  <2>1. CASE waiting[t][u] > 0
    <3>1. task[u].phase # "Free"
      BY <1>1, <2>1, Zenon DEF WaitsBegun
    <3> QED
      BY <2>1, <3>1, Zenon DEF WaitsAsked
  <2>2. CASE ~(waiting[t][u] > 0)
    <3>1. PICK th \in Threads :
            /\ stack[th] # <<>> /\ Context(th) = t /\ Top(th).task = u
            /\ owners[Top(th).fact] = u
      BY <1>1, <2>2, NewWait, Zenon
    <3>2. t # None
      BY NoTask
    <3>3. task[t].phase \in {"Recording", "Joining"} /\ Top(th).fact \in Wants(task[t].fact)
      BY <3>1, <3>2, ContextAsks, Zenon
    <3>4. Top(th).fact \in Facts
      <4>1. Top(th) \in Frame
        BY <1>1, <3>1, TopLevel, LevelType, Zenon
      <4> QED
        BY <4>1 DEF Frame
    <3>5. task[u].fact = Top(th).fact /\ task[u].phase # "Free"
      BY <3>1, <3>4, OwnerEvaluates, Zenon
    <3> QED
      BY <3>3, <3>5, Zenon
  <2> QED
    BY <2>1, <2>2
<1>3. ASSUME NEW th \in Threads, ShapeOf(th)
      PROVE  task'[t].phase # "Free" /\ task'[u].fact \in Wants(task'[t].fact)
  <2>1. /\ task'[t].phase # "Free" /\ task'[t].fact = task[t].fact
        /\ task'[u].fact = task[u].fact
    BY <1>2, <1>3, FactsStay, Zenon
  <2> QED
    BY <1>2, <2>1, Zenon
<1>4. CASE UNCHANGED task
  BY <1>2, <1>4, Zenon
<1> QED
  BY <1>1, <1>3, <1>4, StepShape, Zenon

\* A fact under evaluation on a thread leads to the computation that makes the
\* thread's last request.
LEMMA EvaluatingLeads ==
  ASSUME SInv, EvaluationsLead, NEW th \in Threads, stack[th] # <<>>,
         NEW f \in Evaluating(th)
  PROVE  Context(th) # None /\ LeadsTo(f, task[Context(th)].fact)
<1>1. RInv /\ TypeOK /\ LanesOwn /\ CallersRun
  BY Zenon DEF SInv, RInv, Inv
<1>2. Context(th) = Caller(th, Depth(th)) /\ Depth(th) \in Levels(th)
  BY <1>1, TopLevel
<1>3. Depth(th) \in Nat \ {0} /\ Levels(th) = 1..Depth(th)
  BY <1>1, DepthType
<1>4. \/ f \in base[th].facts
      \/ \E j \in Levels(th) : j < Depth(th) /\ f = Level(th, j).fact
  BY <1>1, EvaluatingLevels, Zenon
<1>5. CASE Depth(th) = 1
  <2>1. f \in base[th].facts
    <3>1. ~\E j \in Levels(th) : j < Depth(th)
      BY <1>3, <1>5
    <3> QED
      BY <1>4, <3>1, Zenon
  <2>2. Context(th) = base[th].task
    BY <1>2, <1>5, Zenon DEF Caller
  <2>3. base[th].task # None
    <3>1. NoLane.facts = {}
      BY Zenon DEF NoLane
    <3> QED
      BY <1>1, <2>1, <3>1, Zenon DEF LanesOwn
  <2> QED
    BY <2>1, <2>2, <2>3, Zenon DEF EvaluationsLead
<1>6. CASE Depth(th) # 1
  <2> DEFINE k == Depth(th) - 1
  <2>1. k \in Levels(th) /\ k # Depth(th) /\ \A j \in Levels(th) : j < Depth(th) => j < k \/ j = k
    BY <1>3, <1>6
  <2>2. Context(th) = Level(th, k).task
    BY <1>2, <1>6, Zenon DEF Caller
  <2> HIDE DEF k
  <2>3. Level(th, k).pc = "run"
    BY <1>1, <2>1, Zenon DEF CallersRun
  <2>4. Context(th) \in Tasks /\ task[Context(th)].fact = Level(th, k).fact
    BY <1>1, <2>1, <2>2, <2>3, RunLevel, Zenon
  <2>5. Context(th) # None
    BY <2>4, NoTask
  <2>6. CASE f \in base[th].facts
    BY <2>1, <2>4, <2>5, <2>6, Zenon DEF EvaluationsLead
  <2>7. ASSUME NEW j \in Levels(th), j < Depth(th), f = Level(th, j).fact
        PROVE  LeadsTo(f, Level(th, k).fact)
    <3>1. CASE j < k
      BY <2>1, <2>7, <3>1, Zenon DEF EvaluationsLead
    <3>2. CASE j = k
      <4>1. f \in Facts
        BY <1>1, <2>1, <2>7, <3>2, LevelType DEF Frame
      <4> QED
        BY <2>7, <3>2, <4>1, LeadsSelf, Zenon
    <3> QED
      BY <2>1, <2>7, <3>1, <3>2, Zenon
  <2> QED
    BY <1>4, <2>4, <2>5, <2>6, <2>7, Zenon
<1> QED
  BY <1>5, <1>6

\* What a search of the wait graph reaches, leads there.
LEMMA ReachesLeads ==
  ASSUME SInv, WaitsAsked, NEW u \in Tasks, NEW c \in Tasks, Reaches(u, c)
  PROVE  LeadsTo(task[u].fact, task[c].fact)
<1> DEFINE S == {x \in Tasks : LeadsTo(task[u].fact, task[x].fact)}
<1>1. \A x \in Tasks : task[x].fact \in Facts
  BY DEF SInv, RInv, Inv, TypeOK, Task
<1>2. u \in S
  BY <1>1, LeadsSelf, Zenon
<1>3. ASSUME NEW x \in S, NEW y \in Tasks, Edge(x, y)
      PROVE  y \in S
  <2>1. task[y].fact \in Wants(task[x].fact)
    BY <1>3, Zenon DEF Edge, WaitsAsked
  <2>2. LeadsTo(task[u].fact, task[x].fact)
    BY Zenon
  <2>3. LeadsTo(task[u].fact, task[y].fact)
    BY <1>1, <2>1, <2>2, LeadsOn, Zenon
  <2> QED
    BY <2>3, Zenon
<1>4. S \in SUBSET Tasks
  BY Zenon
<1>5. c \in S
  <2> HIDE DEF S
  <2> QED
    BY <1>2, <1>3, <1>4, Zenon DEF Reaches
<1> QED
  BY <1>5, Zenon

LEMMA FoundCycles ==
  ASSUME SInv, AskedFor, EvaluationsLead, WaitsAsked,
         NEW th \in Threads, stack[th] # <<>>, FindsCycle(th)
  PROVE  Context(th) # None /\ Cyclic(task[Context(th)].fact)
<1>1. TypeOK
  BY Zenon DEF SInv, RInv, Inv
<1>2. CASE Top(th).fact \in Evaluating(th)
  <2>1. Context(th) # None /\ LeadsTo(Top(th).fact, task[Context(th)].fact)
    BY <1>2, EvaluatingLeads, Zenon
  <2>2. Top(th).fact \in Wants(task[Context(th)].fact)
    BY <2>1, ContextAsks
  <2> QED
    BY <2>1, <2>2, LeadsBack, Zenon
<1>3. CASE /\ Top(th).task \in Tasks /\ owners[Top(th).fact] = Top(th).task
           /\ Context(th) # None /\ Reaches(Top(th).task, Context(th))
  <2>1. Context(th) \in Tasks /\ Top(th).fact \in Wants(task[Context(th)].fact)
    BY <1>3, ContextAsks
  <2>2. Top(th).fact \in Facts
    <3>1. Top(th) \in Frame
      BY <1>1, TopLevel, LevelType, Zenon
    <3> QED
      BY <3>1 DEF Frame
  <2>3. task[Top(th).task].fact = Top(th).fact
    BY <1>3, <2>2, OwnerEvaluates, Zenon
  <2>4. LeadsTo(Top(th).fact, task[Context(th)].fact)
    BY <1>3, <2>1, <2>3, ReachesLeads, Zenon
  <2> QED
    BY <1>3, <2>1, <2>4, LeadsBack, Zenon
<1> QED
  BY <1>2, <1>3, Zenon DEF FindsCycle

\* The cycle that a request reports is one its fact leads into, and its caller.
LEMMA CycleReported ==
  ASSUME SInv, AskedFor, EvaluationsLead, WaitsAsked, CyclesAreReal,
         NEW th \in Threads, Leaves(th, "Cycle") \/ Finishes(th, "Cycle")
  PROVE  /\ stack[th] # <<>>
         /\ Context(th) # None => Cyclic(task[Context(th)].fact)
         /\ Context(th) = None => Cyclic(Top(th).fact)
<1>1. stack[th] # <<>>
  BY Zenon DEF Leaves, Finishes
<1>2. CASE Leaves(th, "Cycle")
  BY <1>1, <1>2, FoundCycles, Zenon DEF Leaves
<1>3. CASE Finishes(th, "Cycle")
  <2>1. RInv /\ TypeOK
    BY Zenon DEF SInv, RInv, Inv
  <2>2. Top(th).pc = "run" /\ "Cycle" \in task[Top(th).task].errors
    BY <1>3 DEF Finishes
  <2>3. Top(th).task \in Tasks /\ task[Top(th).task].fact = Top(th).fact
    BY <1>1, <2>1, <2>2, RunTop, Zenon
  <2>4. Cyclic(Top(th).fact)
    BY <2>2, <2>3, Zenon DEF CyclesAreReal
  <2>5. ASSUME Context(th) # None
        PROVE  Cyclic(task[Context(th)].fact)
    <3>1. Context(th) \in Tasks /\ Top(th).fact \in Wants(task[Context(th)].fact)
      BY <1>1, <2>5, ContextAsks
    <3>2. task[Context(th)].fact \in Facts
      BY <2>1, <3>1 DEF TypeOK, Task
    <3> QED
      BY <2>4, <3>1, <3>2, CyclicCaller, Zenon
  <2> QED
    BY <1>1, <2>4, <2>5, Zenon
<1> QED
  BY <1>2, <1>3

LEMMA CyclesAreRealStep ==
  ASSUME SInv, AskedFor, EvaluationsLead, WaitsAsked, RootsAsk, CyclesAreReal,
         NEW th \in Threads, ShapeOf(th)
  PROVE  CyclesAreReal'
<1>1. RInv /\ TypeOK /\ LanesOwn
  BY Zenon DEF SInv, RInv, Inv
<1>2. ASSUME NEW t \in Tasks, "Cycle" \in task'[t].errors
      PROVE  Cyclic(task'[t].fact)
  <2>1. "Cycle" \in task[t].errors => Cyclic(task[t].fact)
    BY Zenon DEF CyclesAreReal
  <2>2. CASE RecordsKept(t) /\ task'[t].fact = task[t].fact
    BY <1>2, <2>1, <2>2, Zenon DEF RecordsKept
  <2>3. CASE Claims(th, t)
    BY <1>2, <2>3, ClaimedNew, Zenon
  <2>4. CASE Evaluates(th) /\ t = Top(th).task
    <3>1. task'[t].fact = task[t].fact /\ Course(t)
      BY <2>4, Zenon DEF Evaluates
    <3>2. "Cycle" \in task[t].errors
      <4>1. /\ \/ task'[t].errors = task[t].errors \/ task'[t].errors = {}
               \/ \E e \in task[t].errors : task'[t].errors = {e}
               \/ task'[t].errors = {"Cancelled"}
        BY <3>1, Zenon DEF Course
      <4> QED
        BY <1>2, <4>1
    <3> QED
      BY <2>1, <3>1, <3>2, Zenon
  <2>5. CASE Asks(th, t)
    BY <1>1, <1>2, <2>1, <2>5, AskKeeps, Zenon
  <2>6. ASSUME NEW outcome \in Outcomes, Leaves(th, outcome) \/ Finishes(th, outcome)
        PROVE  Cyclic(task'[t].fact)
    <3>1. HeardBy(task'[t], task[t], t = Context(th), Top(th).fact, outcome)
      BY <2>6, Zenon DEF Leaves, Finishes, Hears
    <3>2. /\ task'[t].fact = task[t].fact
          /\ \/ task'[t].errors = task[t].errors
             \/ t = Context(th) /\ task'[t].errors = task[t].errors \cup {outcome}
      BY <3>1, Zenon DEF HeardBy
    <3>3. CASE "Cycle" \in task[t].errors
      BY <2>1, <3>2, <3>3, Zenon
    <3>4. CASE "Cycle" \notin task[t].errors
      <4>1. outcome = "Cycle" /\ t = Context(th)
        BY <1>2, <3>2, <3>4, Zenon
      <4>2. t # None
        BY NoTask
      <4> QED
        BY <2>6, <3>2, <4>1, <4>2, CycleReported, Zenon
    <3> QED
      BY <3>3, <3>4
  <2> QED
    BY <2>2, <2>3, <2>4, <2>5, <2>6, RecordsStep, Zenon
<1>3. ASSUME NEW r \in Roots, result'[r] = "Cycle"
      PROVE  Cyclic(RootFact[r])
  <2>1. CASE result' = result
    BY <1>3, <2>1, Zenon DEF CyclesAreReal
  <2>2. ASSUME NEW outcome \in Outcomes, Leaves(th, outcome) \/ Finishes(th, outcome),
               result' # result
        PROVE  Cyclic(RootFact[r])
    <3>1. th \in Roots /\ Depth(th) = 1 /\ result' = [result EXCEPT ![th] = outcome]
      BY <2>2, Zenon DEF Leaves, Finishes, Answers
    <3>2. CASE r # th
      <4>1. result[r] = "Cycle"
        BY <1>1, <1>3, <3>1, <3>2 DEF TypeOK
      <4> QED
        BY <4>1, Zenon DEF CyclesAreReal
    <3>3. CASE r = th
      <4>1. outcome = "Cycle"
        BY <1>1, <1>3, <3>1, <3>3 DEF TypeOK
      <4>2. stack[th] # <<>>
        BY <2>2, <4>1, CycleReported, Zenon
      <4>3. /\ Depth(th) \in Levels(th) /\ Level(th, Depth(th)) = Top(th)
            /\ Context(th) = Caller(th, Depth(th))
        BY <1>1, <4>2, TopLevel
      <4>4. Top(th).fact = RootFact[r]
        BY <3>1, <3>3, <4>3, Zenon DEF RootsAsk
      <4>5. Context(th) = base[th].task
        BY <3>1, <4>3, Zenon DEF Caller
      <4>6. Context(th) = None
        BY <1>1, <3>1, <4>5, FactQueryAssumption, Zenon DEF LanesOwn
      <4> QED
        BY <2>2, <4>1, <4>4, <4>6, CycleReported, Zenon
    <3> QED
      BY <3>2, <3>3
  <2> QED
    BY <2>1, <2>2, Zenon DEF ShapeOf, Walks, Claims, Evaluates, Ends, Asks, Spawns
<1> QED
  BY <1>2, <1>3, Zenon DEF CyclesAreReal

-----------------------------------------------------------------------------
(***************************************************************************)
(* The records, and all of it together                                     *)
(***************************************************************************)

\* The records are closed under dependency and complete.
RecordsRight ==
  \A f \in DOMAIN records :
    records[f] \subseteq DOMAIN records /\ (f \notin Absorbs => records[f] = Wants(f))

LEMMA OnlyCommitRecords ==
  ASSUME [Next]_vars
  PROVE  UNCHANGED records \/ \E th \in Threads : Commit(th)
<1>1. ASSUME NEW th \in Threads, ThreadStep(th)
      PROVE  UNCHANGED records \/ Commit(th)
  <2>1. CASE Request(th) \/ Check(th) \/ Look(th) \/ Admit(th) \/ Claim(th)
    BY <2>1, Zenon DEF Request, Check, Look, Admit, Claim, runtime
  <2>2. CASE WaitFor(th) \/ RegisterInterest(th) \/ Unwait(th) \/ DropInterest(th)
    BY <2>2, Zenon DEF WaitFor, RegisterInterest, Unwait, DropInterest, runtime
  <2>3. CASE Begin(th) \/ Suspend(th) \/ Resume(th) \/ Compute(th) \/ Fail(th)
    BY <2>3, Zenon DEF Begin, Suspend, Resume, Compute, Fail, runtime
  <2>4. CASE CheckShared(th) \/ Publish(th) \/ Deliver(th) \/ Abandon(th)
    BY <2>4, Zenon DEF CheckShared, Publish, Deliver, Abandon, runtime
  <2>5. CASE Vacate(th) \/ LaneEnds(th)
    BY <2>5, Zenon DEF Vacate, LaneEnds, runtime
  <2>6. CASE \E t \in Tasks : Call(th, t)
    BY <2>6, Zenon DEF Call, runtime
  <2> QED
    BY <1>1, <2>1, <2>2, <2>3, <2>4, <2>5, <2>6, Zenon DEF ThreadStep
<1>2. ASSUME NEW th, NEW t, NEW h, SpawnLane(th, t, h)
      PROVE  UNCHANGED records
  BY <1>2, Zenon DEF SpawnLane, runtime
<1>3. ASSUME NEW r, Cancel(r)
      PROVE  UNCHANGED records
  BY <1>3, Zenon DEF Cancel, runtime
<1> QED
  BY <1>1, <1>2, <1>3, Zenon DEF Next, vars, runtime

LEMMA RecordsRightStep ==
  ASSUME SInv, RecordsHeard, RecordsRight, [Next]_vars
  PROVE  RecordsRight'
<1>1. RInv /\ TypeOK
  BY Zenon DEF SInv, RInv, Inv
<1>2. CASE UNCHANGED records
  BY <1>2, Zenon DEF RecordsRight
<1>3. ASSUME NEW th \in Threads, Commit(th)
      PROVE  RecordsRight'
  <2> DEFINE t == Top(th).task
             g == task[t].fact
  <2>1. /\ At(th, "run") /\ task[t].phase = "Prepare"
        /\ records' = [f \in DOMAIN records \cup {g} |->
                         IF f = g THEN task[t].deps ELSE records[f]]
    BY <1>3, Zenon DEF Commit, Runs
  <2>2. t \in Tasks
    BY <1>1, <2>1, AtRun, RunTop, Zenon
  <2>3. /\ task[t].deps \subseteq DOMAIN records
        /\ g \notin Absorbs => task[t].deps = Wants(g)
    BY <1>1, <2>1, <2>2, Zenon DEF RecordsHeard, RInv, DepsCommitted
  <2> HIDE DEF t, g
  <2>4. DOMAIN records' = DOMAIN records \cup {g}
    BY <2>1, Zenon
  <2>5. ASSUME NEW f \in DOMAIN records'
        PROVE  /\ records'[f] \subseteq DOMAIN records'
               /\ f \notin Absorbs => records'[f] = Wants(f)
    <3>1. CASE f = g
      <4>1. records'[f] = task[t].deps
        BY <2>1, <2>4, <2>5, <3>1, Zenon
      <4> QED
        BY <2>3, <2>4, <3>1, <4>1, Zenon
    <3>2. CASE f # g
      <4>1. f \in DOMAIN records /\ records'[f] = records[f]
        BY <2>1, <2>4, <2>5, <3>2, Zenon
      <4> QED
        BY <2>4, <4>1, Zenon DEF RecordsRight
    <3> QED
      BY <3>1, <3>2
  <2> QED
    BY <2>5, Zenon DEF RecordsRight
<1> QED
  BY <1>2, <1>3, OnlyCommitRecords, Zenon

\* The inductive invariant of what requests record, ask for and report.
AInv == /\ SInv /\ AskedFor /\ RecordsHeard /\ RecordsRight
        /\ EvaluationsLead /\ WaitsAsked /\ RootsAsk /\ CyclesAreReal

\* At first, each root has its request and nothing else is pending.
LEMMA StartLevels ==
  ASSUME Init, NEW h \in Threads
  PROVE  /\ base[h] = NoLane /\ base[h].task = None /\ base[h].facts = {}
         /\ h \in Helpers => stack[h] = <<>>
         /\ \A k \in Levels(h) :
              /\ h \in Roots /\ k = 1 /\ Depth(h) = 1
              /\ Level(h, k) = NewFrame(RootFact[h], h) /\ Caller(h, k) = None
<1>1. /\ base[h] = NoLane /\ base[h].task = None /\ base[h].facts = {}
      /\ h \in Roots => stack[h] = <<NewFrame(RootFact[h], h)>>
      /\ h \in Helpers => stack[h] = <<>>
  <2>1. base[h] = NoLane /\ NoLane.task = None /\ NoLane.facts = {}
    BY Zenon DEF Init, NoLane
  <2>2. stack[h] = IF h \in Roots THEN <<NewFrame(RootFact[h], h)>> ELSE <<>>
    BY Zenon DEF Init
  <2>3. h \in Helpers => h \notin Roots
    BY FactQueryAssumption, Zenon
  <2> QED
    BY <2>1, <2>2, <2>3, Zenon
<1>2. ASSUME NEW k \in Levels(h)
      PROVE  /\ h \in Roots /\ k = 1 /\ Depth(h) = 1
             /\ Level(h, k) = NewFrame(RootFact[h], h) /\ Caller(h, k) = None
  <2>1. CASE h \in Roots
    <3>0. \A fr : Len(<<fr>>) = 1 /\ <<fr>>[1] = fr
      OBVIOUS
    <3>1. Len(stack[h]) = 1 /\ stack[h][1] = NewFrame(RootFact[h], h)
      BY <1>1, <2>1, <3>0, Zenon
    <3>2. k = 1 /\ Depth(h) = 1
      BY <3>1 DEF Levels, Depth
    <3>3. Level(h, k) = stack[h][1]
      BY <3>1, <3>2 DEF Level
    <3> QED
      BY <1>1, <2>1, <3>1, <3>2, <3>3, Zenon DEF Caller
  <2>2. CASE h \in Helpers
    BY <1>1, <2>2 DEF Levels
  <2> QED
    BY <2>1, <2>2, Zenon DEF Threads
<1> QED
  BY <1>1, <1>2, Zenon

LEMMA StacksInit ==
  ASSUME Init, RInv
  PROVE  AInv
<1>1. ASSUME NEW h \in Threads
      PROVE  /\ base[h] = NoLane /\ base[h].task = None /\ base[h].facts = {}
             /\ h \in Helpers => stack[h] = <<>>
  BY StartLevels, Zenon
<1>2. ASSUME NEW h \in Threads, NEW k \in Levels(h)
      PROVE  /\ h \in Roots /\ k = 1 /\ Depth(h) = 1
             /\ Level(h, k) = NewFrame(RootFact[h], h) /\ Caller(h, k) = None
  BY StartLevels, Zenon
<1>3. \A f, h : NewFrame(f, h).pc = "request" /\ NewFrame(f, h).fact = f
  BY Zenon DEF NewFrame
<1>4. ASSUME NEW t \in Tasks
      PROVE  /\ task[t].phase = "Free" /\ task[t].deps = {} /\ task[t].errors = {}
  <2>1. PICK f : task[t] = [NewTask(f, t) EXCEPT !.phase = "Free"]
    BY Zenon DEF Init
  <2> QED
    BY <2>1 DEF NewTask
<1>5. SInv
  <2>1. CallersRun
    BY <1>2, Zenon DEF CallersRun
  <2>2. OneRunner
    BY <1>2, <1>3 DEF OneRunner
  <2>3. LanesOwn
    BY <1>1, Zenon DEF LanesOwn
  <2> QED
    BY <2>1, <2>2, <2>3, Zenon DEF SInv
<1>6. AskedFor
  BY <1>2, Zenon DEF AskedFor
<1>7. RecordsHeard
  BY <1>4 DEF RecordsHeard
<1>8. RecordsRight
  BY Zenon DEF Init, RecordsRight
<1>9. EvaluationsLead
  <2>1. ASSUME NEW h \in Threads, NEW j \in Levels(h), NEW k \in Levels(h), j < k
        PROVE  FALSE
    <3>1. j = 1 /\ k = 1
      BY <1>2
    <3> QED
      BY <2>1, <3>1
  <2> QED
    BY <1>1, <2>1, Zenon DEF EvaluationsLead
<1>10. WaitsAsked
  <2>1. ASSUME NEW t \in Tasks, NEW u \in Tasks
        PROVE  ~(waiting[t][u] > 0)
    BY DEF Init
  <2> QED
    BY <2>1, Zenon DEF WaitsAsked
<1>11. RootsAsk
  <2>1. \A r \in Roots : r \in Threads
    BY Zenon DEF Threads
  <2> QED
    BY <1>2, <1>3, <2>1, Zenon DEF RootsAsk
<1>12. CyclesAreReal
  <2>1. ASSUME NEW r \in Roots
        PROVE  result[r] = "Pending"
    BY Zenon DEF Init
  <2>2. ASSUME NEW r \in Roots
        PROVE  result[r] # "Cycle"
    BY <2>1
  <2> QED
    BY <1>4, <2>2, Zenon DEF CyclesAreReal
<1> QED
  BY <1>5, <1>6, <1>7, <1>8, <1>9, <1>10, <1>11, <1>12, Zenon DEF AInv

LEMMA StacksStep ==
  ASSUME AInv, RInv', [Next]_vars
  PROVE  AInv'
<1>1. SInv /\ Inv /\ TypeOK'
  BY Zenon DEF AInv, SInv, RInv, Inv
<1>2. WaitsAsked' /\ RecordsRight'
  BY <1>1, WaitsAskedStep, RecordsRightStep, Zenon DEF AInv
<1>3. ASSUME NEW th \in Threads, ShapeOf(th)
      PROVE  AInv'
  <2>1. CallersRun' /\ OneRunner' /\ LanesOwn'
    BY <1>1, <1>3, CallersRunStep, OneRunnerStep, LanesOwnStep, Zenon
  <2>2. SInv'
    BY <2>1, Zenon DEF SInv
  <2>3. AskedFor' /\ RecordsHeard'
    BY <1>1, <1>3, AskedForStep, RecordsHeardStep, Zenon DEF AInv
  <2>4. EvaluationsLead' /\ RootsAsk'
    BY <1>1, <1>3, EvaluationsLeadStep, RootsAskStep, Zenon DEF AInv
  <2>5. CyclesAreReal'
    BY <1>1, <1>3, CyclesAreRealStep, Zenon DEF AInv
  <2> QED
    BY <1>2, <2>2, <2>3, <2>4, <2>5, Zenon DEF AInv
<1>4. ASSUME UNCHANGED <<stack, base, task, result>>
      PROVE  AInv'
  <2>1. \A h : /\ Depth(h)' = Depth(h) /\ Levels(h)' = Levels(h)
               /\ \A k : Level(h, k)' = Level(h, k) /\ Caller(h, k)' = Caller(h, k)
    BY <1>4, SameLevels, Zenon
  <2>2. CallersRun'
    BY <1>1, <1>4, <2>1, Zenon DEF SInv, CallersRun
  <2>3. OneRunner'
    BY <1>1, <2>1, Zenon DEF SInv, OneRunner
  <2>4. LanesOwn'
    BY <1>1, <1>4, Zenon DEF SInv, LanesOwn
  <2>5. AskedFor'
    BY <1>4, <2>1, Zenon DEF AInv, AskedFor
  <2>6. \A t \in Tasks : \A i : UnderWay(t, i)' <=> UnderWay(t, i)
    BY <1>4, <2>1, Zenon DEF UnderWay
  <2>7. RecordsHeard'
    BY <1>4, <2>6, Zenon DEF AInv, RecordsHeard
  <2>8. EvaluationsLead'
    BY <1>4, <2>1, Zenon DEF AInv, EvaluationsLead
  <2>9. RootsAsk'
    BY <2>1, Zenon DEF AInv, RootsAsk
  <2>10. CyclesAreReal'
    BY <1>4, Zenon DEF AInv, CyclesAreReal
  <2> QED
    BY <1>2, <2>2, <2>3, <2>4, <2>5, <2>7, <2>8, <2>9, <2>10, Zenon DEF AInv, SInv
<1> QED
  BY <1>1, <1>3, <1>4, StepShape, Zenon

\* What the invariant says of the properties.
LEMMA AInvContext ==
  ASSUME SInv
  PROVE  ContextRecording
<1> SUFFICES ASSUME NEW th \in Threads, stack[th] # <<>>, Context(th) # None
             PROVE  task[Context(th)].phase \in {"Recording", "Joining"}
  BY Zenon DEF ContextRecording
<1>1. TypeOK
  BY Zenon DEF SInv, RInv, Inv
<1>2. Depth(th) \in Levels(th) /\ Context(th) = Caller(th, Depth(th))
  BY <1>1, TopLevel, Zenon
<1> QED
  BY <1>2, CallerRecords, Zenon

LEMMA AInvRecords ==
  ASSUME AInv
  PROVE  RecordsComplete
  BY Zenon DEF AInv, SInv, RInv, Inv, DepsCommitted, RecordsRight, Committed, Wants,
               RecordsComplete
=============================================================================

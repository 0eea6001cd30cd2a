----------------------- MODULE FactQueryCancellation ------------------------
(***************************************************************************)
(* Cancellation in FactQuery, for any facts, programs, threads and slots:  *)
(* the tokens of nested evaluations, the interests that their runners      *)
(* registered, and how both end in a root.                                 *)
(***************************************************************************)
EXTENDS FactQueryStacks

\* An evaluation stays where it is until it finishes, and a claim begins one.
LEMMA RunsStay ==
  ASSUME SInv, NEW th \in Threads, ShapeOf(th)
  PROVE  /\ \A h \in Threads : \A k \in Levels(h) :
              Level(h, k).pc = "run" =>
                \/ k \in Levels(h)' /\ Level(h, k)' = Level(h, k)
                \/ /\ h = th /\ k = Depth(th) /\ Top(th) = Level(h, k)
                   /\ \E outcome \in Outcomes : Finishes(th, outcome)
         /\ \A h \in Threads : \A k \in Levels(h)' :
              Level(h, k)'.pc = "run" =>
                \/ k \in Levels(h) /\ Level(h, k)' = Level(h, k)
                \/ h = th /\ k = Depth(th) /\ Claims(th, next_task)
<1>1. TypeOK
  BY Zenon DEF SInv, RInv, Inv
<1>2. stack[th] # <<>> => Level(th, Depth(th)) = Top(th)
  BY <1>1, TopLevel
<1>3. ASSUME NEW h \in Threads, NEW k \in Levels(h), Level(h, k).pc = "run"
      PROVE  \/ k \in Levels(h)' /\ Level(h, k)' = Level(h, k)
             \/ /\ h = th /\ k = Depth(th) /\ Top(th) = Level(h, k)
                /\ \E outcome \in Outcomes : Finishes(th, outcome)
  <2>1. CASE UNCHANGED stack
    BY <2>1, SameLevels, Zenon
  <2>2. CASE Walks(th) \/ Claims(th, next_task)
    <3>1. \E fr : GoesOn(th, fr)
      BY <2>2, Zenon DEF Walks, Claims
    <3>2. stack[th] # <<>> /\ Top(th).pc # "run"
      BY <2>2, Zenon DEF Walks, Claims
    <3> QED
      BY <1>2, <1>3, <3>1, <3>2, Zenon DEF GoesOn
  <2>3. ASSUME NEW outcome \in Outcomes, Leaves(th, outcome)
        PROVE  k \in Levels(h)' /\ Level(h, k)' = Level(h, k)
    BY <1>2, <1>3, <2>3, Zenon DEF Leaves, Returns
  <2>4. ASSUME NEW outcome \in Outcomes, Finishes(th, outcome)
        PROVE  \/ k \in Levels(h)' /\ Level(h, k)' = Level(h, k)
               \/ h = th /\ k = Depth(th) /\ Top(th) = Level(h, k)
    BY <1>2, <2>4, Zenon DEF Finishes, Returns
  <2>5. ASSUME NEW t \in Tasks, Asks(th, t)
        PROVE  k \in Levels(h)' /\ Level(h, k)' = Level(h, k)
    BY <2>5, Zenon DEF Asks, Calls
  <2> QED
    BY <2>1, <2>2, <2>3, <2>4, <2>5, Zenon DEF ShapeOf, Evaluates, Ends, Spawns
<1>4. ASSUME NEW h \in Threads, NEW k \in Levels(h)', Level(h, k)'.pc = "run"
      PROVE  \/ k \in Levels(h) /\ Level(h, k)' = Level(h, k)
             \/ h = th /\ k = Depth(th) /\ Claims(th, next_task)
  <2>1. CASE NoneStarts
    BY <1>4, <2>1, Zenon DEF NoneStarts
  <2>2. CASE Claims(th, next_task)
    BY <2>2, Zenon DEF Claims, GoesOn
  <2> QED
    BY <1>1, <2>1, <2>2, OnlyClaimsStart, Zenon
<1> QED
  BY <1>3, <1>4, Zenon

\* The new evaluation of a claim.
LEMMA ClaimRuns ==
  ASSUME SInv, NEW th \in Threads, NEW t, Claims(th, t)
  PROVE  /\ t \in Tasks /\ task[t].phase = "Free"
         /\ Depth(th) \in Levels(th) /\ Depth(th) \in Levels(th)'
         /\ Level(th, Depth(th)) = Top(th)
         /\ Caller(th, Depth(th))' = Context(th) /\ Context(th) = Caller(th, Depth(th))
         /\ \E fr : /\ Level(th, Depth(th))' = fr /\ Depth(th)' = Depth(th)
                    /\ fr.pc = "run" /\ fr.task = t
                    /\ fr.fact = Top(th).fact /\ fr.tok = Top(th).tok
<1>1. stack[th] # <<>> /\ t \in Tasks /\ task[t].phase = "Free"
  BY Zenon DEF Claims
<1>2. TypeOK
  BY Zenon DEF SInv, RInv, Inv
<1>3. /\ Depth(th) \in Levels(th) /\ Context(th) = Caller(th, Depth(th))
      /\ Level(th, Depth(th)) = Top(th)
  BY <1>1, <1>2, TopLevel
<1>4. PICK fr : /\ GoesOn(th, fr) /\ fr.pc = "run" /\ fr.task = t
                /\ fr.fact = Top(th).fact /\ fr.tok = Top(th).tok
  BY Zenon DEF Claims
<1>5. /\ Levels(th)' = Levels(th) /\ Caller(th, Depth(th))' = Caller(th, Depth(th))
      /\ Level(th, Depth(th))' = fr /\ Depth(th)' = Depth(th)
  BY <1>3, <1>4, Zenon DEF GoesOn
<1> QED
  BY <1>1, <1>3, <1>4, <1>5, Zenon

-----------------------------------------------------------------------------
\* A task that is in use is evaluated somewhere.
TasksRun ==
  \A t \in Tasks : task[t].phase \notin {"Free", "Done"} =>
    \E h \in Threads : \E k \in Levels(h) : Level(h, k).pc = "run" /\ Level(h, k).task = t

LEMMA TasksRunStep ==
  ASSUME SInv, TasksRun, NEW th \in Threads, ShapeOf(th)
  PROVE  TasksRun'
<1> SUFFICES ASSUME NEW t \in Tasks, task'[t].phase \notin {"Free", "Done"}
             PROVE  \E h \in Threads : \E k \in Levels(h)' :
                      Level(h, k)'.pc = "run" /\ Level(h, k)'.task = t
  BY Zenon DEF TasksRun
<1>1. CASE Claims(th, t)
  <2>1. PICK fr : /\ Level(th, Depth(th))' = fr /\ Depth(th)' = Depth(th)
                  /\ fr.pc = "run" /\ fr.task = t
                  /\ fr.fact = Top(th).fact /\ fr.tok = Top(th).tok
    BY <1>1, ClaimRuns
  <2>2. Depth(th)' \in Levels(th)'
    BY <1>1, <2>1, ClaimRuns, Zenon
  <2> QED
    BY <2>1, <2>2, Zenon
<1>2. CASE ~Claims(th, t)
  <2>1. task[t].phase \notin {"Free", "Done"}
    <3>1. RInv /\ TypeOK
      BY Zenon DEF SInv, RInv, Inv
    <3>2. CASE RecordsKept(t)
      BY <3>2, Zenon DEF RecordsKept
    <3>3. CASE Evaluates(th) /\ t = Top(th).task
      BY <3>3 DEF Evaluates, Course
    <3>4. CASE Asks(th, t)
      BY <3>1, <3>4, AskKeeps, Zenon
    <3>5. ASSUME NEW outcome \in Outcomes, Leaves(th, outcome) \/ Finishes(th, outcome)
          PROVE  task[t].phase \notin {"Free", "Done"}
      BY <3>5, RecordsStep, Zenon DEF RecordsKept
    <3> QED
      BY <1>2, <3>2, <3>3, <3>4, <3>5, RecordsStep, Zenon
  <2>2. PICK h \in Threads : \E k \in Levels(h) :
           Level(h, k).pc = "run" /\ Level(h, k).task = t
    BY <2>1, Zenon DEF TasksRun
  <2>3. PICK k \in Levels(h) : Level(h, k).pc = "run" /\ Level(h, k).task = t
    BY <2>2
  <2>4. ASSUME NEW outcome, Finishes(th, outcome), Top(th) = Level(h, k)
        PROVE  FALSE
    <3>1. task'[Top(th).task].phase = "Done"
      BY <2>4, Zenon DEF Finishes
    <3> QED
      BY <2>3, <2>4, <3>1, Zenon
  <2>5. k \in Levels(h)' /\ Level(h, k)' = Level(h, k)
    BY <2>3, <2>4, RunsStay, Zenon
  <2> QED
    BY <2>3, <2>5, Zenon
<1> QED
  BY <1>1, <1>2

-----------------------------------------------------------------------------
\* The token of a request: a root's own, or the one that the calling task's
\* computation runs under; a task runs under itself or its runner's token.
TokensPassed ==
  \A h \in Threads : \A k \in Levels(h) :
    /\ Caller(h, k) = None => Level(h, k).tok = h /\ h \in Roots
    /\ Caller(h, k) # None => Level(h, k).tok = task[Caller(h, k)].tok
    /\ Level(h, k).pc = "run" =>
         \/ task[Level(h, k).task].tok = Level(h, k).task
         \/ task[Level(h, k).task].tok = Level(h, k).tok

LEMMA TokensPassedStep ==
  ASSUME SInv, TokensPassed, NEW th \in Threads, ShapeOf(th)
  PROVE  TokensPassed'
<1>1. RInv /\ TypeOK
  BY Zenon DEF SInv, RInv, Inv
<1>2. ASSUME NEW h \in Threads, NEW k \in Levels(h)', Stays(h, k)
      PROVE  /\ Caller(h, k)' = None => Level(h, k)'.tok = h /\ h \in Roots
             /\ Caller(h, k)' # None => Level(h, k)'.tok = task'[Caller(h, k)'].tok
  <2>1. k \in Levels(h) /\ Caller(h, k)' = Caller(h, k) /\ Level(h, k)'.tok = Level(h, k).tok
    BY <1>2, Zenon DEF Stays
  <2>2. ASSUME Caller(h, k) # None
        PROVE  task'[Caller(h, k)].tok = task[Caller(h, k)].tok
    <3>1. Caller(h, k) \in Tasks /\ task[Caller(h, k)].phase # "Free"
      BY <2>1, <2>2, CallerRecords
    <3> QED
      BY <3>1, FactsStay, Zenon
  <2> QED
    BY <2>1, <2>2, Zenon DEF TokensPassed
<1>3. ASSUME NEW h \in Threads, NEW k \in Levels(h)', ~Stays(h, k)
      PROVE  Caller(h, k)' # None /\ Level(h, k)'.tok = task'[Caller(h, k)'].tok
  <2>1. PICK t \in Tasks : Asks(th, t)
    BY <1>3, LevelsStay, Zenon
  <2>2. h = th /\ k = Depth(th)'
    BY <1>3, LevelsStay, Zenon
  <2>3. PICK fr : Calls(th, fr, t) /\ fr.tok = task[t].tok
    BY <2>1, Zenon DEF Asks
  <2>4. Level(h, k)' = fr /\ Caller(h, k)' = t
    BY <2>2, <2>3, Zenon DEF Calls
  <2>5. task'[t].tok = task[t].tok /\ t # None
    BY <1>1, <2>1, AskKeeps, NoTask, Zenon
  <2> QED
    BY <2>3, <2>4, <2>5, Zenon
<1>4. ASSUME NEW h \in Threads, NEW k \in Levels(h)', Level(h, k)'.pc = "run"
      PROVE  \/ task'[Level(h, k)'.task].tok = Level(h, k)'.task
             \/ task'[Level(h, k)'.task].tok = Level(h, k)'.tok
  <2>1. CASE k \in Levels(h) /\ Level(h, k)' = Level(h, k)
    <3>1. Level(h, k).pc = "run"
      BY <1>4, <2>1, Zenon
    <3>2. Level(h, k).task \in Tasks /\ task[Level(h, k).task].phase # "Free"
      BY <1>1, <2>1, <3>1, RunLevel, Zenon
    <3>3. task'[Level(h, k).task].tok = task[Level(h, k).task].tok
      BY <3>2, FactsStay, Zenon
    <3> QED
      BY <2>1, <3>1, <3>3, Zenon DEF TokensPassed
  <2>2. CASE h = th /\ k = Depth(th) /\ Claims(th, next_task)
    <3>1. PICK fr : /\ Level(th, Depth(th))' = fr /\ Depth(th)' = Depth(th)
                    /\ fr.pc = "run" /\ fr.task = next_task
                    /\ fr.fact = Top(th).fact /\ fr.tok = Top(th).tok
      BY <2>2, ClaimRuns
    <3>2. Level(h, k)' = fr
      BY <2>2, <3>1, Zenon
    <3>3. PICK tok \in {next_task, Top(th).tok} :
             task'[next_task] = NewTask(Top(th).fact, tok)
      BY <2>2, Zenon DEF Claims
    <3>4. task'[next_task].tok = tok
      BY <3>3 DEF NewTask
    <3> QED
      BY <3>1, <3>2, <3>3, <3>4, Zenon
  <2> QED
    BY <1>4, <2>1, <2>2, RunsStay, Zenon
<1> QED
  BY <1>2, <1>3, <1>4, Zenon DEF TokensPassed

-----------------------------------------------------------------------------
\* Evaluations nest: among any tasks there is one that is not evaluated on
\* behalf of another of them, and one not under the token of another of them.
Nested ==
  \A X \in SUBSET Tasks : X # {} =>
    \E u \in X : \A h \in Threads : \A k \in Levels(h) :
      (Level(h, k).pc = "run" /\ Level(h, k).task = u) => Caller(h, k) \notin X
TokensNested ==
  \A X \in SUBSET Tasks : X # {} =>
    \E u \in X : \A h \in Threads : \A k \in Levels(h) :
      (Level(h, k).pc = "run" /\ Level(h, k).task = u) => Level(h, k).tok \notin X

LEMMA NestedStep ==
  ASSUME SInv, Nested, NEW th \in Threads, ShapeOf(th)
  PROVE  Nested'
<1> SUFFICES ASSUME NEW X \in SUBSET Tasks, X # {}
             PROVE  \E u \in X : \A h \in Threads : \A k \in Levels(h)' :
                      (Level(h, k)'.pc = "run" /\ Level(h, k)'.task = u)
                        => Caller(h, k)' \notin X
  BY Zenon DEF Nested
<1>1. ASSUME NEW h \in Threads, NEW k \in Levels(h)', Level(h, k)'.pc = "run"
      PROVE  Caller(h, k)' = Caller(h, k) /\ k \in Levels(h)
  <2>1. k \in Levels(h)
    <3>1. CASE h = th /\ k = Depth(th) /\ Claims(th, next_task)
      BY <3>1, ClaimRuns, Zenon
    <3> QED
      BY <1>1, <3>1, RunsStay, Zenon
  <2>2. Stays(h, k) \/ (h = th /\ k = Depth(th)' /\ \E t \in Tasks : Asks(th, t))
    BY LevelsStay, Zenon
  <2>3. ASSUME NEW t \in Tasks, Asks(th, t), h = th, k = Depth(th)'
        PROVE  FALSE
    <3>1. PICK fr : Calls(th, fr, t)
      BY <2>3, Zenon DEF Asks
    <3> QED
      BY <2>1, <2>3, <3>1, Zenon DEF Calls
  <2> QED
    BY <2>1, <2>2, <2>3, Zenon DEF Stays
<1>2. CASE ~Claims(th, next_task)
  <2>1. PICK u \in X : \A h \in Threads : \A k \in Levels(h) :
          (Level(h, k).pc = "run" /\ Level(h, k).task = u) => Caller(h, k) \notin X
    BY Zenon DEF Nested
  <2>2. ASSUME NEW h \in Threads, NEW k \in Levels(h)',
               Level(h, k)'.pc = "run", Level(h, k)'.task = u
        PROVE  Caller(h, k)' \notin X
    <3>1. Level(h, k)' = Level(h, k) /\ k \in Levels(h)
      BY <1>2, <2>2, RunsStay, Zenon
    <3>2. Caller(h, k)' = Caller(h, k)
      BY <1>1, <2>2
    <3> QED
      BY <2>1, <2>2, <3>1, <3>2, Zenon
  <2> QED
    BY <2>2, Zenon
<1>3. CASE Claims(th, next_task)
  <2> DEFINE t == next_task
             Y == X \ {t}
  <2>1. /\ t \in Tasks /\ task[t].phase = "Free" /\ Depth(th) \in Levels(th)
        /\ Context(th) = Caller(th, Depth(th)) /\ Caller(th, Depth(th))' = Context(th)
    BY <1>3, ClaimRuns, Zenon
  <2>2. \E fr : /\ Level(th, Depth(th))' = fr /\ Depth(th)' = Depth(th)
                /\ fr.pc = "run" /\ fr.task = t
                /\ fr.fact = Top(th).fact /\ fr.tok = Top(th).tok
    BY <1>3, ClaimRuns
  <2>3. ASSUME NEW h \in Threads, NEW k \in Levels(h)
        PROVE  Caller(h, k) # t
    <3>1. t # None
      BY <2>1, NoTask
    <3> QED
      BY <2>1, <3>1, CallerRecords
  <2> HIDE DEF t
  <2>4. CASE Y = {}
    <3>1. X = {t}
      BY <2>4, Zenon
    <3>2. \A h \in Threads : \A k \in Levels(h)' :
            Level(h, k)'.pc = "run" => Caller(h, k)' # t
      BY <1>1, <2>3, Zenon
    <3> QED
      BY <3>1, <3>2, Zenon
  <2>5. CASE Y # {}
    <3>1. PICK u \in Y : \A h \in Threads : \A k \in Levels(h) :
            (Level(h, k).pc = "run" /\ Level(h, k).task = u) => Caller(h, k) \notin Y
      BY <2>5, Zenon DEF Nested
    <3>2. ASSUME NEW h \in Threads, NEW k \in Levels(h)',
                 Level(h, k)'.pc = "run", Level(h, k)'.task = u
          PROVE  Caller(h, k)' \notin X
      <4>1. Caller(h, k)' = Caller(h, k) /\ k \in Levels(h)
        BY <1>1, <3>2
      <4>2. ~(h = th /\ k = Depth(th))
        <5>1. u # t
          BY Zenon
        <5> QED
          BY <2>2, <3>2, <5>1, Zenon
      <4>3. Level(h, k)' = Level(h, k)
        BY <3>2, <4>2, RunsStay, Zenon
      <4> QED
        BY <2>3, <3>1, <3>2, <4>1, <4>3, Zenon
    <3>3. u \in X
      BY Zenon
    <3> QED
      BY <3>2, <3>3, Zenon
  <2> QED
    BY <2>4, <2>5
<1> QED
  BY <1>2, <1>3

\* The token of a request that is a task belongs to a computation that goes on:
\* following the callers of requests under it leads to that computation.
LEMMA TokenRecords ==
  ASSUME SInv, TokensPassed, Nested, TasksRun,
         NEW h \in Threads, NEW k \in Levels(h), Level(h, k).tok \in Tasks
  PROVE  task[Level(h, k).tok].phase \in {"Recording", "Joining"}
<1> DEFINE u == Level(h, k).tok
           X == {c \in Tasks : /\ task[c].phase \notin {"Free", "Done"}
                               /\ c # u /\ task[c].tok = u}
<1> SUFFICES ASSUME task[u].phase \notin {"Recording", "Joining"}
             PROVE  FALSE
  BY Zenon
<1>1. ASSUME NEW g \in Threads, NEW j \in Levels(g), Level(g, j).tok = u
      PROVE  Caller(g, j) \in X
  <2>1. Caller(g, j) # None
    BY <1>1, FactQueryAssumption, Zenon DEF TokensPassed
  <2>2. Caller(g, j) \in Tasks /\ task[Caller(g, j)].phase \in {"Recording", "Joining"}
    BY <2>1, CallerRecords
  <2>3. task[Caller(g, j)].tok = u
    BY <1>1, <2>1, Zenon DEF TokensPassed
  <2>4. task[Caller(g, j)].phase \notin {"Free", "Done"}
    BY <2>2
  <2>5. Caller(g, j) # u
    BY <2>2, Zenon
  <2> HIDE DEF u
  <2> QED
    BY <2>2, <2>3, <2>4, <2>5, Zenon
<1>2. X # {} /\ X \in SUBSET Tasks
  BY <1>1, Zenon
<1>3. PICK c \in X : \A g \in Threads : \A j \in Levels(g) :
        (Level(g, j).pc = "run" /\ Level(g, j).task = c) => Caller(g, j) \notin X
  <2> HIDE DEF X
  <2> QED
    BY <1>2, Zenon DEF Nested
<1>4. /\ c \in Tasks /\ task[c].phase \notin {"Free", "Done"}
      /\ c # u /\ task[c].tok = u
  BY <1>3, Zenon
<1> HIDE DEF X, u
<1>5. PICK g \in Threads : \E j \in Levels(g) : Level(g, j).pc = "run" /\ Level(g, j).task = c
  BY <1>4, Zenon DEF TasksRun
<1>6. PICK j \in Levels(g) : Level(g, j).pc = "run" /\ Level(g, j).task = c
  BY <1>5
<1>7. Level(g, j).tok = u
  BY <1>4, <1>6, Zenon DEF TokensPassed
<1> QED
  BY <1>1, <1>3, <1>6, <1>7, Zenon

LEMMA TokensNestedStep ==
  ASSUME SInv, TokensPassed, Nested, TasksRun, TokensNested, NEW th \in Threads, ShapeOf(th)
  PROVE  TokensNested'
<1> SUFFICES ASSUME NEW X \in SUBSET Tasks, X # {}
             PROVE  \E u \in X : \A h \in Threads : \A k \in Levels(h)' :
                      (Level(h, k)'.pc = "run" /\ Level(h, k)'.task = u)
                        => Level(h, k)'.tok \notin X
  BY Zenon DEF TokensNested
<1>1. CASE ~Claims(th, next_task)
  <2>1. PICK u \in X : \A h \in Threads : \A k \in Levels(h) :
          (Level(h, k).pc = "run" /\ Level(h, k).task = u) => Level(h, k).tok \notin X
    BY Zenon DEF TokensNested
  <2>2. \A h \in Threads : \A k \in Levels(h)' :
          Level(h, k)'.pc = "run" => Level(h, k)' = Level(h, k) /\ k \in Levels(h)
    BY <1>1, RunsStay, Zenon
  <2>3. ASSUME NEW h \in Threads, NEW k \in Levels(h)',
               Level(h, k)'.pc = "run", Level(h, k)'.task = u
        PROVE  Level(h, k)'.tok \notin X
    BY <2>1, <2>2, <2>3, Zenon
  <2> QED
    BY <2>3, Zenon
<1>2. CASE Claims(th, next_task)
  <2> DEFINE t == next_task
             Y == X \ {t}
  <2>1. /\ t \in Tasks /\ task[t].phase = "Free" /\ Depth(th) \in Levels(th)
        /\ Level(th, Depth(th)) = Top(th)
    BY <1>2, ClaimRuns, Zenon
  <2>2. \E fr : /\ Level(th, Depth(th))' = fr /\ Depth(th)' = Depth(th)
                /\ fr.pc = "run" /\ fr.task = t
                /\ fr.fact = Top(th).fact /\ fr.tok = Top(th).tok
    BY <1>2, ClaimRuns
  <2>3. ASSUME NEW h \in Threads, NEW k \in Levels(h)
        PROVE  Level(h, k).tok # t
    BY <2>1, TokenRecords
  <2> HIDE DEF t
  <2>4. ASSUME NEW h \in Threads, NEW k \in Levels(h)', Level(h, k)'.pc = "run"
        PROVE  Level(h, k)'.tok # t
    <3>1. CASE h = th /\ k = Depth(th)
      BY <2>1, <2>2, <2>3, <3>1, Zenon
    <3>2. CASE ~(h = th /\ k = Depth(th))
      <4>1. k \in Levels(h) /\ Level(h, k)' = Level(h, k)
        BY <2>4, <3>2, RunsStay, Zenon
      <4> QED
        BY <2>3, <4>1, Zenon
    <3> QED
      BY <3>1, <3>2
  <2>5. CASE Y = {}
    <3>1. X = {t}
      BY <2>5, Zenon
    <3> QED
      BY <2>4, <3>1, Zenon
  <2>6. CASE Y # {}
    <3>1. PICK u \in Y : \A h \in Threads : \A k \in Levels(h) :
            (Level(h, k).pc = "run" /\ Level(h, k).task = u) => Level(h, k).tok \notin Y
      BY <2>6, Zenon DEF TokensNested
    <3>2. ASSUME NEW h \in Threads, NEW k \in Levels(h)',
                 Level(h, k)'.pc = "run", Level(h, k)'.task = u
          PROVE  Level(h, k)'.tok \notin X
      <4>1. ~(h = th /\ k = Depth(th))
        <5>1. u # t
          BY Zenon
        <5> QED
          BY <2>2, <3>2, <5>1, Zenon
      <4>2. k \in Levels(h) /\ Level(h, k)' = Level(h, k)
        BY <3>2, <4>1, RunsStay, Zenon
      <4> QED
        BY <2>4, <3>1, <3>2, <4>2, Zenon
    <3>3. u \in X
      BY Zenon
    <3> QED
      BY <3>2, <3>3, Zenon
  <2> QED
    BY <2>5, <2>6
<1> QED
  BY <1>1, <1>2

-----------------------------------------------------------------------------
\* Tokens none of which is a cancelled root, with the tokens of their runners.
KeepGoing(S) ==
  /\ S \cap cancelled = {}
  /\ \A h \in Threads : \A k \in Levels(h) :
       (Level(h, k).pc = "run" /\ Level(h, k).task \in S) => Level(h, k).tok \in S

\* From this token, the tokens of the runners lead to a cancelled root.
Doomed(tok) == \A S \in SUBSET Tokens : tok \in S => ~KeepGoing(S)

\* A computation that hears of a cancellation was run for a cancelled root.
ErrorsDoomed ==
  \A h \in Threads : \A k \in Levels(h) :
    (Level(h, k).pc = "run" /\ "Cancelled" \in task[Level(h, k).task].errors)
      => Doomed(Level(h, k).tok)

\* The runner of a task has registered its interest in the task.
RunnersRegistered ==
  \A h \in Threads : \A k \in Levels(h) :
    Level(h, k).pc = "run" => <<h, Level(h, k).tok>> \in interests[Level(h, k).task]

\* A root whose token is doomed is cancelled.
LEMMA DoomedRoot ==
  ASSUME TypeOK, NEW r \in Roots, Doomed(r)
  PROVE  r \in cancelled
<1> SUFFICES ASSUME r \notin cancelled
             PROVE  FALSE
  OBVIOUS
<1>1. {r} \in SUBSET Tokens
  BY Zenon DEF Tokens
<1>2. ASSUME NEW h \in Threads, NEW k \in Levels(h), Level(h, k).pc = "run"
      PROVE  Level(h, k).task \notin {r}
  <2>1. Level(h, k) \in Frame
    BY LevelType, Zenon
  <2>2. Level(h, k).task \in Tasks
    BY <1>2, <2>1 DEF Frame, FreePcs, TaskPcs
  <2> QED
    BY <2>2, FactQueryAssumption, Zenon
<1>3. KeepGoing({r})
  BY <1>2, Zenon DEF KeepGoing
<1> QED
  BY <1>1, <1>3, Zenon DEF Doomed

\* A doomed task has a doomed runner.
LEMMA DoomedRunner ==
  ASSUME SInv, NEW h \in Threads, NEW k \in Levels(h), Level(h, k).pc = "run",
         Doomed(Level(h, k).task)
  PROVE  Doomed(Level(h, k).tok)
<1> DEFINE u == Level(h, k).task
<1> SUFFICES ASSUME NEW S \in SUBSET Tokens, Level(h, k).tok \in S, KeepGoing(S)
             PROVE  FALSE
  BY Zenon DEF Doomed
<1>1. u \in Tasks
  BY RunLevel, Zenon DEF SInv
<1>2. u \notin cancelled
  <2>1. cancelled \subseteq Roots
    BY Zenon DEF SInv, RInv, Inv, TypeOK
  <2> QED
    BY <1>1, <2>1, FactQueryAssumption, Zenon
<1>3. ASSUME NEW g \in Threads, NEW j \in Levels(g), Level(g, j).pc = "run",
             Level(g, j).task = u
      PROVE  Level(g, j).tok \in S
  <2>1. g = h /\ j = k
    BY <1>3, Zenon DEF SInv, OneRunner
  <2> QED
    BY <2>1, Zenon
<1> HIDE DEF u
<1>4. KeepGoing(S \cup {u})
  BY <1>2, <1>3, Zenon DEF KeepGoing
<1>5. S \cup {u} \in SUBSET Tokens
  BY <1>1, Zenon DEF Tokens
<1> QED
  BY <1>4, <1>5, Zenon DEF Doomed, u

-----------------------------------------------------------------------------
\* A level is changed only by the step of its own request.
LEMMA LevelChanges ==
  ASSUME SInv, NEW th \in Threads, ShapeOf(th),
         NEW h \in Threads, NEW k \in Levels(h), k \in Levels(h)', Level(h, k)' # Level(h, k)
  PROVE  /\ h = th /\ k = Depth(th) /\ stack[th] # <<>> /\ Level(th, Depth(th)) = Top(th)
         /\ Walks(th) \/ Claims(th, next_task)
<1>1. ~UNCHANGED stack
  BY SameLevels, Zenon
<1>2. ASSUME NEW outcome, Returns(th)
      PROVE  FALSE
  BY <1>2, Zenon DEF Returns
<1>3. ASSUME NEW t, Asks(th, t)
      PROVE  FALSE
  BY <1>3, Zenon DEF Asks, Calls
<1>4. Walks(th) \/ Claims(th, next_task)
  BY <1>1, <1>2, <1>3, Zenon DEF ShapeOf, Evaluates, Ends, Spawns, Leaves, Finishes
<1>5. stack[th] # <<>> /\ \E fr : GoesOn(th, fr)
  BY <1>4, Zenon DEF Walks, Claims
<1>6. h = th /\ k = Depth(th)
  BY <1>5, Zenon DEF GoesOn
<1>7. TypeOK
  BY Zenon DEF SInv, RInv, Inv
<1> QED
  BY <1>4, <1>5, <1>6, <1>7, TopLevel, Zenon

\* A request that got past the local cycle check asks for a fact that is not
\* under evaluation further out on its thread.
NoRepeat ==
  \A h \in Threads : \A k \in Levels(h) : Level(h, k).pc # "request" =>
    /\ Level(h, k).fact \notin base[h].facts
    /\ \A j \in Levels(h) : j < k => Level(h, j).fact # Level(h, k).fact

\* What is further out on a thread is under evaluation.
LEMMA OuterEvaluating ==
  ASSUME TypeOK, NEW th \in Threads
  PROVE  /\ base[th].facts \subseteq Evaluating(th)
         /\ \A j \in Levels(th) : j < Depth(th) => Level(th, j).fact \in Evaluating(th)
<1>1. Depth(th) \in Nat /\ Levels(th) = 1..Depth(th) /\ Depth(th) = Len(stack[th])
  BY DepthType DEF Depth
<1>2. ASSUME NEW j \in Levels(th), j < Depth(th)
      PROVE  Level(th, j).fact \in Evaluating(th)
  <2> DEFINE i == Len(stack[th]) + 1 - j
  <2>1. i \in 2..Len(stack[th])
    BY <1>1, <1>2
  <2>2. Level(th, j) = stack[th][i]
    BY Zenon DEF Level
  <2> HIDE DEF i
  <2> QED
    BY <2>1, <2>2, Zenon DEF Evaluating
<1> QED
  BY <1>2, Zenon DEF Evaluating

LEMMA NoRepeatStep ==
  ASSUME SInv, TypeOK', NoRepeat, NEW th \in Threads, ShapeOf(th)
  PROVE  NoRepeat'
<1> SUFFICES ASSUME NEW h \in Threads, NEW k \in Levels(h)', Level(h, k)'.pc # "request"
             PROVE  /\ Level(h, k)'.fact \notin base'[h].facts
                    /\ \A j \in Levels(h)' : j < k => Level(h, j)'.fact # Level(h, k)'.fact
  BY Zenon DEF NoRepeat
<1>1. TypeOK
  BY Zenon DEF SInv, RInv, Inv
<1>2. /\ Depth(h)' \in Nat /\ Levels(h)' = 1..Depth(h)'
      /\ stack'[h] = <<>> => Levels(h)' = {}
  <2>1. stack'[h] \in Seq(Frame)
    BY Zenon DEF TypeOK
  <2> QED
    BY <2>1 DEF Depth, Levels
<1>3. Stays(h, k)
  <2>1. ASSUME NEW t \in Tasks, Asks(th, t), h = th, k = Depth(th)'
        PROVE  FALSE
    <3>1. PICK fr : Calls(th, fr, t) /\ fr.pc = "request"
      BY <2>1, Zenon DEF Asks
    <3> QED
      BY <2>1, <3>1, Zenon DEF Calls
  <2> QED
    BY <2>1, LevelsStay, Zenon
<1>4. ASSUME NEW j \in Levels(h)', j < k
      PROVE  Stays(h, j)
  <2>1. j # Depth(h)'
    BY <1>2, <1>4
  <2> QED
    BY <2>1, LevelsStay, Zenon
<1>5. base'[h] = base[h]
  <2>1. stack'[h] # <<>>
    BY <1>2, Zenon
  <2> QED
    BY <2>1, LanesStep, Zenon
<1>6. /\ Level(h, k).fact \notin base[h].facts
      /\ \A j \in Levels(h) : j < k => Level(h, j).fact # Level(h, k).fact
  <2>1. CASE Level(h, k).pc # "request"
    BY <1>3, <2>1, Zenon DEF NoRepeat, Stays
  <2>2. CASE Level(h, k).pc = "request"
    <3>1. /\ h = th /\ k = Depth(th) /\ Level(th, Depth(th)) = Top(th)
          /\ Walks(th) \/ Claims(th, next_task)
      <4>1. k \in Levels(h) /\ Level(h, k)' # Level(h, k)
        BY <1>3, <2>2, Zenon DEF Stays
      <4> QED
        BY <4>1, LevelChanges, Zenon
    <3>2. Top(th).fact \notin Evaluating(th)
      BY <2>2, <3>1, Zenon DEF Walks, Claims
    <3> QED
      BY <1>1, <3>1, <3>2, OuterEvaluating, Zenon
  <2> QED
    BY <2>1, <2>2
<1> QED
  BY <1>3, <1>4, <1>5, <1>6, Zenon DEF Stays

-----------------------------------------------------------------------------
\* A computing cell names the task that was started for its fact, and a request
\* waits for a task that was started for the fact it asks for.
CellOwned ==
  \A f \in Facts : cell[f].st = "Computing" =>
    task[cell[f].task].fact = f /\ task[cell[f].task].phase # "Free"
WaitsOwner ==
  \A h \in Threads : \A k \in Levels(h) : Level(h, k).pc \in WaitPcs =>
    /\ task[Level(h, k).task].fact = Level(h, k).fact
    /\ task[Level(h, k).task].phase # "Free"

\* Only a claim makes a cell computing.
LEMMA NewComputing ==
  ASSUME TypeOK, [Next]_vars, NEW f \in Facts, cell'[f].st = "Computing",
         cell'[f] # cell[f]
  PROVE  \E th \in Threads : Claim(th) /\ cell[Top(th).fact].st = "Vacant" /\ f = Top(th).fact
<1>1. cell \in [Facts -> Cell]
  BY Zenon DEF TypeOK
<1>2. ASSUME UNCHANGED cell
      PROVE  FALSE
  BY <1>2, Zenon
<1>3. ASSUME NEW th \in Threads, Claim(th)
      PROVE  cell[Top(th).fact].st = "Vacant" /\ f = Top(th).fact
  <2>1. /\ cell[Top(th).fact].st = "Vacant"
        /\ cell' = [cell EXCEPT ![Top(th).fact] = [st |-> "Computing", task |-> next_task]]
    BY <1>2, <1>3, Zenon DEF Claim
  <2> QED
    BY <1>1, <2>1, Zenon
<1>4. ASSUME NEW g, NEW st, st # "Computing", cell' = [cell EXCEPT ![g].st = st]
      PROVE  FALSE
  <2>1. cell'[f].st = st \/ cell'[f] = cell[f]
    BY <1>1, <1>4 DEF Cell
  <2> QED
    BY <1>4, <2>1, Zenon
<1>5. ASSUME NEW th \in Threads, ThreadStep(th)
      PROVE  Claim(th)
  <2>1. CASE Request(th) \/ Check(th) \/ Look(th) \/ Admit(th) \/ WaitFor(th)
    BY <1>2, <2>1, Zenon DEF Request, Check, Look, Admit, WaitFor
  <2>2. CASE RegisterInterest(th) \/ Unwait(th) \/ DropInterest(th) \/ Begin(th)
    BY <1>2, <2>2, Zenon DEF RegisterInterest, Unwait, DropInterest, Begin
  <2>3. CASE Suspend(th) \/ Resume(th) \/ Compute(th) \/ Fail(th) \/ CheckShared(th)
    BY <1>2, <2>3, Zenon DEF Suspend, Resume, Compute, Fail, CheckShared
  <2>4. CASE Deliver(th) \/ Abandon(th) \/ LaneEnds(th) \/ \E t \in Tasks : Call(th, t)
    BY <1>2, <2>4, Zenon DEF Deliver, Abandon, LaneEnds, Call
  <2>5. CASE Commit(th)
    <3>1. "Publishing" # "Computing"
      OBVIOUS
    <3> QED
      BY <1>4, <2>5, <3>1, Zenon DEF Commit
  <2>6. CASE Publish(th)
    <3>1. "Ready" # "Computing"
      OBVIOUS
    <3> QED
      BY <1>4, <2>6, <3>1, Zenon DEF Publish
  <2>7. CASE Vacate(th)
    <3>1. cell' = [cell EXCEPT ![task[Top(th).task].fact] = [st |-> "Vacant", task |-> None]]
      BY <2>7, Zenon DEF Vacate
    <3>2. cell'[f] = [st |-> "Vacant", task |-> None] \/ cell'[f] = cell[f]
      BY <1>1, <3>1, Zenon
    <3> QED
      BY <3>2
  <2> QED
    BY <1>5, <2>1, <2>2, <2>3, <2>4, <2>5, <2>6, <2>7, Zenon DEF ThreadStep
<1>6. ASSUME NEW th, NEW t, NEW h, SpawnLane(th, t, h)
      PROVE  FALSE
  BY <1>2, <1>6, Zenon DEF SpawnLane
<1>7. ASSUME NEW r, Cancel(r)
      PROVE  FALSE
  BY <1>2, <1>7, Zenon DEF Cancel
<1>8. ASSUME UNCHANGED vars
      PROVE  FALSE
  BY <1>2, <1>8, Zenon DEF vars
<1> QED
  BY <1>3, <1>5, <1>6, <1>7, <1>8, Zenon DEF Next

LEMMA CellOwnedStep ==
  ASSUME SInv, CellOwned, TypeOK', [Next]_vars
  PROVE  CellOwned'
<1> SUFFICES ASSUME NEW f \in Facts, cell'[f].st = "Computing"
             PROVE  task'[cell'[f].task].fact = f /\ task'[cell'[f].task].phase # "Free"
  BY Zenon DEF CellOwned
<1>1. Inv /\ TypeOK
  BY Zenon DEF SInv, RInv, Inv
<1>2. CASE cell'[f] = cell[f]
  <2>1. task[cell[f].task].fact = f /\ task[cell[f].task].phase # "Free"
    BY <1>2, Zenon DEF CellOwned
  <2>2. cell[f].task \in Tasks
    <3>1. cell[f] \in Cell
      BY <1>1, Zenon DEF TypeOK
    <3> QED
      BY <1>2, <3>1 DEF Cell
  <2>3. ASSUME NEW th \in Threads, ShapeOf(th)
        PROVE  /\ task'[cell[f].task].fact = task[cell[f].task].fact
               /\ task'[cell[f].task].phase # "Free"
    BY <2>1, <2>2, <2>3, FactsStay, Zenon
  <2>4. CASE UNCHANGED task
    BY <1>2, <2>1, <2>4, Zenon
  <2> QED
    BY <1>1, <1>2, <2>1, <2>3, <2>4, StepShape, Zenon
<1>3. CASE cell'[f] # cell[f]
  <2>1. PICK th \in Threads : Claim(th) /\ cell[Top(th).fact].st = "Vacant" /\ f = Top(th).fact
    BY <1>1, <1>3, NewComputing, Zenon
  <2>2. /\ next_task \in Tasks
        /\ cell' = [cell EXCEPT ![f] = [st |-> "Computing", task |-> next_task]]
        /\ \E tok : task' = [task EXCEPT ![next_task] = NewTask(f, tok)]
    <3>1. ~(cell[f].st \in {"Computing", "Ready"})
      BY <2>1
    <3> QED
      BY <2>1, <3>1, Zenon DEF Claim
  <2>3. cell'[f] = [st |-> "Computing", task |-> next_task]
    BY <1>1, <2>2, Zenon DEF TypeOK
  <2>4. PICK tok : task'[next_task] = NewTask(f, tok)
    BY <1>1, <2>2, Zenon DEF TypeOK
  <2> QED
    BY <2>3, <2>4 DEF NewTask
<1> QED
  BY <1>2, <1>3

LEMMA WaitsOwnerStep ==
  ASSUME SInv, CellOwned, WaitsOwner, NEW th \in Threads, ShapeOf(th)
  PROVE  WaitsOwner'
<1> SUFFICES ASSUME NEW h \in Threads, NEW k \in Levels(h)', Level(h, k)'.pc \in WaitPcs
             PROVE  /\ task'[Level(h, k)'.task].fact = Level(h, k)'.fact
                    /\ task'[Level(h, k)'.task].phase # "Free"
  BY Zenon DEF WaitsOwner, WaitPcs
<1>1. TypeOK
  BY Zenon DEF SInv, RInv, Inv
<1>2. Stays(h, k)
  <2>1. ASSUME NEW t \in Tasks, Asks(th, t), h = th, k = Depth(th)'
        PROVE  FALSE
    <3>1. PICK fr : Calls(th, fr, t) /\ fr.pc = "request"
      BY <2>1, Zenon DEF Asks
    <3>2. Level(h, k)'.pc = "request"
      BY <2>1, <3>1, Zenon DEF Calls
    <3> QED
      BY <3>2 DEF WaitPcs
  <2> QED
    BY <2>1, LevelsStay, Zenon
<1>3. ASSUME NEW g \in Threads, NEW j \in Levels(g), Level(g, j).pc \in WaitPcs
      PROVE  /\ Level(g, j).task \in Tasks
             /\ task'[Level(g, j).task].fact = Level(g, j).fact
             /\ task'[Level(g, j).task].phase # "Free"
  <2>1. Level(g, j) \in Frame
    BY <1>1, LevelType, Zenon
  <2>2. Level(g, j).task \in Tasks
    BY <1>3, <2>1 DEF Frame, FreePcs, WaitPcs
  <2>3. /\ task[Level(g, j).task].fact = Level(g, j).fact
        /\ task[Level(g, j).task].phase # "Free"
    BY <1>3, Zenon DEF WaitsOwner
  <2> QED
    BY <2>2, <2>3, FactsStay, Zenon
<1>4. CASE Level(h, k)' = Level(h, k)
  BY <1>2, <1>3, <1>4, Zenon DEF Stays
<1>5. CASE Level(h, k)' # Level(h, k)
  <2>1. /\ h = th /\ k = Depth(th) /\ stack[th] # <<>> /\ Level(th, Depth(th)) = Top(th)
        /\ Walks(th) \/ Claims(th, next_task)
    BY <1>2, <1>5, LevelChanges, Zenon DEF Stays
  <2>2. ASSUME Claims(th, next_task)
        PROVE  FALSE
    <3>1. Level(h, k)'.pc = "run"
      BY <2>1, <2>2, Zenon DEF Claims, GoesOn
    <3> QED
      BY <3>1 DEF WaitPcs
  <2>3. PICK fr \in Frame : /\ GoesOn(th, fr) /\ fr.fact = Top(th).fact
                            /\ fr.pc \in WaitPcs => WaitsFor(th, fr.task)
    BY <2>1, <2>2, Zenon DEF Walks
  <2>4. Level(h, k)' = fr
    BY <2>1, <2>3, Zenon DEF GoesOn
  <2>5. CASE Top(th).pc \in WaitPcs /\ Top(th).task = fr.task
    BY <1>2, <1>3, <2>1, <2>3, <2>4, <2>5, Zenon DEF Stays
  <2>6. CASE cell[Top(th).fact].st = "Computing" /\ cell[Top(th).fact].task = fr.task
    <3>1. Top(th).fact \in Facts
      BY <2>3 DEF Frame
    <3>2. task[fr.task].fact = Top(th).fact /\ task[fr.task].phase # "Free"
      BY <2>6, <3>1, Zenon DEF CellOwned
    <3>3. fr.task \in Tasks
      <4>1. fr.pc \in WaitPcs
        BY <2>4, Zenon
      <4> QED
        BY <2>3, <4>1 DEF Frame, FreePcs, WaitPcs
    <3> QED
      BY <2>3, <2>4, <3>2, <3>3, FactsStay, Zenon
  <2> QED
    BY <2>3, <2>4, <2>5, <2>6, Zenon DEF WaitsFor
<1> QED
  BY <1>4, <1>5

-----------------------------------------------------------------------------
LEMMA RunnersRegisteredStep ==
  ASSUME SInv, NoRepeat, WaitsOwner, RunnersRegistered, NEW th \in Threads, ShapeOf(th)
  PROVE  RunnersRegistered'
<1> SUFFICES ASSUME NEW h \in Threads, NEW k \in Levels(h)', Level(h, k)'.pc = "run"
             PROVE  <<h, Level(h, k)'.tok>> \in interests'[Level(h, k)'.task]
  BY Zenon DEF RunnersRegistered
<1>1. RInv /\ TypeOK /\ OneRunner
  BY Zenon DEF SInv, RInv, Inv
<1>2. interests \in [Tasks -> SUBSET (Threads \X Tokens)]
  BY <1>1, Zenon DEF TypeOK
<1>3. CASE k \in Levels(h) /\ Level(h, k)' = Level(h, k)
  <2> DEFINE u == Level(h, k).task
             i == <<h, Level(h, k).tok>>
  <2>1. Level(h, k).pc = "run"
    BY <1>3, Zenon
  <2>2. i \in interests[u]
    BY <1>3, <2>1, Zenon DEF RunnersRegistered
  <2>3. u \in Tasks /\ task[u].fact = Level(h, k).fact
    BY <1>1, <1>3, <2>1, RunLevel, Zenon
  <2> SUFFICES i \in interests'[u]
    BY <1>3, Zenon
  <2>4. CASE Walks(th)
    <3>1. CASE \A x \in Tasks : interests[x] \subseteq interests'[x]
      BY <2>2, <2>3, <3>1, Zenon
    <3>2. CASE Top(th).pc = "drop" /\ Unregister(Top(th).task, th, Top(th).tok)
      <4>1. /\ Depth(th) \in Levels(th) /\ Level(th, Depth(th)) = Top(th)
            /\ Depth(th) \in Nat /\ Levels(th) = 1..Depth(th)
        BY <1>1, <2>4, TopLevel, DepthType, Zenon DEF Walks
      <4>2. ASSUME h = th, u = Top(th).task
            PROVE  FALSE
        <5>1. Top(th).pc \in WaitPcs /\ Top(th).pc # "request" /\ Top(th).pc # "run"
          BY <3>2 DEF WaitPcs
        <5>2. task[u].fact = Top(th).fact
          BY <4>1, <4>2, <5>1, Zenon DEF WaitsOwner
        <5>3. k # Depth(th)
          BY <2>1, <4>1, <4>2, <5>1, Zenon
        <5>4. k < Depth(th)
          BY <1>3, <4>1, <4>2, <5>3
        <5> QED
          BY <1>3, <2>3, <4>1, <4>2, <5>1, <5>2, <5>4, Zenon DEF NoRepeat
      <4>3. h # th \/ u # Top(th).task
        BY <4>2, Zenon
      <4> HIDE DEF u
      <4>4. i # <<th, Top(th).tok>> \/ u # Top(th).task
        BY <4>3
      <4> QED
        BY <1>2, <2>2, <2>3, <3>2, <4>4 DEF Unregister
    <3> QED
      BY <2>4, <3>1, <3>2, Zenon DEF Walks, InterestsKept
  <2>5. CASE Claims(th, next_task)
    <3>1. interests' = [interests EXCEPT ![next_task] = @ \cup {<<th, Top(th).tok>>}]
      BY <2>5, Zenon DEF Claims, Register
    <3> HIDE DEF u, i
    <3> QED
      BY <1>2, <2>2, <2>3, <3>1, Zenon
  <2>6. ASSUME NEW outcome, Finishes(th, outcome)
        PROVE  i \in interests'[u]
    <3>1. /\ stack[th] # <<>> /\ Top(th).pc = "run" /\ Returns(th)
          /\ interests' = [interests EXCEPT ![Top(th).task] = @ \ {<<th, Top(th).tok>>}]
      BY <2>6, Zenon DEF Finishes, Unregister
    <3>2. Depth(th) \in Levels(th) /\ Level(th, Depth(th)) = Top(th)
      BY <1>1, <3>1, TopLevel, Zenon
    <3>3. ~(h = th /\ k = Depth(th))
      BY <3>1, Zenon DEF Returns
    <3>4. u # Top(th).task
      BY <1>1, <1>3, <2>1, <3>1, <3>2, <3>3, Zenon DEF OneRunner
    <3> HIDE DEF u, i
    <3> QED
      BY <1>2, <2>2, <2>3, <3>1, <3>4, Zenon
  <2>7. CASE UNCHANGED interests
    BY <2>2, <2>7, Zenon
  <2> HIDE DEF u, i
  <2> QED
    BY <2>4, <2>5, <2>6, <2>7, Zenon DEF ShapeOf, Evaluates, Ends, Leaves, Asks, Spawns
<1>4. CASE h = th /\ k = Depth(th) /\ Claims(th, next_task)
  <2>1. PICK fr : /\ Level(th, Depth(th))' = fr /\ Depth(th)' = Depth(th)
                  /\ fr.pc = "run" /\ fr.task = next_task
                  /\ fr.fact = Top(th).fact /\ fr.tok = Top(th).tok
    BY <1>4, ClaimRuns
  <2>2. Level(h, k)' = fr
    BY <1>4, <2>1, Zenon
  <2>3. /\ interests' = [interests EXCEPT ![next_task] = @ \cup {<<th, Top(th).tok>>}]
        /\ next_task \in Tasks
    BY <1>4, Zenon DEF Claims, Register
  <2>4. <<th, Top(th).tok>> \in interests'[next_task]
    BY <1>2, <2>3, Zenon
  <2> QED
    BY <1>4, <2>1, <2>2, <2>4, Zenon
<1> QED
  BY <1>3, <1>4, RunsStay, Zenon

-----------------------------------------------------------------------------
\* What the checks of a token in use see: if `is_cancelled' says so, the token's
\* runners lead to a cancelled root.
LEMMA CancelledDoomed ==
  ASSUME SInv, TokensPassed, Nested, TasksRun, TokensNested, RunnersRegistered,
         NEW tok, tok \in Tasks => task[tok].phase \notin {"Free", "Done"},
         IsCancelled(tok)
  PROVE  Doomed(tok)
<1> SUFFICES ASSUME NEW R \in SUBSET Tokens, tok \in R, KeepGoing(R)
             PROVE  FALSE
  BY Zenon DEF Doomed
<1>1. tok \notin cancelled
  BY Zenon DEF KeepGoing
<1>2. PICK S \in SUBSET Tasks :
        /\ tok \in S
        /\ \A u \in S : \A i \in interests[u] : i[2] \in S \cup cancelled
  BY <1>1, Zenon DEF IsCancelled
<1> DEFINE X == {u \in Tasks : u \in R /\ u \in S /\ task[u].phase \notin {"Free", "Done"}}
<1>3. tok \in X /\ X \in SUBSET Tasks
  BY <1>2, Zenon
<1>4. PICK u \in X : \A h \in Threads : \A k \in Levels(h) :
        (Level(h, k).pc = "run" /\ Level(h, k).task = u) => Level(h, k).tok \notin X
  <2> HIDE DEF X
  <2> QED
    BY <1>3, Zenon DEF TokensNested
<1>5. u \in Tasks /\ u \in R /\ u \in S /\ task[u].phase \notin {"Free", "Done"}
  BY <1>4, Zenon
<1>6. PICK h \in Threads : \E k \in Levels(h) : Level(h, k).pc = "run" /\ Level(h, k).task = u
  BY <1>5, Zenon DEF TasksRun
<1>7. PICK k \in Levels(h) : Level(h, k).pc = "run" /\ Level(h, k).task = u
  BY <1>6
<1> DEFINE v == Level(h, k).tok
<1>8. v \in R
  BY <1>5, <1>7, Zenon DEF KeepGoing
<1>9. <<h, v>> \in interests[u]
  BY <1>7, Zenon DEF RunnersRegistered
<1>10. v \in S \cup cancelled
  <2>1. <<h, v>>[2] = v
    OBVIOUS
  <2> QED
    BY <1>2, <1>5, <1>9, <2>1, Zenon
<1>11. v \in S
  BY <1>8, <1>10, Zenon DEF KeepGoing
<1>12. v \in Tasks /\ task[v].phase \in {"Recording", "Joining"}
  BY <1>2, <1>11, TokenRecords, Zenon
<1>13. task[v].phase \notin {"Free", "Done"}
  BY <1>12
<1>14. v \in X
  BY <1>8, <1>11, <1>12, <1>13, Zenon
<1> HIDE DEF X
<1> QED
  BY <1>4, <1>7, <1>14, Zenon

\* The token of a request stays doomed, cancellation being final: its runners
\* stay, since a computation that requests run under does not finish.
LEMMA DoomedStays ==
  ASSUME SInv, TokensPassed, Nested, TasksRun, NEW th \in Threads, ShapeOf(th),
         cancelled \subseteq cancelled',
         NEW h \in Threads, NEW k \in Levels(h), Doomed(Level(h, k).tok)
  PROVE  \A S \in SUBSET Tokens : Level(h, k).tok \in S => ~KeepGoing(S)'
<1> SUFFICES ASSUME NEW S \in SUBSET Tokens, Level(h, k).tok \in S, KeepGoing(S)'
             PROVE  FALSE
  BY Zenon
<1> DEFINE Gone(x) == \E outcome \in Outcomes : Finishes(th, outcome) /\ x = Top(th).task
           R == {x \in S : ~Gone(x)}
<1>1. S \cap cancelled' = {}
  BY Zenon DEF KeepGoing
<1>2. \A g \in Threads : \A j \in Levels(g)' :
        (Level(g, j)'.pc = "run" /\ Level(g, j)'.task \in S) => Level(g, j)'.tok \in S
  BY Zenon DEF KeepGoing
<1>3. ASSUME NEW g \in Threads, NEW j \in Levels(g)
      PROVE  ~Gone(Level(g, j).tok)
  <2> SUFFICES ASSUME NEW outcome \in Outcomes, Finishes(th, outcome),
                      Level(g, j).tok = Top(th).task
               PROVE  FALSE
    BY Zenon
  <2>1. /\ stack[th] # <<>> /\ Top(th).pc = "run"
        /\ task[Top(th).task].phase \in {"Published", "Abandoned"}
    BY Zenon DEF Finishes
  <2>2. Top(th).task \in Tasks
    BY <2>1, RunTop, Zenon DEF SInv
  <2>3. task[Top(th).task].phase \in {"Recording", "Joining"}
    <3>1. Level(g, j).tok \in Tasks
      BY <2>2, Zenon
    <3>2. task[Level(g, j).tok].phase \in {"Recording", "Joining"}
      BY <3>1, TokenRecords, Zenon
    <3> QED
      BY <3>2, Zenon
  <2> QED
    BY <2>1, <2>3
<1>4. ASSUME NEW g \in Threads, NEW j \in Levels(g), Level(g, j).pc = "run",
             Level(g, j).task \in R
      PROVE  Level(g, j).tok \in R
  <2>1. Level(g, j).task \in S /\ ~Gone(Level(g, j).task)
    BY <1>4, Zenon
  <2>2. j \in Levels(g)' /\ Level(g, j)' = Level(g, j)
    BY <1>4, <2>1, RunsStay, Zenon
  <2>3. Level(g, j).tok \in S
    BY <1>2, <1>4, <2>1, <2>2, Zenon
  <2> QED
    BY <1>3, <2>3, Zenon
<1>5. Level(h, k).tok \in R /\ R \in SUBSET Tokens
  BY <1>3, Zenon
<1>6. R \cap cancelled = {}
  BY <1>1, Zenon
<1> HIDE DEF R, Gone
<1>7. KeepGoing(R)
  BY <1>4, <1>6, Zenon DEF KeepGoing
<1> QED
  BY <1>5, <1>7, Zenon DEF Doomed

\* A request that returns Cancelled has a doomed token.
LEMMA AnswerDoomed ==
  ASSUME SInv, TokensPassed, Nested, TasksRun, TokensNested, RunnersRegistered,
         ErrorsDoomed, NEW th \in Threads,
         Leaves(th, "Cancelled") \/ Finishes(th, "Cancelled")
  PROVE  /\ stack[th] # <<>> /\ Depth(th) \in Levels(th)
         /\ Level(th, Depth(th)) = Top(th) /\ Context(th) = Caller(th, Depth(th))
         /\ Doomed(Top(th).tok)
<1>1. stack[th] # <<>> /\ TypeOK
  BY Zenon DEF Leaves, Finishes, SInv, RInv, Inv
<1>2. /\ Depth(th) \in Levels(th) /\ Level(th, Depth(th)) = Top(th)
      /\ Context(th) = Caller(th, Depth(th))
  BY <1>1, TopLevel
<1>3. CASE IsCancelled(Top(th).tok)
  <2>1. ASSUME Top(th).tok \in Tasks
        PROVE  task[Top(th).tok].phase \notin {"Free", "Done"}
    <3>1. Level(th, Depth(th)).tok \in Tasks
      BY <1>2, <2>1, Zenon
    <3>2. task[Level(th, Depth(th)).tok].phase \in {"Recording", "Joining"}
      BY <1>2, <3>1, TokenRecords, Zenon
    <3>3. task[Top(th).tok].phase \in {"Recording", "Joining"}
      BY <1>2, <3>2, Zenon
    <3> QED
      BY <3>3
  <2> QED
    BY <1>1, <1>2, <1>3, <2>1, CancelledDoomed, Zenon
<1>4. CASE ~IsCancelled(Top(th).tok)
  <2>1. "Cancelled" # "Ok"
    OBVIOUS
  <2>2. Top(th).pc = "run" /\ "Cancelled" \in task[Top(th).task].errors
    BY <1>4, <2>1, Zenon DEF Leaves, Finishes
  <2> QED
    BY <1>1, <1>2, <2>2, Zenon DEF ErrorsDoomed
<1> QED
  BY <1>3, <1>4

LEMMA ErrorsDoomedStep ==
  ASSUME SInv, TokensPassed, Nested, TasksRun, TokensNested, RunnersRegistered,
         ErrorsDoomed, NEW th \in Threads, ShapeOf(th), cancelled \subseteq cancelled'
  PROVE  ErrorsDoomed'
<1> SUFFICES ASSUME NEW h \in Threads, NEW k \in Levels(h)', Level(h, k)'.pc = "run",
                    "Cancelled" \in task'[Level(h, k)'.task].errors
             PROVE  \A S \in SUBSET Tokens : Level(h, k)'.tok \in S => ~KeepGoing(S)'
  BY Zenon DEF ErrorsDoomed, Doomed, Tokens, Tasks
<1>1. RInv /\ TypeOK
  BY Zenon DEF SInv, RInv, Inv
<1>2. k \in Levels(h) /\ Level(h, k)' = Level(h, k)
  <2>1. ASSUME h = th, k = Depth(th), Claims(th, next_task)
        PROVE  FALSE
    <3>1. PICK fr : /\ Level(th, Depth(th))' = fr /\ Depth(th)' = Depth(th)
                    /\ fr.pc = "run" /\ fr.task = next_task
                    /\ fr.fact = Top(th).fact /\ fr.tok = Top(th).tok
      BY <2>1, ClaimRuns
    <3>3. Level(h, k)' = fr
      BY <2>1, <3>1, Zenon
    <3>2. task'[next_task].errors = {}
      BY <2>1, ClaimedNew, Zenon
    <3> QED
      BY <3>1, <3>2, <3>3, Zenon
  <2> QED
    BY <2>1, RunsStay, Zenon
<1> DEFINE u == Level(h, k).task
<1>3. Level(h, k).pc = "run" /\ "Cancelled" \in task'[u].errors
  BY <1>2, Zenon
<1>4. u \in Tasks /\ task[u].phase # "Free"
  BY <1>1, <1>2, <1>3, RunLevel, Zenon
<1>5. ASSUME Doomed(u)
      PROVE  Doomed(Level(h, k).tok)
  BY <1>2, <1>3, <1>5, DoomedRunner, Zenon
<1>6. Doomed(Level(h, k).tok)
  <2>1. CASE "Cancelled" \in task[u].errors
    BY <1>2, <1>3, <2>1, Zenon DEF ErrorsDoomed
  <2>2. CASE "Cancelled" \notin task[u].errors
    <3>1. ~RecordsKept(u)
      BY <1>3, <2>2, Zenon DEF RecordsKept
    <3>2. ~Claims(th, u)
      BY <1>4, Zenon DEF Claims
    <3>3. ~Asks(th, u)
      BY <1>1, <1>3, <1>4, <2>2, AskKeeps, Zenon
    <3>4. CASE Evaluates(th) /\ u = Top(th).task
      <4>1. Course(u)
        BY <3>4, Zenon DEF Evaluates
      <4>2. IsCancelled(u) /\ task[u].phase = "Computed"
        BY <1>3, <2>2, <4>1, Zenon DEF Course
      <4>3. task[u].phase \notin {"Free", "Done"}
        BY <4>2
      <4> QED
        BY <1>5, <4>2, <4>3, CancelledDoomed, Zenon
    <3>5. ASSUME NEW outcome \in Outcomes, Leaves(th, outcome) \/ Finishes(th, outcome)
          PROVE  Doomed(Level(h, k).tok)
      <4>1. HeardBy(task'[u], task[u], u = Context(th), Top(th).fact, outcome)
        BY <1>4, <3>5, Zenon DEF Leaves, Finishes, Hears
      <4>2. u = Context(th) /\ task'[u].errors = task[u].errors \cup {outcome}
        BY <1>3, <2>2, <4>1, Zenon DEF HeardBy
      <4>3. outcome = "Cancelled"
        BY <1>3, <2>2, <4>2, Zenon
      <4>4. /\ Depth(th) \in Levels(th) /\ Level(th, Depth(th)) = Top(th)
            /\ Context(th) = Caller(th, Depth(th)) /\ Doomed(Top(th).tok)
        BY <3>5, <4>3, AnswerDoomed, Zenon
      <4>5. u # None
        BY <1>4, NoTask
      <4>6. Top(th).tok = task[u].tok
        <5>1. Caller(th, Depth(th)) = u
          BY <4>2, <4>4, Zenon
        <5>2. Level(th, Depth(th)).tok = task[Caller(th, Depth(th))].tok
          BY <4>4, <4>5, <5>1, Zenon DEF TokensPassed
        <5> QED
          BY <4>4, <5>1, <5>2, Zenon
      <4>7. task[u].tok = u \/ task[u].tok = Level(h, k).tok
        BY <1>2, <1>3, Zenon DEF TokensPassed
      <4> QED
        BY <1>5, <4>4, <4>6, <4>7, Zenon
    <3> QED
      BY <1>4, <3>1, <3>2, <3>3, <3>4, <3>5, RecordsStep, Zenon
  <2> QED
    BY <2>1, <2>2
<1>7. \A S \in SUBSET Tokens : Level(h, k).tok \in S => ~KeepGoing(S)'
  BY <1>2, <1>6, DoomedStays, Zenon
<1> QED
  BY <1>2, <1>7, Zenon

LEMMA OwnCancellationStep ==
  ASSUME SInv, TokensPassed, Nested, TasksRun, TokensNested, RunnersRegistered,
         ErrorsDoomed, OwnCancellation, NEW th \in Threads, ShapeOf(th),
         cancelled \subseteq cancelled'
  PROVE  OwnCancellation'
<1> SUFFICES ASSUME NEW r \in Roots, result'[r] = "Cancelled"
             PROVE  r \in cancelled
  BY Zenon DEF OwnCancellation
<1>1. TypeOK /\ LanesOwn
  BY Zenon DEF SInv, RInv, Inv
<1>2. CASE result' = result
  BY <1>2, Zenon DEF OwnCancellation
<1>3. ASSUME NEW outcome \in Outcomes, Leaves(th, outcome) \/ Finishes(th, outcome),
             result' # result
      PROVE  r \in cancelled
  <2>1. th \in Roots /\ Depth(th) = 1 /\ result' = [result EXCEPT ![th] = outcome]
    BY <1>3, Zenon DEF Leaves, Finishes, Answers
  <2>2. CASE r # th
    <3>1. result[r] = "Cancelled"
      BY <1>1, <2>1, <2>2 DEF TypeOK
    <3> QED
      BY <3>1, Zenon DEF OwnCancellation
  <2>3. CASE r = th
    <3>1. outcome = "Cancelled"
      BY <1>1, <2>1, <2>3 DEF TypeOK
    <3>2. /\ Depth(th) \in Levels(th) /\ Level(th, Depth(th)) = Top(th)
          /\ Context(th) = Caller(th, Depth(th)) /\ Doomed(Top(th).tok)
      BY <1>3, <3>1, AnswerDoomed, Zenon
    <3>3. Caller(th, Depth(th)) = base[th].task
      BY <2>1, Zenon DEF Caller
    <3>4. base[th].task = None
      BY <1>1, <2>1, FactQueryAssumption, Zenon DEF LanesOwn
    <3>5. Top(th).tok = th
      BY <3>2, <3>3, <3>4, Zenon DEF TokensPassed
    <3> QED
      BY <1>1, <2>3, <3>2, <3>5, DoomedRoot, Zenon
  <2> QED
    BY <2>2, <2>3
<1> QED
  BY <1>2, <1>3, Zenon DEF ShapeOf, Walks, Claims, Evaluates, Ends, Asks, Spawns

-----------------------------------------------------------------------------
\* The inductive invariant of cancellation.
CInv == /\ SInv /\ TasksRun /\ TokensPassed /\ Nested /\ TokensNested
        /\ NoRepeat /\ CellOwned /\ WaitsOwner /\ RunnersRegistered
        /\ ErrorsDoomed /\ OwnCancellation

\* A cancelled token stays cancelled.
LEMMA CancelledGrows ==
  ASSUME [Next]_vars
  PROVE  cancelled \subseteq cancelled'
<1>1. ASSUME NEW th \in Threads, ThreadStep(th)
      PROVE  UNCHANGED cancelled
  <2>1. CASE Request(th) \/ Check(th) \/ Look(th) \/ Admit(th) \/ Claim(th)
    BY <2>1, Zenon DEF Request, Check, Look, Admit, Claim
  <2>2. CASE WaitFor(th) \/ RegisterInterest(th) \/ Unwait(th) \/ DropInterest(th)
    BY <2>2, Zenon DEF WaitFor, RegisterInterest, Unwait, DropInterest
  <2>3. CASE Begin(th) \/ Suspend(th) \/ Resume(th) \/ Compute(th) \/ Fail(th)
    BY <2>3, Zenon DEF Begin, Suspend, Resume, Compute, Fail
  <2>4. CASE CheckShared(th) \/ Commit(th) \/ Publish(th) \/ Deliver(th) \/ Abandon(th)
    BY <2>4, Zenon DEF CheckShared, Commit, Publish, Deliver, Abandon
  <2>5. CASE Vacate(th) \/ LaneEnds(th) \/ \E t \in Tasks : Call(th, t)
    BY <2>5, Zenon DEF Vacate, LaneEnds, Call
  <2> QED
    BY <1>1, <2>1, <2>2, <2>3, <2>4, <2>5, Zenon DEF ThreadStep
<1>2. ASSUME NEW th, NEW t, NEW h, SpawnLane(th, t, h)
      PROVE  UNCHANGED cancelled
  BY <1>2, Zenon DEF SpawnLane
<1>3. ASSUME NEW r, Cancel(r)
      PROVE  cancelled \subseteq cancelled'
  BY <1>3, Zenon DEF Cancel
<1> QED
  BY <1>1, <1>2, <1>3, Zenon DEF Next, vars

LEMMA CancellationInit ==
  ASSUME Init, SInv
  PROVE  CInv
<1>1. ASSUME NEW h \in Threads, NEW k \in Levels(h)
      PROVE  /\ h \in Roots /\ k = 1 /\ Caller(h, k) = None
             /\ Level(h, k) = NewFrame(RootFact[h], h)
  BY StartLevels
<1>2. \A f, h : NewFrame(f, h).pc = "request" /\ NewFrame(f, h).tok = h
  BY Zenon DEF NewFrame
<1>3. ASSUME NEW h \in Threads, NEW k \in Levels(h)
      PROVE  Level(h, k).pc = "request" /\ Level(h, k).tok = h
  <2>1. Level(h, k) = NewFrame(RootFact[h], h)
    BY <1>1
  <2> QED
    BY <1>2, <2>1, Zenon
<1>4. ASSUME NEW h \in Threads, NEW k \in Levels(h)
      PROVE  Level(h, k).pc # "run" /\ Level(h, k).pc \notin WaitPcs
  <2>1. Level(h, k).pc = "request"
    BY <1>3
  <2> QED
    BY <2>1 DEF WaitPcs
<1>5. TasksRun
  <2>1. ASSUME NEW t \in Tasks
        PROVE  task[t].phase = "Free"
    <3>1. PICK f : task[t] = [NewTask(f, t) EXCEPT !.phase = "Free"]
      BY Zenon DEF Init
    <3> QED
      BY <3>1 DEF NewTask
  <2> QED
    BY <2>1, Zenon DEF TasksRun
<1>6. TokensPassed
  <2>1. ASSUME NEW h \in Threads, NEW k \in Levels(h)
        PROVE  /\ Caller(h, k) = None /\ h \in Roots
               /\ Level(h, k).tok = h /\ Level(h, k).pc # "run"
    BY <1>1, <1>3, <1>4, Zenon
  <2> QED
    BY <2>1, Zenon DEF TokensPassed
<1>7. Nested /\ TokensNested
  BY <1>4, Zenon DEF Nested, TokensNested
<1>8. NoRepeat
  BY <1>3, Zenon DEF NoRepeat
<1>9. CellOwned
  <2>1. ASSUME NEW f \in Facts
        PROVE  cell[f].st # "Computing"
    BY DEF Init
  <2> QED
    BY <2>1, Zenon DEF CellOwned
<1>10. WaitsOwner
  BY <1>4, Zenon DEF WaitsOwner
<1>11. RunnersRegistered /\ ErrorsDoomed
  BY <1>4, Zenon DEF RunnersRegistered, ErrorsDoomed
<1>12. OwnCancellation
  <2>1. ASSUME NEW r \in Roots
        PROVE  result[r] # "Cancelled"
    BY DEF Init
  <2> QED
    BY <2>1, Zenon DEF OwnCancellation
<1> QED
  BY <1>5, <1>6, <1>7, <1>8, <1>9, <1>10, <1>11, <1>12, Zenon DEF CInv

LEMMA CancellationStep ==
  ASSUME CInv, SInv', [Next]_vars
  PROVE  CInv'
<1>1. SInv /\ Inv /\ TypeOK'
  BY Zenon DEF CInv, SInv, RInv, Inv
<1>2. cancelled \subseteq cancelled'
  BY CancelledGrows
<1>3. CellOwned'
  BY <1>1, CellOwnedStep, Zenon DEF CInv
<1>4. ASSUME NEW th \in Threads, ShapeOf(th)
      PROVE  CInv'
  <2>1. TasksRun' /\ TokensPassed' /\ Nested'
    BY <1>1, <1>4, TasksRunStep, TokensPassedStep, NestedStep, Zenon DEF CInv
  <2>2. TokensNested'
    BY <1>1, <1>4, TokensNestedStep, Zenon DEF CInv
  <2>3. NoRepeat' /\ WaitsOwner' /\ RunnersRegistered'
    BY <1>1, <1>4, NoRepeatStep, WaitsOwnerStep, RunnersRegisteredStep, Zenon DEF CInv
  <2>4. ErrorsDoomed' /\ OwnCancellation'
    BY <1>1, <1>2, <1>4, ErrorsDoomedStep, OwnCancellationStep, Zenon DEF CInv
  <2> QED
    BY <1>3, <2>1, <2>2, <2>3, <2>4, Zenon DEF CInv
<1>5. ASSUME UNCHANGED <<stack, base, task, result, interests>>
      PROVE  CInv'
  <2>1. \A h : /\ Depth(h)' = Depth(h) /\ Levels(h)' = Levels(h)
               /\ \A k : Level(h, k)' = Level(h, k) /\ Caller(h, k)' = Caller(h, k)
    BY <1>5, SameLevels, Zenon
  <2>2. TasksRun'
    BY <1>5, <2>1, Zenon DEF CInv, TasksRun
  <2>3. TokensPassed'
    BY <1>5, <2>1, Zenon DEF CInv, TokensPassed
  <2>4. Nested' /\ TokensNested'
    BY <2>1, Zenon DEF CInv, Nested, TokensNested
  <2>5. NoRepeat'
    BY <1>5, <2>1, Zenon DEF CInv, NoRepeat
  <2>6. WaitsOwner'
    BY <1>5, <2>1, Zenon DEF CInv, WaitsOwner
  <2>7. RunnersRegistered'
    BY <1>5, <2>1, Zenon DEF CInv, RunnersRegistered
  <2>8. \A S : KeepGoing(S)' => KeepGoing(S)
    BY <1>2, <2>1, Zenon DEF KeepGoing
  <2>9. \A tok : Doomed(tok) => Doomed(tok)'
    BY <2>8, Zenon DEF Doomed, Tokens
  <2>10. ErrorsDoomed'
    BY <1>5, <2>1, <2>9, Zenon DEF CInv, ErrorsDoomed
  <2>11. OwnCancellation'
    BY <1>2, <1>5, Zenon DEF CInv, OwnCancellation
  <2> QED
    BY <1>3, <2>2, <2>3, <2>4, <2>5, <2>6, <2>7, <2>10, <2>11, Zenon DEF CInv
<1> QED
  BY <1>1, <1>4, <1>5, StepShape, Zenon
=============================================================================

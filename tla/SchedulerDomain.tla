-------------------------- MODULE SchedulerDomain --------------------------
(***************************************************************************)
(* The scheduler domain of the bootstrap runtime (runtime/bootstrap/src/   *)
(* scheduler): what its operations promise to the native callers.  Every   *)
(* operation runs under the spin lock of the domain and is one step here.  *)
(* An entry is named by a registration, an index with the generation of    *)
(* its admission.  Ready entries stand FIFO in their lane and the lanes    *)
(* take turns; at most limit entries hold an execution slot.               *)
(*                                                                         *)
(* SchedulerArena shows the linked arena implementing this, RunScheduler   *)
(* composes it with the threads that drive it.  Wake counts, causes and    *)
(* times are left out: an entry is only pending or not.                    *)
(***************************************************************************)
EXTENDS Integers, Sequences, FiniteSets

CONSTANTS
  Tasks,          \* identities the native side binds to entries
  Lanes,          \* placement, workload and thread of a continuation
  limit,          \* execution slots
  MaxIndex,       \* most entries of the arena (0xffffffff)
  MaxGeneration,  \* last generation of an index (U32_MAX)
  None

ASSUME DomainAssumption ==
  /\ limit \in Nat \ {0} /\ MaxIndex \in Nat \ {0} /\ MaxGeneration \in Nat \ {0}
  /\ None \notin Tasks /\ None \notin Lanes
  /\ None \notin [index : 1..MaxIndex, generation : 1..MaxGeneration]

VARIABLES
  entries,  \* rows of the arena
  ready,    \* active lanes in turn, each with its ready indices in order
  running,  \* slots in use
  aborted   \* the process met core.target.abort()
domain == <<entries, ready, running, aborted>>

Phases == {"idle", "queued", "running", "free"}
Entry == [generation : 0..MaxGeneration, phase : Phases, task : Tasks \union {None},
          lane : Lanes \union {None}, pending : BOOLEAN, slot : BOOLEAN]
Registrations == [index : 1..MaxIndex, generation : 1..MaxGeneration]

DomainInit ==
  /\ entries = <<>>
  /\ ready = <<>>
  /\ running = 0
  /\ aborted = FALSE

\* index_of: a registration reaches its entry only in its own generation.
Live(r) ==
  /\ r.index \in DOMAIN entries
  /\ entries[r.index].generation = r.generation
  /\ entries[r.index].phase # "free"
Row(r) == entries[r.index]

-----------------------------------------------------------------------------
(* Ready lanes.                                                             *)

\* enqueue: behind the entries of its lane; an inactive lane joins at the end.
Enqueued(q, i, lane) ==
  IF \E k \in DOMAIN q : q[k].lane = lane
  THEN [k \in DOMAIN q |->
          IF q[k].lane = lane THEN [q[k] EXCEPT !.tasks = Append(@, i)] ELSE q[k]]
  ELSE Append(q, [lane |-> lane, tasks |-> <<i>>])

\* The sequence s without its n-th element.
Without(s, n) == [m \in 1..(Len(s) - 1) |-> IF m < n THEN s[m] ELSE s[m + 1]]

\* unlink: the entry leaves its place, and a lane left empty is no longer active.
Unlinked(q, i) ==
  LET k == CHOOSE k \in DOMAIN q : \E n \in DOMAIN q[k].tasks : q[k].tasks[n] = i
      n == CHOOSE n \in DOMAIN q[k].tasks : q[k].tasks[n] = i
  IN IF Len(q[k].tasks) = 1 THEN Without(q, k)
     ELSE [q EXCEPT ![k].tasks = Without(@, n)]

\* The first active lane, in turn, that is one of served; 0 if there is none.
FirstServed(q, served) ==
  IF \E k \in DOMAIN q : q[k].lane \in served
  THEN CHOOSE k \in DOMAIN q :
         q[k].lane \in served /\ \A j \in 1..(k - 1) : q[j].lane \notin served
  ELSE 0

\* A lane that was served and still has entries moves behind all others.
Served(q, k) ==
  IF Len(q[k].tasks) = 1 THEN Without(q, k)
  ELSE Append(Without(q, k), [q[k] EXCEPT !.tasks = Tail(@)])

-----------------------------------------------------------------------------
(* Operations.  Those that may make work available also prepare a signal,   *)
(* which RunScheduler adds.                                                 *)

EmptyEntry == [generation |-> 0, phase |-> "free", task |-> None, lane |-> None,
               pending |-> FALSE, slot |-> FALSE]
Usable(rows) == {i \in DOMAIN rows : rows[i].phase = "free"
                                     /\ rows[i].generation < MaxGeneration}

\* The arena doubles when no usable row is left, up to the last index.
Grown(rows) ==
  LET wanted == IF Len(rows) = 0 THEN 1 ELSE 2 * Len(rows)
      size == IF wanted > MaxIndex THEN MaxIndex ELSE wanted
  IN IF Usable(rows) # {} THEN rows
     ELSE [i \in 1..size |-> IF i \in DOMAIN rows THEN rows[i] ELSE EmptyEntry]

\* admission: the registration r for task t, which is not ready yet.
Admission(t, lane, r) ==
  LET rows == Grown(entries)
  IN /\ r.index \in Usable(rows)
     /\ r.generation = rows[r.index].generation + 1
     /\ entries' = [rows EXCEPT ![r.index] =
          [generation |-> r.generation, phase |-> "idle", task |-> t, lane |-> lane,
           pending |-> FALSE, slot |-> FALSE]]
     /\ UNCHANGED <<ready, running, aborted>>

\* wake makes an idle entry ready ...
WakeEnqueues(r) == Live(r) /\ Row(r).phase = "idle"
\* ... and is remembered once while the entry runs; a second is coalesced.
Wake(r) ==
  /\ IF WakeEnqueues(r)
     THEN /\ entries' = [entries EXCEPT ![r.index].phase = "queued"]
          /\ ready' = Enqueued(ready, r.index, Row(r).lane)
     ELSE /\ entries' = IF Live(r) /\ Row(r).phase = "running"
                        THEN [entries EXCEPT ![r.index].pending = TRUE] ELSE entries
          /\ UNCHANGED ready
  /\ UNCHANGED <<running, aborted>>

\* Mutant: a running entry is withdrawn with its slot.
WithdrawalKeepsSlot(r) ==
  /\ IF Live(r)
     THEN /\ entries' = [entries EXCEPT ![r.index].phase = "free",
                           ![r.index].pending = FALSE, ![r.index].slot = FALSE]
          /\ ready' = IF Row(r).phase = "queued" THEN Unlinked(ready, r.index) ELSE ready
          /\ UNCHANGED running
     ELSE UNCHANGED <<entries, ready, running>>
  /\ UNCHANGED aborted
\* Mutant: a ready entry is withdrawn without leaving its lane.
WithdrawalKeepsLane(r) ==
  /\ IF Live(r)
     THEN /\ entries' = [entries EXCEPT ![r.index].phase = "free",
                           ![r.index].pending = FALSE, ![r.index].slot = FALSE]
          /\ running' = IF Row(r).slot THEN running - 1 ELSE running
     ELSE UNCHANGED <<entries, running>>
  /\ UNCHANGED <<ready, aborted>>
\* withdrawal: the entry leaves its lane and gives its slot back.
Withdrawal(r) ==
  /\ IF Live(r)
     THEN /\ entries' = [entries EXCEPT ![r.index].phase = "free",
                           ![r.index].pending = FALSE, ![r.index].slot = FALSE]
          /\ ready' = IF Row(r).phase = "queued" THEN Unlinked(ready, r.index) ELSE ready
          /\ running' = IF Row(r).slot THEN running - 1 ELSE running
     ELSE UNCHANGED <<entries, ready, running>>
  /\ UNCHANGED aborted

\* acquisition: the dispatch a thread serving these lanes gets, or None.
Selected(served) ==
  LET k == FirstServed(ready, served)
  IN IF running = limit \/ k = 0 THEN None
     ELSE [index |-> Head(ready[k].tasks),
           generation |-> entries[Head(ready[k].tasks)].generation]
Acquisition(served) ==
  /\ IF Selected(served) = None
     THEN UNCHANGED <<entries, ready, running>>
     ELSE LET i == Selected(served).index
          IN /\ entries' = [entries EXCEPT ![i].phase = "running", ![i].pending = FALSE,
                                           ![i].slot = TRUE]
             /\ ready' = Served(ready, FirstServed(ready, served))
             /\ running' = running + 1
  /\ UNCHANGED aborted

\* Mutant: a wake that came while the dispatch ran is forgotten.
ReleaseForgets(r, lane, cancellation) ==
  IF ~Live(r) THEN UNCHANGED domain
  ELSE /\ entries' = [entries EXCEPT
            ![r.index].phase = IF cancellation THEN "queued" ELSE "idle",
            ![r.index].slot = FALSE, ![r.index].pending = FALSE, ![r.index].lane = lane]
       /\ ready' = IF cancellation THEN Enqueued(ready, r.index, lane) ELSE ready
       /\ running' = running - 1
       /\ UNCHANGED aborted
\* release: the dispatch ends in the given lane; a wake that came while it ran,
\* or a cancellation, makes it ready again.
Release(r, lane, cancellation) ==
  IF ~Live(r) THEN UNCHANGED domain
  ELSE IF Row(r).phase # "running" \/ ~Row(r).slot
  THEN aborted' = TRUE /\ UNCHANGED <<entries, ready, running>>
  ELSE LET again == Row(r).pending \/ cancellation
       IN /\ entries' = [entries EXCEPT
               ![r.index].phase = IF again THEN "queued" ELSE "idle",
               ![r.index].slot = FALSE, ![r.index].pending = FALSE,
               ![r.index].lane = lane]
          /\ ready' = IF again THEN Enqueued(ready, r.index, lane) ELSE ready
          /\ running' = running - 1
          /\ UNCHANGED aborted

\* slot_release: the slot is lent, the dispatch stays claimed.
Lends(r) == Live(r) /\ Row(r).slot
SlotRelease(r) ==
  IF ~Lends(r) THEN UNCHANGED domain
  ELSE IF Row(r).phase # "running"
  THEN aborted' = TRUE /\ UNCHANGED <<entries, ready, running>>
  ELSE /\ entries' = [entries EXCEPT ![r.index].slot = FALSE]
       /\ running' = running - 1
       /\ UNCHANGED <<ready, aborted>>

\* Mutant: a lent slot is reclaimed whatever is in use.
SlotStatusUnlimited(r) == IF ~Live(r) THEN 2 ELSE 1
\* slot_acquisition: 1 has the slot, 2 lost its entry, 0 must wait.
SlotStatus(r) == IF ~Live(r) THEN 2 ELSE IF running = limit THEN 0 ELSE 1
SlotAcquisition(r) ==
  IF SlotStatus(r) # 1 THEN UNCHANGED domain
  ELSE IF Row(r).phase # "running" \/ Row(r).slot
  THEN aborted' = TRUE /\ UNCHANGED <<entries, ready, running>>
  ELSE /\ entries' = [entries EXCEPT ![r.index].slot = TRUE]
       /\ running' = running + 1
       /\ UNCHANGED <<ready, aborted>>

-----------------------------------------------------------------------------
(* The domain under any callers.                                            *)

DomainNext ==
  \/ \E r \in Registrations :
       /\ Live(r)
       /\ \/ Wake(r) \/ Withdrawal(r) \/ SlotRelease(r) \/ SlotAcquisition(r)
          \/ \E l \in Lanes, c \in BOOLEAN : Release(r, l, c)
  \/ \E served \in SUBSET Lanes : Selected(served) # None /\ Acquisition(served)
  \/ \E r \in Registrations : \E t \in Tasks, l \in Lanes : Admission(t, l, r)

DomainSpec == DomainInit /\ [][DomainNext]_domain

\* The lanes hold exactly the queued entries, each once and in its own lane,
\* and no active lane is empty or listed twice: what acquisition scans agrees
\* with the entries, through wakes, withdrawals and turns.
LanesExact ==
  /\ \A k \in DOMAIN ready :
       /\ ready[k].tasks # <<>>
       /\ \A j \in DOMAIN ready : ready[j].lane = ready[k].lane => j = k
       /\ \A n \in DOMAIN ready[k].tasks :
            LET i == ready[k].tasks[n]
            IN /\ i \in DOMAIN entries /\ entries[i].phase = "queued"
               /\ entries[i].lane = ready[k].lane
               /\ \A m \in DOMAIN ready[k].tasks : ready[k].tasks[m] = i => m = n
  /\ \A i \in DOMAIN entries : entries[i].phase = "queued" =>
       \E k \in DOMAIN ready : \E n \in DOMAIN ready[k].tasks : ready[k].tasks[n] = i

\* The slots in use are exactly those of running entries, never more than the
\* limit, however dispatches are lent, reclaimed, released and withdrawn.
QuotaExact ==
  /\ running = Cardinality({i \in DOMAIN entries : entries[i].slot})
  /\ running <= limit
  /\ \A i \in DOMAIN entries : entries[i].slot => entries[i].phase = "running"
=============================================================================

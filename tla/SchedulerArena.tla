--------------------------- MODULE SchedulerArena ---------------------------
(***************************************************************************)
(* The linked arena behind the scheduler domain: rows and lane headers are *)
(* reused, linked by index with 0 as the absent link.  A row belongs to    *)
(* the free list or, while queued, to the list of its lane's header; a     *)
(* header to the free headers or, while its lane has entries, to the ring  *)
(* of turns.  A row caches the header it last used, which may since serve  *)
(* another lane.  state is the State struct of data.bray; its functions    *)
(* are functions on it here.  SchedulerDomain is what the arena promises.  *)
(*                                                                         *)
(* The callers are native threads: they hold the dispatches acquisition    *)
(* gave them (held), may lend and reclaim the slot of one, and may use any *)
(* registration they were ever given for a wake or a withdrawal.           *)
(***************************************************************************)
EXTENDS Integers, Sequences, FiniteSets

CONSTANTS Tasks, Lanes, limit, MaxIndex, MaxGeneration, None

VARIABLES state, aborted, held
vars == <<state, aborted, held>>

Link == 0..MaxIndex
TypeOK ==
  /\ state.entries \in Seq([generation : 0..MaxGeneration,
       phase : {"idle", "queued", "running", "free"}, task : Tasks \union {None},
       lane : Lanes \union {None}, pending : BOOLEAN, slot : BOOLEAN,
       queue : Link, previous : Link, next : Link])
  /\ state.queues \in Seq([lane : Lanes \union {None}, head : Link, tail : Link,
                           previous : Link, next : Link])
  /\ Len(state.queues) = Len(state.entries) /\ Len(state.entries) <= MaxIndex
  /\ {state.free, state.free_queue, state.head, state.tail} \subseteq Link
  /\ state.running \in 0..limit
  /\ aborted \in BOOLEAN
  /\ held \subseteq [registration : [index : 1..MaxIndex, generation : 1..MaxGeneration],
                     lent : BOOLEAN]

\* The indices met from first along the next links, at most one round.
Chain(cells, first) ==
  LET step[n \in 1..(Len(cells) + 1)] ==
        IF n = 1 THEN first ELSE IF step[n - 1] = 0 THEN 0 ELSE cells[step[n - 1]].next
      length == Cardinality({n \in 1..(Len(cells) + 1) : step[n] # 0})
  IN [n \in 1..length |-> step[n]]

-----------------------------------------------------------------------------
(* Headers and links: queue.bray.                                           *)

UnlinkQueue(s, q) ==
  LET prev == s.queues[q].previous
      next == s.queues[q].next
  IN [s EXCEPT !.head = IF prev = 0 THEN next ELSE @,
               !.tail = IF next = 0 THEN prev ELSE @,
               !.queues = [j \in DOMAIN @ |->
                  [@[j] EXCEPT !.next = IF j = prev THEN next ELSE @,
                               !.previous = IF j = next THEN prev ELSE @]]]

AppendQueue(s, q) ==
  [s EXCEPT !.head = IF s.tail = 0 THEN q ELSE @,
            !.tail = q,
            !.queues = [j \in DOMAIN @ |->
               IF j = q THEN [@[j] EXCEPT !.previous = s.tail, !.next = 0]
               ELSE IF j = s.tail THEN [@[j] EXCEPT !.next = q] ELSE @[j]]]

\* The active header of a lane, or 0.
ActiveHeader(s, lane) ==
  LET Same(q) == s.queues[q].lane = lane
      matching == SelectSeq(Chain(s.queues, s.head), Same)
  IN IF matching = <<>> THEN 0 ELSE matching[1]

\* Mutant: an emptied header is accepted if it last served the lane.
FoundHeaderEmptied(s, lane, cached) ==
  IF cached # 0 /\ s.queues[cached].lane = lane THEN cached ELSE ActiveHeader(s, lane)
\* Mutant: an active header is accepted whatever lane it serves now.
FoundHeaderReused(s, lane, cached) ==
  IF cached # 0 /\ s.queues[cached].head # 0 THEN cached ELSE ActiveHeader(s, lane)
\* The header queue_for finds: the cached one if it still serves the lane, an
\* active one, or 0 if one must be activated.
FoundHeader(s, lane, cached) ==
  IF cached # 0 /\ s.queues[cached].head # 0 /\ s.queues[cached].lane = lane
  THEN cached ELSE ActiveHeader(s, lane)

ActivateHeader(s, lane) ==
  AppendQueue([s EXCEPT !.free_queue = s.queues[s.free_queue].next,
                        !.queues[s.free_queue].lane = lane,
                        !.queues[s.free_queue].head = 0,
                        !.queues[s.free_queue].tail = 0], s.free_queue)

\* Enqueueing needs a free header that is not there: queue_for aborts.
HeaderMissing(s, i) ==
  FoundHeader(s, s.entries[i].lane, s.entries[i].queue) = 0 /\ s.free_queue = 0

Enqueue(s, i) ==
  LET row == s.entries[i]
      found == FoundHeader(s, row.lane, row.queue)
      owner == IF found # 0 THEN found ELSE s.free_queue
      t == IF found # 0 THEN s ELSE ActivateHeader(s, row.lane)
      tail == t.queues[owner].tail
  IN [t EXCEPT !.entries = [j \in DOMAIN @ |->
                  IF j = i THEN [@[j] EXCEPT !.phase = "queued", !.queue = owner,
                                             !.previous = tail, !.next = 0]
                  ELSE IF j = tail THEN [@[j] EXCEPT !.next = i] ELSE @[j]],
               !.queues[owner].head = IF tail = 0 THEN i ELSE @,
               !.queues[owner].tail = i]

\* Mutant: the header of a lane left empty is not put back on the free list.
FreeHeaderLeaked(s, q) == UnlinkQueue(s, q)
FreeHeader(s, q) ==
  LET t == UnlinkQueue(s, q)
  IN [t EXCEPT !.queues[q].previous = 0, !.queues[q].next = t.free_queue, !.free_queue = q]

Unlink(s, i) ==
  LET prev == s.entries[i].previous
      next == s.entries[i].next
      owner == s.entries[i].queue
      t == [s EXCEPT !.entries = [j \in DOMAIN @ |->
               IF j = i THEN [@[j] EXCEPT !.previous = 0, !.next = 0]
               ELSE [@[j] EXCEPT !.next = IF j = prev THEN next ELSE @,
                                 !.previous = IF j = next THEN prev ELSE @]],
             !.queues[owner].head = IF prev = 0 THEN next ELSE @,
             !.queues[owner].tail = IF next = 0 THEN prev ELSE @]
  IN IF t.queues[owner].head = 0 THEN FreeHeader(t, owner) ELSE t

-----------------------------------------------------------------------------
(* Admission.                                                               *)

\* Rows and headers are initialised onto the front of their free lists; there
\* is one header for each row.
Grow(s) ==
  LET old == Len(s.entries)
      wanted == IF old = 0 THEN 1 ELSE 2 * old
      size == IF wanted > MaxIndex THEN MaxIndex ELSE wanted
      Before(i, first) == IF i = old + 1 THEN first ELSE i - 1
  IN [s EXCEPT
       !.entries = [i \in 1..size |-> IF i <= old THEN @[i] ELSE
          [generation |-> 0, phase |-> "free", task |-> None, lane |-> None,
           pending |-> FALSE, slot |-> FALSE, queue |-> 0, previous |-> 0,
           next |-> Before(i, s.free)]],
       !.queues = [i \in 1..size |-> IF i <= old THEN @[i] ELSE
          [lane |-> None, head |-> 0, tail |-> 0, previous |-> 0,
           next |-> Before(i, s.free_queue)]],
       !.free = size,
       !.free_queue = size]

\* Mutant: the generations of a row start over unnoticed.
RetireNone(s) == s
\* A free row whose generations are used up is dropped from the free list.
RetireExhausted(s) ==
  LET chain == Chain(s.entries, s.free)
      Fresh(i) == s.entries[i].generation < MaxGeneration
      fresh == SelectSeq(chain, Fresh)
  IN [s EXCEPT !.free = IF fresh = <<>> THEN 0 ELSE fresh[1]]

\* try_admit until it has a row; unchanged if the arena is at its last index.
Prepared(s) ==
  LET t == RetireExhausted(s)
  IN IF t.free = 0 /\ Len(t.entries) < MaxIndex THEN Grow(t) ELSE t

Admitted(s, i, t, lane) ==
  [s EXCEPT !.free = s.entries[i].next,
            !.entries[i].generation = @ + 1,
            !.entries[i].phase = "idle", !.entries[i].task = t, !.entries[i].lane = lane,
            !.entries[i].next = 0, !.entries[i].previous = 0,
            !.entries[i].pending = FALSE, !.entries[i].slot = FALSE]

Init ==
  /\ state = [entries |-> <<>>, queues |-> <<>>, free_queue |-> 0, free |-> 0,
              head |-> 0, tail |-> 0, running |-> 0]
  /\ aborted = FALSE
  /\ held = {}

Admission(t, lane) ==
  LET s == Prepared(state)
  IN /\ state' = IF s.free = 0 THEN s ELSE Admitted(s, s.free, t, lane)
     /\ UNCHANGED <<aborted, held>>

-----------------------------------------------------------------------------
(* The other operations, each under the lock.                               *)

\* index_of.
Live(r) ==
  /\ r.index \in DOMAIN state.entries
  /\ state.entries[r.index].generation = r.generation
  /\ state.entries[r.index].phase # "free"

\* Registrations that some caller has been given.
Issued == {r \in [index : DOMAIN state.entries, generation : 1..MaxGeneration] :
             r.generation <= state.entries[r.index].generation}

\* s with i made ready, or the abort of queue_for.
MakeReady(s, i) ==
  IF HeaderMissing(s, i) THEN aborted' = TRUE /\ state' = s
  ELSE state' = Enqueue(s, i) /\ UNCHANGED aborted

Wake(r) ==
  LET row == state.entries[r.index]
  IN /\ Live(r)
     /\ CASE row.phase = "idle" -> MakeReady(state, r.index)
          [] row.phase = "running" ->
               state' = [state EXCEPT !.entries[r.index].pending = TRUE] /\ UNCHANGED aborted
          [] OTHER -> UNCHANGED <<state, aborted>>
     /\ UNCHANGED held

Withdrawal(r) ==
  LET row == state.entries[r.index]
      s == IF row.phase = "queued" THEN Unlink(state, r.index) ELSE state
  IN /\ Live(r)
     /\ state' = [s EXCEPT !.entries[r.index].slot = FALSE,
                           !.entries[r.index].phase = "free",
                           !.entries[r.index].next = s.free,
                           !.entries[r.index].previous = 0,
                           !.entries[r.index].pending = FALSE,
                           !.running = IF row.slot THEN @ - 1 ELSE @,
                           !.free = r.index]
     /\ UNCHANGED <<aborted, held>>

\* Mutant: a served lane keeps its place.
TurnedNever(s, q) == s
\* A served header that still has entries moves behind the others.
Turned(s, q) ==
  IF s.queues[q].head # 0 /\ s.tail # q THEN AppendQueue(UnlinkQueue(s, q), q) ELSE s

Acquisition(served) ==
  LET Compatible(q) == state.queues[q].lane \in served
      compatible == SelectSeq(Chain(state.queues, state.head), Compatible)
      q == compatible[1]
      i == state.queues[q].head
      s == Turned(Unlink(state, i), q)
  IN /\ state.running # limit /\ compatible # <<>>
     /\ state' = [s EXCEPT !.entries[i].phase = "running", !.entries[i].pending = FALSE,
                           !.entries[i].slot = TRUE, !.running = @ + 1]
     /\ held' = held \union {[registration |->
          [index |-> i, generation |-> state.entries[i].generation], lent |-> FALSE]}
     /\ UNCHANGED aborted

\* A dispatch is released by its holder; it may have been withdrawn meanwhile.
Release(h, lane, cancellation) ==
  LET r == h.registration
      row == state.entries[r.index]
      s == [state EXCEPT !.entries[r.index].phase = "idle", !.entries[r.index].slot = FALSE,
                         !.entries[r.index].pending = FALSE, !.entries[r.index].lane = lane,
                         !.running = @ - 1]
  IN /\ ~h.lent
     /\ held' = held \ {h}
     /\ IF ~Live(r) THEN UNCHANGED <<state, aborted>>
        ELSE IF row.phase # "running" \/ ~row.slot THEN aborted' = TRUE /\ UNCHANGED state
        ELSE IF row.pending \/ cancellation THEN MakeReady(s, r.index)
        ELSE state' = s /\ UNCHANGED aborted

\* park_execution and the end of the park, around a blocking call of the holder.
SlotRelease(h) ==
  LET r == h.registration
  IN /\ ~h.lent /\ Live(r) /\ state.entries[r.index].slot
     /\ IF state.entries[r.index].phase # "running"
        THEN aborted' = TRUE /\ UNCHANGED <<state, held>>
        ELSE /\ state' = [state EXCEPT !.entries[r.index].slot = FALSE, !.running = @ - 1]
             /\ held' = (held \ {h}) \union {[h EXCEPT !.lent = TRUE]}
             /\ UNCHANGED aborted

SlotAcquisition(h) ==
  LET r == h.registration
      done == (held \ {h}) \union {[h EXCEPT !.lent = FALSE]}
  IN /\ h.lent
     /\ IF ~Live(r) THEN held' = done /\ UNCHANGED <<state, aborted>>
        ELSE /\ state.running # limit
             /\ IF state.entries[r.index].phase # "running" \/ state.entries[r.index].slot
                THEN aborted' = TRUE /\ UNCHANGED <<state, held>>
                ELSE /\ state' = [state EXCEPT !.entries[r.index].slot = TRUE,
                                               !.running = @ + 1]
                     /\ held' = done
                     /\ UNCHANGED aborted

Next ==
  \/ \E t \in Tasks, lane \in Lanes : Admission(t, lane)
  \/ \E r \in Issued : Wake(r) \/ Withdrawal(r)
  \/ \E served \in SUBSET Lanes : Acquisition(served)
  \/ \E h \in held :
       \/ \E lane \in Lanes, cancellation \in BOOLEAN : Release(h, lane, cancellation)
       \/ SlotRelease(h)
       \/ SlotAcquisition(h)

Spec == Init /\ [][Next]_vars

-----------------------------------------------------------------------------
(* Properties.                                                              *)

\* The rows without their links, and the ring of turns as sequences.
AbstractEntries ==
  [i \in DOMAIN state.entries |->
     LET row == state.entries[i]
     IN [generation |-> row.generation, phase |-> row.phase, task |-> row.task,
         lane |-> row.lane, pending |-> row.pending, slot |-> row.slot]]
AbstractReady ==
  LET ring == Chain(state.queues, state.head)
  IN [k \in DOMAIN ring |->
        [lane |-> state.queues[ring[k]].lane,
         tasks |-> Chain(state.entries, state.queues[ring[k]].head)]]

Domain == INSTANCE SchedulerDomain WITH
            entries <- AbstractEntries, ready <- AbstractReady, running <- state.running

\* The linked arena implements the scheduler domain: FIFO lanes taking turns,
\* generation-checked registrations and counted slots, whatever rows and
\* headers are reused, cached and grown behind them.
ImplementsDomain == Domain!DomainSpec

\* No operation of a correct caller aborts.  In particular queue_for always
\* finds a free header, without allocating: there is a header for every row
\* and the lanes with ready entries are fewer than the rows.
NeverAborts == ~aborted

\* Every row and header is in exactly one list: a free row in the free list
\* (unless its generations are used up), a queued row in the list of its
\* header, an active header in the ring and any other in the free headers.
ListsPartition ==
  LET Ring == Chain(state.queues, state.head)
      FreeRows == Chain(state.entries, state.free)
      FreeHeaders == Chain(state.queues, state.free_queue)
      Members(chain) == {chain[k] : k \in DOMAIN chain}
      Once(chain) == Cardinality(Members(chain)) = Len(chain)
  IN /\ TypeOK
     /\ Once(Ring) /\ Once(FreeRows) /\ Once(FreeHeaders)
     /\ Members(Ring) \intersect Members(FreeHeaders) = {}
     /\ Members(Ring) \union Members(FreeHeaders) = DOMAIN state.queues
     /\ \A q \in DOMAIN state.queues : q \in Members(Ring) <=> state.queues[q].head # 0
     /\ \A i \in DOMAIN state.entries :
          /\ i \in Members(FreeRows) => state.entries[i].phase = "free"
          /\ (state.entries[i].phase = "free" /\ state.entries[i].generation < MaxGeneration)
               => i \in Members(FreeRows)
          /\ state.entries[i].phase = "queued" =>
               i \in Members(Chain(state.entries, state.queues[state.entries[i].queue].head))
=============================================================================

-------------------------- MODULE MCSchedulerArena --------------------------
(* A small arena for TLC, in one of two profiles: "turns" fills all rows     *)
(* once and keeps them ready, "reuse" has fewer rows and takes them through   *)
(* all their generations, lends slots and changes lanes.  A history variable *)
(* counts for every ready row the dispatches still allowed to pass it by.    *)
EXTENDS SchedulerArena, TLC

CONSTANT ReusedRows   \* rows of the reuse profile

VARIABLES patience, profile
mcvars == <<vars, patience, profile>>

Queued(s, i) == i \in DOMAIN s.entries /\ s.entries[i].phase = "queued"

\* Place of a queued row in its lane.
Place(s, i) ==
  LET chain == Chain(s.entries, s.queues[s.entries[i].queue].head)
  IN CHOOSE n \in DOMAIN chain : chain[n] = i

\* A row behind n - 1 others of its lane is passed by at most once by every
\* other lane for each of the n.
Patience(served) ==
  [i \in 1..MaxIndex |->
     IF ~Queued(state', i) THEN 0
     ELSE IF ~Queued(state, i) THEN Place(state', i) * Cardinality(Lanes) - 1
     ELSE IF state.entries[i].lane \in served /\ patience[i] >= 0 THEN patience[i] - 1
     ELSE patience[i]]

MCInit ==
  /\ Init
  /\ patience = [i \in 1..MaxIndex |-> 0]
  /\ profile \in {"turns", "reuse"}

Fits ==
  LET s == Prepared(state)
  IN IF profile = "reuse" THEN Len(s.entries) <= ReusedRows
     ELSE s.free # 0 => s.entries[s.free].generation = 0
MCNext ==
  /\ \/ \E served \in SUBSET Lanes : Acquisition(served) /\ patience' = Patience(served)
     \/ /\ \/ Fits /\ \E t \in Tasks, lane \in Lanes : Admission(t, lane)
           \/ \E r \in Issued :
                \/ /\ profile = "turns" => state.entries[r.index].phase # "running"
                   /\ Wake(r)
                \/ /\ profile = "turns" => state.entries[r.index].phase = "queued"
                   /\ Withdrawal(r)
           \/ \E h \in held :
                \/ \E lane \in Lanes, cancellation \in BOOLEAN :
                     /\ profile = "turns" =>
                          lane = state.entries[h.registration.index].lane
                     /\ Release(h, lane, cancellation)
                \/ profile = "reuse" /\ SlotRelease(h)
                \/ SlotAcquisition(h)
        /\ patience' = Patience({})
  /\ UNCHANGED profile
MCSpec == MCInit /\ [][MCNext]_mcvars

\* Bounded bypass: among dispatches by threads that serve its lane, a ready
\* entry behind n - 1 others of its lane is the last of at most n rounds of the
\* lanes, however entries keep arriving: a served lane goes behind all others.
TurnsBounded == \A i \in 1..MaxIndex : patience[i] >= 0
=============================================================================

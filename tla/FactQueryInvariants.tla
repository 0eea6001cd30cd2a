------------------------- MODULE FactQueryInvariants -------------------------
(***************************************************************************)
(* The invariants of FactQuery that its safety properties and its          *)
(* refinement of FactStore rest on.                                        *)
(***************************************************************************)
EXTENDS FactQuery

\* The runtime's owner of a fact was started for that fact.
Owned == \A f \in Facts : owners[f] # None => task[owners[f]].fact = f

\* Task identities not yet handed out are unused.
Fresh == \A t \in Tasks : t >= next_task => task[t].phase = "Free"

\* Only tasks that have begun are waited for, so `begin' closes no cycle.
WaitsBegun ==
  \A t, u \in Tasks : waiting[t][u] > 0 => task[u].phase \notin {"Free", "Claimed"}

\* A fact has a record from the commit on, when its cell is Publishing.
Committed ==
  \A f \in Facts : f \in DOMAIN records <=> cell[f].st \in {"Publishing", "Ready"}

PublishedReady ==
  \A t \in Tasks : task[t].phase = "Published" => cell[task[t].fact].st = "Ready"

Inv == /\ TypeOK /\ SingleFlight /\ Owned /\ Fresh /\ WaitsBegun
       /\ Committed /\ PublishedReady /\ WaitGraphAcyclic

-----------------------------------------------------------------------------
Frames(s) == {s[i] : i \in 1..Len(s)}

\* A frame that runs a task requested the fact the task was started for.
FrameOK(fr) ==
  fr.pc = "run" => /\ task[fr.task].fact = fr.fact
                   /\ task[fr.task].phase # "Free"
RunsOwn == \A th \in Threads : \A fr \in Frames(stack[th]) : FrameOK(fr)

\* Recorded dependencies are committed.
DepsCommitted == \A t \in Tasks : task[t].deps \subseteq DOMAIN records

RInv == Inv /\ RunsOwn /\ DepsCommitted
=============================================================================

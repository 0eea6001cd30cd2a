-------------------------- MODULE PublicationProofs --------------------------
(***************************************************************************)
(* The store keeps what is needed, for any processes, generations, paths,  *)
(* numbers of operations and of power losses.  The properties are not      *)
(* inductive alone: what a step may delete or promote depends on the locks *)
(* its process holds, on what the publication under way has done so far,   *)
(* and on what of it is on the disk.  Inv says so, a group of lemmas shows *)
(* each part of it kept, one step per action, and the last section proves  *)
(* that the store implements CommittedProduct.                             *)
(***************************************************************************)
EXTENDS Publication, TLAPS

\* Labels of a process with the root lock, with the publication lock, of one
\* that pins the entry, and of one that works on the entry with either lock.
RootLabels == {"opened", "unpublish", "delete", "history", "register"}
PublisherLabels == {"prior", "stage", "staged", "placed", "prepared", "journaled", "synced",
                    "leased", "referenced", "completed", "rollback"}
LockLabels == PublisherLabels \cup {"downgrade"}
PinLabels == {"waiting", "pinned", "shared", "upgrade", "guarded", "retained", "published"}
BothLabels == {"recover", "restore", "prune", "finish"}
UpkeepLabels == {"recover", "restore", "prune", "unpublish", "delete", "history"}

\* The locks a process holds follow from where it is; whoever works on the entry
\* without the publication lock has the root lock and finds it unpinned.
LocksOf(p) ==
  /\ pc[p] \in RootLabels => root = p
  /\ pc[p] = "prune" => root = p
  /\ pc[p] \in LockLabels => exclusive = p
  /\ pc[p] \in PinLabels => p \in pinned
  /\ pc[p] \in UpkeepLabels => exclusive = p \/ (root = p /\ pinned = {})
  /\ root = p => pc[p] \in RootLabels \cup BothLabels
  /\ root = p /\ exclusive = p => pc[p] = "prune"
  /\ exclusive = p => p \in pinned /\ pc[p] \in LockLabels \cup BothLabels
  /\ p \in shared <=> pc[p] \in {"shared", "guarded"}
LocksInv == (pinned # {} => entry = "live") /\ \A p \in Processes : LocksOf(p)

\* What is done where, and in which state of the entry.
OpsOf(p) ==
  /\ op[p] = "publish" => gen[p] \in Generations
  /\ pc[p] \in PublisherLabels \cup {"waiting", "register", "published"} => op[p] = "publish"
  /\ pc[p] \in {"pinned", "shared", "upgrade", "downgrade", "guarded", "retained"} =>
       op[p] \in {"read", "retain"}
  /\ exclusive = p => op[p] # "clean"
  /\ exclusive = p /\ pc[p] \in {"prune", "finish"} => op[p] = "publish"
  /\ exclusive # p /\ pc[p] \in UpkeepLabels => op[p] \in {"publish", "clean"}
  /\ pc[p] = "history" => op[p] = "clean"
  /\ pc[p] \in {"recover", "restore"} => entry \in {"live", "retiring"}
  /\ pc[p] \in {"prune", "history"} => entry = "live"
  /\ pc[p] = "unpublish" => entry = "retiring"
  /\ pc[p] = "delete" => entry = "removing"
  /\ pc[p] = "register" => entry \in {"none", "live"}
OpsInv == \A p \in Processes : OpsOf(p)

\* p holds the publication lock and its reference is committed.
Committing(p) == exclusive = p /\ pc[p] \in {"referenced", "completed", "prune", "finish"}

\* How far the publication under way is, and what the handles pin.
CourseOf(p) ==
  /\ pc[p] \in {"prior", "stage", "staged", "placed", "prepared", "unpublish"} => journal = None
  /\ pc[p] \in {"journaled", "synced", "leased", "rollback", "referenced"} =>
       journal = Files[gen[p]]
  /\ pc[p] \in {"stage", "staged", "placed", "prepared", "journaled", "synced", "leased",
                "rollback"} => prior[p] = reference
  /\ pc[p] \in {"journaled", "synced", "leased", "rollback"} => durable.reference = reference
  /\ pc[p] \in {"placed", "prepared", "journaled", "synced", "leased"} \/ Committing(p) =>
       store[gen[p]] = "whole"
  /\ pc[p] = "leased" \/ Committing(p) => lease[p] = gen[p]
  /\ Committing(p) => reference.current = gen[p]
  /\ pc[p] \in {"published", "retained"} => lease[p] \in Generations /\ store[lease[p]] = "whole"
  /\ scratch[p] = "staged" => pc[p] \in PublisherLabels \ {"prior", "stage", "completed"}
  /\ scratch[p] # "removed"
CourseInv == \A p \in Processes : CourseOf(p)

\* What the public paths hold while a publication or a recovery is under way.
PathsOf(p) ==
  /\ pc[p] \in {"prepared", "journaled", "synced", "leased", "rollback"} =>
       /\ Files[gen[p]] \subseteq DOMAIN undo[p]
       /\ DOMAIN undo[p] \subseteq Files[gen[p]] \cup ManifestPaths(reference.current)
       /\ todo[p] \subseteq DOMAIN undo[p]
  /\ pc[p] = "prepared" => todo[p] = DOMAIN undo[p]
  /\ pc[p] \in {"synced", "leased", "referenced"} => todo[p] = {}
  /\ pc[p] = "journaled" => \A x \in Files[gen[p]] \ todo[p] : public[x] = gen[p]
  /\ pc[p] \in {"synced", "leased", "referenced"} =>
       \A x \in Files[gen[p]] : public[x] = gen[p] /\ durablePublic[x] = gen[p]
  /\ pc[p] = "restore" =>
       /\ journal # None
       /\ todo[p] \subseteq ManifestPaths(reference.current)
       /\ doomed[p] \cap ManifestPaths(reference.current) = {}
       /\ \A x \in ManifestPaths(reference.current) \ todo[p] :
            public[x] = reference.current /\ durablePublic[x] = reference.current
PathsInv == \A p \in Processes : PathsOf(p)

\* The committed files are on the disk too.
VisibleInv ==
  entry = "live" /\ journal = None =>
    \A x \in ManifestPaths(reference.current) :
      public[x] = reference.current /\ durablePublic[x] = reference.current

\* What a power loss may bring back is the reference or the one before, with its
\* generation whole, and without the journal only what is there anyway.
DurableInv ==
  /\ durable.journal = None => journal = None /\ durable.reference = reference
  /\ durable.reference.current \in {None, reference.current, reference.previous}
  /\ entry # "removing" /\ durable.reference.current # None =>
       /\ store[durable.reference.current] = "whole"
       /\ durable.store[durable.reference.current] = "whole"
  /\ entry = "none" => reference = NoReference /\ durable.journal = None

StoreInv ==
  /\ TypeOK /\ LocksInv /\ OpsInv /\ CourseInv /\ PathsInv
  /\ VisibleInv /\ DurableInv /\ CurrentWhole

\* Without a power loss the preceding generation is kept too, and the paths that
\* neither the reference nor the journal names hold no generation.
PreviousWhole ==
  entry # "removing" /\ reference.previous # None => store[reference.previous] = "whole"

Named == ManifestPaths(reference.current) \cup (IF journal = None THEN {} ELSE journal)

TidyInv ==
  \A x \in Paths : public[x] \in Generations => entry \in {"live", "retiring"} /\ x \in Named

\* ... and the publication or the recovery under way clears what it must.
ClearedOf(p) ==
  /\ pc[p] \in {"prepared", "journaled", "synced", "leased", "referenced"} =>
       \A x \in Paths \ Files[gen[p]] : x \in todo[p] \/ public[x] \notin Generations
  /\ pc[p] = "restore" =>
       \A x \in Paths \ ManifestPaths(reference.current) :
         x \in doomed[p] \/ public[x] \notin Generations
ClearedInv == \A p \in Processes : ClearedOf(p)

TidyStore == PreviousWhole /\ TidyInv /\ ClearedInv

Inv == StoreInv /\ (losses = 0 => TidyStore)

-----------------------------------------------------------------------------
(* A step of a process, and what its end has in common with its death.      *)

Move(p) == Open(p) \/ Step(p) \/ Stop(p)

Ends(p) ==
  /\ Release(p)
  /\ UNCHANGED <<reference, journal, store, public, entry, durable, started, losses>>

\* A handle that is dropped, a refusal, a rollback and a death end alike.
LEMMA EndsBy ==
  ASSUME NEW p \in Processes, Stop(p) \/ Drop(p) \/ Refuse(p) \/ RollbackDone(p)
  PROVE  Ends(p)
  BY Zenon DEF Stop, Drop, Refuse, RollbackDone, Ends, disk

Backups == UNION {[S -> Contents] : S \in SUBSET Paths}

\* None names neither a process nor a generation.
LEMMA NamesApart == None \notin Processes /\ None \notin Generations
  BY NamesAssumption

\* A manifest is a set of paths, and no manifest is mistaken for None.
LEMMA FilesOfGeneration ==
  \A g \in Generations : Files[g] \in SUBSET Paths /\ Files[g] # None
  BY FilesAssumption, NamesAssumption

-----------------------------------------------------------------------------
(* Locks and operations: every process q, when p moves.                     *)

\* After a step of p the locks of any process q still follow from its label.
LEMMA LocksStep ==
  ASSUME NEW p \in Processes, NEW q \in Processes, LocksOf(p), LocksOf(q), OpsOf(p),
         pinned # {} => entry = "live", pc \in [Processes -> Labels],
         None \notin Processes, Move(p)
  PROVE  LocksOf(q)' /\ (pinned # {} => entry = "live")'
<1> USE DEF LocksOf, OpsOf, RootLabels, PublisherLabels, LockLabels, PinLabels,
            BothLabels, UpkeepLabels
<1>1. CASE Open(p)
  BY <1>1, Zenon DEF Open, Goto, disk
<1>2. CASE Ends(p)
  BY <1>2, Zenon DEF Ends, Release, Goto
<1>3. CASE RecoverNothing(p)
  BY <1>3, Zenon DEF RecoverNothing, AfterRecover, Goto, disk, locks, locals
<1>4. CASE RecoverBegin(p)
  BY <1>4, Zenon DEF RecoverBegin, Goto, disk, locks
<1>5. CASE RecoverRestore(p)
  BY <1>5, Zenon DEF RecoverRestore, locks
<1>6. CASE RecoverRemove(p)
  BY <1>6, Zenon DEF RecoverRemove, locks
<1>7. CASE RecoverComplete(p)
  BY <1>7, ZenonT(60)
     DEF RecoverComplete, AfterRecover, Metadata, Synced, Goto, locks, locals
<1>8. CASE PruneStep(p)
  BY <1>8, Zenon DEF PruneStep, Prunable, locks, locals
<1>9. CASE PruneDone(p)
  BY <1>9, Zenon DEF PruneDone, Goto
<1>10. CASE PruneFailed(p)
  BY <1>10, Zenon DEF PruneFailed, Goto, disk, locals
<1>11. CASE MaintainProduct(p)
  BY <1>11, Zenon DEF MaintainProduct, Goto, disk, locks, locals
<1>12. CASE SkipMaintenance(p)
  BY <1>12, Zenon DEF SkipMaintenance, Goto, disk, locks, locals
<1>13. CASE RetireBegin(p)
  BY <1>13, Zenon DEF RetireBegin, Goto, locks, locals
<1>14. CASE RetireResume(p)
  BY <1>14, Zenon DEF RetireResume, Goto, disk, locks, locals
<1>15. CASE Unpublish(p)
  BY <1>15, Zenon DEF Unpublish, locks, locals
<1>16. CASE RetireMark(p)
  BY <1>16, Zenon DEF RetireMark, Goto, locks, locals
<1>17. CASE RetireDelete(p)
  BY <1>17, Zenon DEF RetireDelete, Metadata, Synced, NoReference, Goto, locks, locals
<1>18. CASE RegisterProduct(p)
  BY <1>18, Zenon DEF RegisterProduct, Goto, locals
<1>19. CASE CleanHistory(p)
  BY <1>19, Zenon DEF CleanHistory, Metadata, Synced, Goto, locks, locals
<1>20. CASE PinProduct(p)
  BY <1>20, Zenon DEF PinProduct, Goto, disk, locals
<1>21. CASE AcquirePublicationLock(p)
  BY <1>21, Zenon DEF AcquirePublicationLock, Goto, disk, locals
<1>22. CASE ReadPrior(p)
  BY <1>22, Zenon DEF ReadPrior, Goto, disk, locks
<1>23. CASE StageGeneration(p)
  BY <1>23, Zenon DEF StageGeneration, Goto, disk, locks
<1>24. CASE CommitGeneration(p)
  BY <1>24, Zenon DEF CommitGeneration, Metadata, Synced, Goto, locks, locals
<1>25. CASE PrepareProjections(p)
  BY <1>25, Zenon DEF PrepareProjections, Goto, disk, locks
<1>26. CASE RecordPublication(p)
  BY <1>26, Zenon DEF RecordPublication, Metadata, Synced, Goto, locks, locals
<1>27. CASE CommitProjection(p)
  BY <1>27, Zenon DEF CommitProjection, locks
<1>28. CASE SyncProjections(p)
  BY <1>28, Zenon DEF SyncProjections, SyncPublic, Goto, locks, locals
<1>29. CASE AcquireLease(p)
  BY <1>29, Zenon DEF AcquireLease, Goto, disk, locals
<1>30. CASE CommitReference(p)
  BY <1>30, Zenon DEF CommitReference, Metadata, Synced, Publish, Goto, locks, locals
<1>31. CASE CompletePublication(p)
  BY <1>31, Zenon DEF CompletePublication, Metadata, Synced, Goto, locks
<1>32. CASE OpenForPruning(p)
  BY <1>32, Zenon DEF OpenForPruning, Goto, disk, locals
<1>33. CASE CancelledBeforePruning(p)
  BY <1>33, Zenon DEF CancelledBeforePruning, Goto, disk, locks, locals
<1>34. CASE ReturnGeneration(p)
  BY <1>34, Zenon DEF ReturnGeneration, Goto, disk, locals
<1>35. CASE BeginRollback(p)
  BY <1>35, Zenon DEF BeginRollback, Goto, disk, locks, locals
<1>36. CASE RollbackProjection(p)
  BY <1>36, Zenon DEF RollbackProjection, locks
<1>37. CASE LockShared(p)
  BY <1>37, Zenon DEF LockShared, Goto, disk, locals
<1>38. CASE FindPending(p)
  BY <1>38, Zenon DEF FindPending, Goto, disk, locals
<1>39. CASE LockExclusive(p)
  BY <1>39, Zenon DEF LockExclusive, Goto, disk, locals
<1>40. CASE Downgrade(p)
  BY <1>40, Zenon DEF Downgrade, Goto, disk, locals
<1>41. CASE Guard(p)
  BY <1>41, Zenon DEF Guard, Goto, disk, locks, locals
<1>42. CASE RetainGeneration(p)
  BY <1>42, Zenon DEF RetainGeneration, Goto, disk, locals
<1> QED
  BY <1>1, <1>2, <1>3, <1>4, <1>5, <1>6, <1>7, <1>8, <1>9, <1>10, <1>11, <1>12, <1>13,
       <1>14, <1>15, <1>16, <1>17, <1>18, <1>19, <1>20, <1>21, <1>22, <1>23, <1>24,
       <1>25, <1>26, <1>27, <1>28, <1>29, <1>30, <1>31, <1>32, <1>33, <1>34, <1>35,
       <1>36, <1>37, <1>38, <1>39, <1>40, <1>41, <1>42, EndsBy, Zenon
     DEF Move, Step, Recover, Prune, Maintain, PublishStep, ReadStep

\* ... and so does what it is doing, and in which state of the entry.
LEMMA OpsStep ==
  ASSUME NEW p \in Processes, NEW q \in Processes, LocksOf(p), LocksOf(q), OpsOf(p),
         OpsOf(q), pinned # {} => entry = "live", pc \in [Processes -> Labels],
         op \in [Processes -> {"publish", "read", "retain", "clean"}],
         gen \in [Processes -> Generations \cup {None}], None \notin Processes,
         Move(p)
  PROVE  OpsOf(q)'
<1> USE DEF LocksOf, OpsOf, RootLabels, PublisherLabels, LockLabels, PinLabels,
            BothLabels, UpkeepLabels
<1>1. CASE Open(p)
  BY <1>1, Zenon DEF Open, Goto, disk
<1>2. CASE Ends(p)
  BY <1>2, ZenonT(60) DEF Ends, Release, Goto
<1>3. CASE RecoverNothing(p)
  BY <1>3, ZenonT(60) DEF RecoverNothing, AfterRecover, Goto, disk, locks, locals
<1>4. CASE RecoverBegin(p)
  BY <1>4, Zenon DEF RecoverBegin, Goto, disk, locks
<1>5. CASE RecoverRestore(p)
  BY <1>5, Zenon DEF RecoverRestore, locks
<1>6. CASE RecoverRemove(p)
  BY <1>6, Zenon DEF RecoverRemove, locks
<1>7. CASE RecoverComplete(p)
  BY <1>7, ZenonT(60)
     DEF RecoverComplete, AfterRecover, Metadata, Synced, Goto, locks, locals
<1>8. CASE PruneStep(p)
  BY <1>8, Zenon DEF PruneStep, Prunable, locks, locals
<1>9. CASE PruneDone(p)
  BY <1>9, Zenon DEF PruneDone, Goto
<1>10. CASE PruneFailed(p)
  BY <1>10, Zenon DEF PruneFailed, Goto, disk, locals
<1>11. CASE MaintainProduct(p)
  BY <1>11, Zenon DEF MaintainProduct, Goto, disk, locks, locals
<1>12. CASE SkipMaintenance(p)
  BY <1>12, Zenon DEF SkipMaintenance, Goto, disk, locks, locals
<1>13. CASE RetireBegin(p)
  BY <1>13, Zenon DEF RetireBegin, Goto, locks, locals
<1>14. CASE RetireResume(p)
  BY <1>14, Zenon DEF RetireResume, Goto, disk, locks, locals
<1>15. CASE Unpublish(p)
  BY <1>15, Zenon DEF Unpublish, locks, locals
<1>16. CASE RetireMark(p)
  BY <1>16, Zenon DEF RetireMark, Goto, locks, locals
<1>17. CASE RetireDelete(p)
  BY <1>17, Zenon DEF RetireDelete, Metadata, Synced, NoReference, Goto, locks, locals
<1>18. CASE RegisterProduct(p)
  BY <1>18, Zenon DEF RegisterProduct, Goto, locals
<1>19. CASE CleanHistory(p)
  BY <1>19, Zenon DEF CleanHistory, Metadata, Synced, Goto, locks, locals
<1>20. CASE PinProduct(p)
  BY <1>20, Zenon DEF PinProduct, Goto, disk, locals
<1>21. CASE AcquirePublicationLock(p)
  BY <1>21, Zenon DEF AcquirePublicationLock, Goto, disk, locals
<1>22. CASE ReadPrior(p)
  BY <1>22, Zenon DEF ReadPrior, Goto, disk, locks
<1>23. CASE StageGeneration(p)
  BY <1>23, Zenon DEF StageGeneration, Goto, disk, locks
<1>24. CASE CommitGeneration(p)
  BY <1>24, Zenon DEF CommitGeneration, Metadata, Synced, Goto, locks, locals
<1>25. CASE PrepareProjections(p)
  BY <1>25, Zenon DEF PrepareProjections, Goto, disk, locks
<1>26. CASE RecordPublication(p)
  BY <1>26, Zenon DEF RecordPublication, Metadata, Synced, Goto, locks, locals
<1>27. CASE CommitProjection(p)
  BY <1>27, Zenon DEF CommitProjection, locks
<1>28. CASE SyncProjections(p)
  BY <1>28, Zenon DEF SyncProjections, SyncPublic, Goto, locks, locals
<1>29. CASE AcquireLease(p)
  BY <1>29, Zenon DEF AcquireLease, Goto, disk, locals
<1>30. CASE CommitReference(p)
  BY <1>30, Zenon DEF CommitReference, Metadata, Synced, Publish, Goto, locks, locals
<1>31. CASE CompletePublication(p)
  BY <1>31, Zenon DEF CompletePublication, Metadata, Synced, Goto, locks
<1>32. CASE OpenForPruning(p)
  BY <1>32, Zenon DEF OpenForPruning, Goto, disk, locals
<1>33. CASE CancelledBeforePruning(p)
  BY <1>33, Zenon DEF CancelledBeforePruning, Goto, disk, locks, locals
<1>34. CASE ReturnGeneration(p)
  BY <1>34, Zenon DEF ReturnGeneration, Goto, disk, locals
<1>35. CASE BeginRollback(p)
  BY <1>35, Zenon DEF BeginRollback, Goto, disk, locks, locals
<1>36. CASE RollbackProjection(p)
  BY <1>36, Zenon DEF RollbackProjection, locks
<1>37. CASE LockShared(p)
  BY <1>37, Zenon DEF LockShared, Goto, disk, locals
<1>38. CASE FindPending(p)
  BY <1>38, Zenon DEF FindPending, Goto, disk, locals
<1>39. CASE LockExclusive(p)
  BY <1>39, Zenon DEF LockExclusive, Goto, disk, locals
<1>40. CASE Downgrade(p)
  BY <1>40, Zenon DEF Downgrade, Goto, disk, locals
<1>41. CASE Guard(p)
  BY <1>41, Zenon DEF Guard, Goto, disk, locks, locals
<1>42. CASE RetainGeneration(p)
  BY <1>42, Zenon DEF RetainGeneration, Goto, disk, locals
<1> QED
  BY <1>1, <1>2, <1>3, <1>4, <1>5, <1>6, <1>7, <1>8, <1>9, <1>10, <1>11, <1>12, <1>13,
       <1>14, <1>15, <1>16, <1>17, <1>18, <1>19, <1>20, <1>21, <1>22, <1>23, <1>24,
       <1>25, <1>26, <1>27, <1>28, <1>29, <1>30, <1>31, <1>32, <1>33, <1>34, <1>35,
       <1>36, <1>37, <1>38, <1>39, <1>40, <1>41, <1>42, EndsBy, Zenon
     DEF Move, Step, Recover, Prune, Maintain, PublishStep, ReadStep

-----------------------------------------------------------------------------
(* Elsewhere: what a step of p leaves alone of another process q.  Only one *)
(* process at a time is at work on the files.                               *)

WorkLabels == LockLabels \cup UpkeepLabels
files == <<reference, journal, store, public, durable, durablePublic>>

Same(p, q) ==
  /\ pc'[q] = pc[q] /\ gen'[q] = gen[q] /\ prior'[q] = prior[q] /\ todo'[q] = todo[q]
  /\ doomed'[q] = doomed[q] /\ undo'[q] = undo[q] /\ lease'[q] = lease[q]
  /\ (pc[p] = "prune" /\ scratch[q] = "staged") \/ scratch'[q] = scratch[q]
  /\ exclusive' = q <=> exclusive = q

LocalType ==
  /\ pc \in [Processes -> Labels]
  /\ op \in [Processes -> {"publish", "read", "retain", "clean"}]
  /\ gen \in [Processes -> Generations \cup {None}]
  /\ policy \in [Processes -> {"replace", "absent"}]
  /\ prior \in [Processes -> References]
  /\ todo \in [Processes -> SUBSET Paths] /\ doomed \in [Processes -> SUBSET Paths]
  /\ undo \in [Processes -> Backups]
  /\ scratch \in [Processes -> {"none", "staged", "removed"}]
  /\ started \in Nat /\ losses \in Nat

LockType ==
  /\ {root, exclusive} \subseteq Processes \cup {None}
  /\ shared \subseteq Processes /\ pinned \subseteq Processes
  /\ exclusive # None => shared = {}
  /\ lease \in [Processes -> Generations \cup {None}]

(* The actions that change a file, and no others do.                        *)
DiskStep(p) ==
  \/ RecoverRestore(p) \/ RecoverRemove(p) \/ RecoverComplete(p) \/ PruneStep(p)
  \/ PruneDone(p) \/ RetireBegin(p) \/ Unpublish(p) \/ RetireMark(p)
  \/ RetireDelete(p) \/ RegisterProduct(p) \/ CleanHistory(p)
  \/ CommitGeneration(p) \/ RecordPublication(p) \/ CommitProjection(p)
  \/ SyncProjections(p) \/ CommitReference(p) \/ CompletePublication(p)
  \/ RollbackProjection(p) \/ RollbackDone(p)

\* The publication lock, or the root lock of an unpinned entry, keeps others away.
LEMMA WorksAlone ==
  ASSUME NEW p \in Processes, NEW q \in Processes, q # p, LocksOf(p), LocksOf(q),
         pc[p] \in WorkLabels
  PROVE  /\ pc[q] \notin WorkLabels /\ exclusive # q
         /\ pc[p] \in LockLabels \/ exclusive = p \/ pc[q] \notin PinLabels
  BY Zenon DEF LocksOf, WorkLabels, LockLabels, PublisherLabels, UpkeepLabels,
               PinLabels, RootLabels, BothLabels

\* A step of p leaves the rest of another process q as it was.
LEMMA Elsewhere ==
  ASSUME NEW p \in Processes, NEW q \in Processes, q # p, LocalType,
         lease \in [Processes -> Generations \cup {None}], LocksOf(p),
         None \notin Processes, Move(p)
  PROVE  Same(p, q)
<1> USE DEF Same, LocalType
<1>1. CASE Open(p)
  BY <1>1, Zenon DEF Open, Goto, disk
<1>2. CASE Ends(p)
  BY <1>2, Zenon DEF Ends, Release, Goto
<1>3. CASE RecoverNothing(p)
  BY <1>3, Zenon DEF RecoverNothing, AfterRecover, Goto, disk, locks, locals
<1>4. CASE RecoverBegin(p)
  BY <1>4, Zenon DEF RecoverBegin, Goto, disk, locks
<1>5. CASE RecoverRestore(p)
  BY <1>5, Zenon DEF RecoverRestore, locks
<1>6. CASE RecoverRemove(p)
  BY <1>6, Zenon DEF RecoverRemove, locks
<1>7. CASE RecoverComplete(p)
  BY <1>7, Zenon
     DEF RecoverComplete, AfterRecover, Metadata, Synced, Goto, locks, locals
<1>8. CASE PruneStep(p)
  BY <1>8, Zenon DEF PruneStep, Prunable, locks, locals
<1>9. CASE PruneDone(p)
  BY <1>9, Zenon DEF PruneDone, Goto
<1>10. CASE PruneFailed(p)
  BY <1>10, Zenon DEF PruneFailed, Goto, disk, locals
<1>11. CASE MaintainProduct(p)
  BY <1>11, Zenon DEF MaintainProduct, Goto, disk, locks, locals
<1>12. CASE SkipMaintenance(p)
  BY <1>12, Zenon DEF SkipMaintenance, Goto, disk, locks, locals
<1>13. CASE RetireBegin(p)
  BY <1>13, Zenon DEF RetireBegin, Goto, locks, locals
<1>14. CASE RetireResume(p)
  BY <1>14, Zenon DEF RetireResume, Goto, disk, locks, locals
<1>15. CASE Unpublish(p)
  BY <1>15, Zenon DEF Unpublish, locks, locals
<1>16. CASE RetireMark(p)
  BY <1>16, Zenon DEF RetireMark, Goto, locks, locals
<1>17. CASE RetireDelete(p)
  BY <1>17, Zenon DEF RetireDelete, Metadata, Synced, NoReference, Goto, locks, locals
<1>18. CASE RegisterProduct(p)
  BY <1>18, Zenon DEF RegisterProduct, Goto, locals
<1>19. CASE CleanHistory(p)
  BY <1>19, Zenon DEF CleanHistory, Metadata, Synced, Goto, locks, locals
<1>20. CASE PinProduct(p)
  BY <1>20, Zenon DEF PinProduct, Goto, disk, locals
<1>21. CASE AcquirePublicationLock(p)
  BY <1>21, Zenon DEF AcquirePublicationLock, Goto, disk, locals
<1>22. CASE ReadPrior(p)
  BY <1>22, Zenon DEF ReadPrior, Goto, disk, locks
<1>23. CASE StageGeneration(p)
  BY <1>23, Zenon DEF StageGeneration, Goto, disk, locks
<1>24. CASE CommitGeneration(p)
  BY <1>24, Zenon DEF CommitGeneration, Metadata, Synced, Goto, locks, locals
<1>25. CASE PrepareProjections(p)
  BY <1>25, Zenon DEF PrepareProjections, Goto, disk, locks
<1>26. CASE RecordPublication(p)
  BY <1>26, Zenon DEF RecordPublication, Metadata, Synced, Goto, locks, locals
<1>27. CASE CommitProjection(p)
  BY <1>27, Zenon DEF CommitProjection, locks
<1>28. CASE SyncProjections(p)
  BY <1>28, Zenon DEF SyncProjections, SyncPublic, Goto, locks, locals
<1>29. CASE AcquireLease(p)
  BY <1>29, Zenon DEF AcquireLease, Goto, disk, locals
<1>30. CASE CommitReference(p)
  BY <1>30, Zenon DEF CommitReference, Metadata, Synced, Publish, Goto, locks, locals
<1>31. CASE CompletePublication(p)
  BY <1>31, Zenon DEF CompletePublication, Metadata, Synced, Goto, locks
<1>32. CASE OpenForPruning(p)
  BY <1>32, Zenon DEF OpenForPruning, Goto, disk, locals
<1>33. CASE CancelledBeforePruning(p)
  BY <1>33, Zenon DEF CancelledBeforePruning, Goto, disk, locks, locals
<1>34. CASE ReturnGeneration(p)
  <2>1. exclusive = p
    BY <1>34, Zenon DEF ReturnGeneration
  <2> QED
    BY <2>1, <1>34, Zenon DEF ReturnGeneration, Goto, disk, locals
<1>35. CASE BeginRollback(p)
  BY <1>35, Zenon DEF BeginRollback, Goto, disk, locks, locals
<1>36. CASE RollbackProjection(p)
  BY <1>36, Zenon DEF RollbackProjection, locks
<1>37. CASE LockShared(p)
  BY <1>37, Zenon DEF LockShared, Goto, disk, locals
<1>38. CASE FindPending(p)
  BY <1>38, Zenon DEF FindPending, Goto, disk, locals
<1>39. CASE LockExclusive(p)
  BY <1>39, Zenon DEF LockExclusive, Goto, disk, locals
<1>40. CASE Downgrade(p)
  <2>1. exclusive = p
    BY <1>40, Zenon DEF Downgrade, LocksOf, LockLabels
  <2> QED
    BY <2>1, <1>40, Zenon DEF Downgrade, Goto, disk, locals
<1>41. CASE Guard(p)
  BY <1>41, Zenon DEF Guard, Goto, disk, locks, locals
<1>42. CASE RetainGeneration(p)
  BY <1>42, Zenon DEF RetainGeneration, Goto, disk, locals
<1> QED
  BY <1>1, <1>2, <1>3, <1>4, <1>5, <1>6, <1>7, <1>8, <1>9, <1>10, <1>11, <1>12, <1>13,
       <1>14, <1>15, <1>16, <1>17, <1>18, <1>19, <1>20, <1>21, <1>22, <1>23, <1>24,
       <1>25, <1>26, <1>27, <1>28, <1>29, <1>30, <1>31, <1>32, <1>33, <1>34, <1>35,
       <1>36, <1>37, <1>38, <1>39, <1>40, <1>41, <1>42, EndsBy, Zenon
     DEF Move, Step, Recover, Prune, Maintain, PublishStep, ReadStep

\* Every other step leaves the files as they are.
LEMMA QuietOrDisk ==
  ASSUME NEW p \in Processes, Move(p)
  PROVE  (DiskStep(p) \/ UNCHANGED disk) /\ UNCHANGED losses
<1> USE DEF DiskStep, disk
<1>1. CASE Open(p)
  BY <1>1, Zenon DEF Open, Goto
<1>2. CASE Stop(p)
  BY <1>2, Zenon DEF Stop, Release, Goto
<1>3. CASE Drop(p)
  BY <1>3, Zenon DEF Drop, Release, Goto
<1>4. CASE Refuse(p)
  BY <1>4, Zenon DEF Refuse, Release, Goto
<1>5. CASE RollbackDone(p)
  BY <1>5, Zenon DEF RollbackDone, SyncPublic, Release, Goto
<1>6. CASE RecoverNothing(p)
  BY <1>6, Zenon DEF RecoverNothing, AfterRecover, Goto, locks, locals
<1>7. CASE RecoverBegin(p)
  BY <1>7, Zenon DEF RecoverBegin, Goto, locks
<1>8. CASE RecoverRestore(p)
  BY <1>8, Zenon DEF RecoverRestore, locks
<1>9. CASE RecoverRemove(p)
  BY <1>9, Zenon DEF RecoverRemove, locks
<1>10. CASE RecoverComplete(p)
  BY <1>10, Zenon
     DEF RecoverComplete, AfterRecover, Metadata, Synced, Goto, locks, locals
<1>11. CASE PruneStep(p)
  BY <1>11, Zenon DEF PruneStep, Prunable, locks, locals
<1>12. CASE PruneDone(p)
  BY <1>12, Zenon DEF PruneDone, Goto
<1>13. CASE PruneFailed(p)
  BY <1>13, Zenon DEF PruneFailed, Goto, locals
<1>14. CASE MaintainProduct(p)
  BY <1>14, Zenon DEF MaintainProduct, Goto, locks, locals
<1>15. CASE SkipMaintenance(p)
  BY <1>15, Zenon DEF SkipMaintenance, Goto, locks, locals
<1>16. CASE RetireBegin(p)
  BY <1>16, Zenon DEF RetireBegin, Goto, locks, locals
<1>17. CASE RetireResume(p)
  BY <1>17, Zenon DEF RetireResume, Goto, locks, locals
<1>18. CASE Unpublish(p)
  BY <1>18, Zenon DEF Unpublish, locks, locals
<1>19. CASE RetireMark(p)
  BY <1>19, Zenon DEF RetireMark, Goto, locks, locals
<1>20. CASE RetireDelete(p)
  BY <1>20, Zenon DEF RetireDelete, Metadata, Synced, NoReference, Goto, locks, locals
<1>21. CASE RegisterProduct(p)
  BY <1>21, Zenon DEF RegisterProduct, Goto, locals
<1>22. CASE CleanHistory(p)
  BY <1>22, Zenon DEF CleanHistory, Metadata, Synced, Goto, locks, locals
<1>23. CASE PinProduct(p)
  BY <1>23, Zenon DEF PinProduct, Goto, locals
<1>24. CASE AcquirePublicationLock(p)
  BY <1>24, Zenon DEF AcquirePublicationLock, Goto, locals
<1>25. CASE ReadPrior(p)
  BY <1>25, Zenon DEF ReadPrior, Goto, locks
<1>26. CASE StageGeneration(p)
  BY <1>26, Zenon DEF StageGeneration, Goto, locks
<1>27. CASE CommitGeneration(p)
  BY <1>27, Zenon DEF CommitGeneration, Metadata, Synced, Goto, locks, locals
<1>28. CASE PrepareProjections(p)
  BY <1>28, Zenon DEF PrepareProjections, Goto, locks
<1>29. CASE RecordPublication(p)
  BY <1>29, Zenon DEF RecordPublication, Metadata, Synced, Goto, locks, locals
<1>30. CASE CommitProjection(p)
  BY <1>30, Zenon DEF CommitProjection, locks
<1>31. CASE SyncProjections(p)
  BY <1>31, Zenon DEF SyncProjections, SyncPublic, Goto, locks, locals
<1>32. CASE AcquireLease(p)
  BY <1>32, Zenon DEF AcquireLease, Goto, locals
<1>33. CASE CommitReference(p)
  BY <1>33, Zenon DEF CommitReference, Metadata, Synced, Publish, Goto, locks, locals
<1>34. CASE CompletePublication(p)
  BY <1>34, Zenon DEF CompletePublication, Metadata, Synced, Goto, locks
<1>35. CASE OpenForPruning(p)
  BY <1>35, Zenon DEF OpenForPruning, Goto, locals
<1>36. CASE CancelledBeforePruning(p)
  BY <1>36, Zenon DEF CancelledBeforePruning, Goto, locks, locals
<1>37. CASE ReturnGeneration(p)
  BY <1>37, Zenon DEF ReturnGeneration, Goto, locals
<1>38. CASE BeginRollback(p)
  BY <1>38, Zenon DEF BeginRollback, Goto, locks, locals
<1>39. CASE RollbackProjection(p)
  BY <1>39, Zenon DEF RollbackProjection, locks
<1>40. CASE LockShared(p)
  BY <1>40, Zenon DEF LockShared, Goto, locals
<1>41. CASE FindPending(p)
  BY <1>41, Zenon DEF FindPending, Goto, locals
<1>42. CASE LockExclusive(p)
  BY <1>42, Zenon DEF LockExclusive, Goto, locals
<1>43. CASE Downgrade(p)
  BY <1>43, Zenon DEF Downgrade, Goto, locals
<1>44. CASE Guard(p)
  BY <1>44, Zenon DEF Guard, Goto, locks, locals
<1>45. CASE RetainGeneration(p)
  BY <1>45, Zenon DEF RetainGeneration, Goto, locals
<1> QED
  BY <1>1, <1>2, <1>3, <1>4, <1>5, <1>6, <1>7, <1>8, <1>9, <1>10, <1>11, <1>12, <1>13,
       <1>14, <1>15, <1>16, <1>17, <1>18, <1>19, <1>20, <1>21, <1>22, <1>23, <1>24,
       <1>25, <1>26, <1>27, <1>28, <1>29, <1>30, <1>31, <1>32, <1>33, <1>34, <1>35,
       <1>36, <1>37, <1>38, <1>39, <1>40, <1>41, <1>42, <1>43, <1>44, <1>45, Zenon
     DEF Move, Step, Recover, Prune, Maintain, PublishStep, ReadStep

\* Files other than the index record change only at the labels of WorkLabels.
LEMMA WritesAreWork ==
  ASSUME NEW p \in Processes, DiskStep(p)
  PROVE  pc[p] \in WorkLabels \/ UNCHANGED files
<1> USE DEF files, WorkLabels, LockLabels, PublisherLabels, UpkeepLabels
<1>1. CASE RecoverRestore(p)
  BY <1>1, Zenon DEF RecoverRestore, locks
<1>2. CASE RecoverRemove(p)
  BY <1>2, Zenon DEF RecoverRemove, locks
<1>3. CASE RecoverComplete(p)
  BY <1>3, Zenon
     DEF RecoverComplete, AfterRecover, Metadata, Synced, Goto, locks, locals
<1>4. CASE PruneStep(p)
  BY <1>4, Zenon DEF PruneStep, Prunable, locks, locals
<1>5. CASE PruneDone(p)
  BY <1>5, Zenon DEF PruneDone, Goto
<1>6. CASE RetireBegin(p)
  BY <1>6, Zenon DEF RetireBegin, Goto, locks, locals
<1>7. CASE Unpublish(p)
  BY <1>7, Zenon DEF Unpublish, locks, locals
<1>8. CASE RetireMark(p)
  BY <1>8, Zenon DEF RetireMark, Goto, locks, locals
<1>9. CASE RetireDelete(p)
  BY <1>9, Zenon DEF RetireDelete, Metadata, Synced, NoReference, Goto, locks, locals
<1>10. CASE RegisterProduct(p)
  BY <1>10, Zenon DEF RegisterProduct, Goto, locals
<1>11. CASE CleanHistory(p)
  BY <1>11, Zenon DEF CleanHistory, Metadata, Synced, Goto, locks, locals
<1>12. CASE CommitGeneration(p)
  BY <1>12, Zenon DEF CommitGeneration, Metadata, Synced, Goto, locks, locals
<1>13. CASE RecordPublication(p)
  BY <1>13, Zenon DEF RecordPublication, Metadata, Synced, Goto, locks, locals
<1>14. CASE CommitProjection(p)
  BY <1>14, Zenon DEF CommitProjection, locks
<1>15. CASE SyncProjections(p)
  BY <1>15, Zenon DEF SyncProjections, SyncPublic, Goto, locks, locals
<1>16. CASE CommitReference(p)
  BY <1>16, Zenon DEF CommitReference, Metadata, Synced, Publish, Goto, locks, locals
<1>17. CASE CompletePublication(p)
  BY <1>17, Zenon DEF CompletePublication, Metadata, Synced, Goto, locks
<1>18. CASE RollbackProjection(p)
  BY <1>18, Zenon DEF RollbackProjection, locks
<1>19. CASE RollbackDone(p)
  BY <1>19, Zenon DEF RollbackDone, SyncPublic, Release, Goto
<1> QED
  BY <1>1, <1>2, <1>3, <1>4, <1>5, <1>6, <1>7, <1>8, <1>9, <1>10, <1>11, <1>12, <1>13,
       <1>14, <1>15, <1>16, <1>17, <1>18, <1>19, Zenon DEF DiskStep

-----------------------------------------------------------------------------
(* The course of a publication, and what the handles pin.                   *)

\* A step of p takes its own publication one stage on.
LEMMA CourseOwn ==
  ASSUME NEW p \in Processes, LocksOf(p), OpsOf(p), CourseOf(p), CurrentWhole,
         pc \in [Processes -> Labels],
         store \in [Generations -> {"absent", "whole", "torn"}],
         prior \in [Processes -> References],
         lease \in [Processes -> Generations \cup {None}],
         scratch \in [Processes -> {"none", "staged", "removed"}],
         gen \in [Processes -> Generations \cup {None}],
         reference.current \in Generations \cup {None}, None \notin Processes,
         None \notin Generations, Move(p)
  PROVE  CourseOf(p)'
<1> USE DEF LocksOf, OpsOf, CourseOf, CurrentWhole, Committing, RootLabels,
            PublisherLabels, LockLabels, PinLabels, BothLabels, UpkeepLabels
<1>1. CASE Open(p)
  BY <1>1, Zenon DEF Open, Goto, disk
<1>2. CASE Ends(p)
  BY <1>2, Zenon DEF Ends, Release, Goto
<1>3. CASE RecoverNothing(p)
  BY <1>3, Zenon DEF RecoverNothing, AfterRecover, Goto, disk, locks, locals
<1>4. CASE RecoverBegin(p)
  BY <1>4, Zenon DEF RecoverBegin, Goto, disk, locks
<1>5. CASE RecoverRestore(p)
  BY <1>5, Zenon DEF RecoverRestore, locks
<1>6. CASE RecoverRemove(p)
  BY <1>6, Zenon DEF RecoverRemove, locks
<1>7. CASE RecoverComplete(p)
  BY <1>7, Zenon
     DEF RecoverComplete, AfterRecover, Metadata, Synced, Goto, locks, locals
<1>8. CASE PruneStep(p)
  BY <1>8, Zenon DEF PruneStep, Prunable, locks, locals
<1>9. CASE PruneDone(p)
  BY <1>9, Zenon DEF PruneDone, Goto
<1>10. CASE PruneFailed(p)
  BY <1>10, Zenon DEF PruneFailed, Goto, disk, locals
<1>11. CASE MaintainProduct(p)
  BY <1>11, Zenon DEF MaintainProduct, Goto, disk, locks, locals
<1>12. CASE SkipMaintenance(p)
  BY <1>12, Zenon DEF SkipMaintenance, Goto, disk, locks, locals
<1>13. CASE RetireBegin(p)
  BY <1>13, Zenon DEF RetireBegin, Goto, locks, locals
<1>14. CASE RetireResume(p)
  BY <1>14, Zenon DEF RetireResume, Goto, disk, locks, locals
<1>15. CASE Unpublish(p)
  BY <1>15, Zenon DEF Unpublish, locks, locals
<1>16. CASE RetireMark(p)
  BY <1>16, Zenon DEF RetireMark, Goto, locks, locals
<1>17. CASE RetireDelete(p)
  BY <1>17, Zenon DEF RetireDelete, Metadata, Synced, NoReference, Goto, locks, locals
<1>18. CASE RegisterProduct(p)
  BY <1>18, Zenon DEF RegisterProduct, Goto, locals
<1>19. CASE CleanHistory(p)
  BY <1>19, Zenon DEF CleanHistory, Metadata, Synced, Goto, locks, locals
<1>20. CASE PinProduct(p)
  BY <1>20, Zenon DEF PinProduct, Goto, disk, locals
<1>21. CASE AcquirePublicationLock(p)
  BY <1>21, Zenon DEF AcquirePublicationLock, Goto, disk, locals
<1>22. CASE ReadPrior(p)
  BY <1>22, Zenon DEF ReadPrior, Goto, disk, locks
<1>23. CASE StageGeneration(p)
  BY <1>23, Zenon DEF StageGeneration, Goto, disk, locks
<1>24. CASE CommitGeneration(p)
  BY <1>24, Zenon DEF CommitGeneration, Metadata, Synced, Goto, locks, locals
<1>25. CASE PrepareProjections(p)
  BY <1>25, Zenon DEF PrepareProjections, Goto, disk, locks
<1>26. CASE RecordPublication(p)
  BY <1>26, Zenon DEF RecordPublication, Metadata, Synced, Goto, locks, locals
<1>27. CASE CommitProjection(p)
  BY <1>27, Zenon DEF CommitProjection, locks
<1>28. CASE SyncProjections(p)
  BY <1>28, Zenon DEF SyncProjections, SyncPublic, Goto, locks, locals
<1>29. CASE AcquireLease(p)
  BY <1>29, Zenon DEF AcquireLease, Goto, disk, locals
<1>30. CASE CommitReference(p)
  BY <1>30, Zenon DEF CommitReference, Metadata, Synced, Publish, Goto, locks, locals
<1>31. CASE CompletePublication(p)
  BY <1>31, Zenon DEF CompletePublication, Metadata, Synced, Goto, locks
<1>32. CASE OpenForPruning(p)
  BY <1>32, Zenon DEF OpenForPruning, Goto, disk, locals
<1>33. CASE CancelledBeforePruning(p)
  BY <1>33, Zenon DEF CancelledBeforePruning, Goto, disk, locks, locals
<1>34. CASE ReturnGeneration(p)
  BY <1>34, Zenon DEF ReturnGeneration, Goto, disk, locals
<1>35. CASE BeginRollback(p)
  BY <1>35, Zenon DEF BeginRollback, Goto, disk, locks, locals
<1>36. CASE RollbackProjection(p)
  BY <1>36, Zenon DEF RollbackProjection, locks
<1>37. CASE LockShared(p)
  BY <1>37, Zenon DEF LockShared, Goto, disk, locals
<1>38. CASE FindPending(p)
  BY <1>38, Zenon DEF FindPending, Goto, disk, locals
<1>39. CASE LockExclusive(p)
  BY <1>39, Zenon DEF LockExclusive, Goto, disk, locals
<1>40. CASE Downgrade(p)
  BY <1>40, Zenon DEF Downgrade, Goto, disk, locals
<1>41. CASE Guard(p)
  BY <1>41, Zenon DEF Guard, Goto, disk, locks, locals
<1>42. CASE RetainGeneration(p)
  BY <1>42, Zenon DEF RetainGeneration, Goto, disk, locals, Readable
<1> QED
  BY <1>1, <1>2, <1>3, <1>4, <1>5, <1>6, <1>7, <1>8, <1>9, <1>10, <1>11, <1>12, <1>13,
       <1>14, <1>15, <1>16, <1>17, <1>18, <1>19, <1>20, <1>21, <1>22, <1>23, <1>24,
       <1>25, <1>26, <1>27, <1>28, <1>29, <1>30, <1>31, <1>32, <1>33, <1>34, <1>35,
       <1>36, <1>37, <1>38, <1>39, <1>40, <1>41, <1>42, EndsBy, Zenon
     DEF Move, Step, Recover, Prune, Maintain, PublishStep, ReadStep

\* No pruning touches what a handle of another process leases.
LEMMA LeasedKept ==
  ASSUME NEW p \in Processes, NEW q \in Processes, q # p, LocksOf(p), LocksOf(q),
         OpsOf(p), pc[q] \in PinLabels, lease[q] \in Generations,
         store[lease[q]] = "whole",
         store \in [Generations -> {"absent", "whole", "torn"}], DiskStep(p)
  PROVE  store'[lease[q]] = "whole"
<1> USE DEF LocksOf, OpsOf, RootLabels, PublisherLabels, LockLabels, PinLabels,
            BothLabels, UpkeepLabels
<1>1. CASE RecoverRestore(p)
  BY <1>1, Zenon DEF RecoverRestore, locks
<1>2. CASE RecoverRemove(p)
  BY <1>2, Zenon DEF RecoverRemove, locks
<1>3. CASE RecoverComplete(p)
  BY <1>3, Zenon
     DEF RecoverComplete, AfterRecover, Metadata, Synced, Goto, locks, locals
<1>4. CASE PruneStep(p)
  BY <1>4, Zenon DEF PruneStep, Prunable, locks, locals
<1>5. CASE PruneDone(p)
  BY <1>5, Zenon DEF PruneDone, Goto
<1>6. CASE RetireBegin(p)
  BY <1>6, Zenon DEF RetireBegin, Goto, locks, locals
<1>7. CASE Unpublish(p)
  BY <1>7, Zenon DEF Unpublish, locks, locals
<1>8. CASE RetireMark(p)
  BY <1>8, Zenon DEF RetireMark, Goto, locks, locals
<1>9. CASE RetireDelete(p)
  BY <1>9, Zenon DEF RetireDelete, Metadata, Synced, NoReference, Goto, locks, locals
<1>10. CASE RegisterProduct(p)
  BY <1>10, Zenon DEF RegisterProduct, Goto, locals
<1>11. CASE CleanHistory(p)
  BY <1>11, Zenon DEF CleanHistory, Metadata, Synced, Goto, locks, locals
<1>12. CASE CommitGeneration(p)
  BY <1>12, Zenon DEF CommitGeneration, Metadata, Synced, Goto, locks, locals
<1>13. CASE RecordPublication(p)
  BY <1>13, Zenon DEF RecordPublication, Metadata, Synced, Goto, locks, locals
<1>14. CASE CommitProjection(p)
  BY <1>14, Zenon DEF CommitProjection, locks
<1>15. CASE SyncProjections(p)
  BY <1>15, Zenon DEF SyncProjections, SyncPublic, Goto, locks, locals
<1>16. CASE CommitReference(p)
  BY <1>16, Zenon DEF CommitReference, Metadata, Synced, Publish, Goto, locks, locals
<1>17. CASE CompletePublication(p)
  BY <1>17, Zenon DEF CompletePublication, Metadata, Synced, Goto, locks
<1>18. CASE RollbackProjection(p)
  BY <1>18, Zenon DEF RollbackProjection, locks
<1>19. CASE RollbackDone(p)
  BY <1>19, Zenon DEF RollbackDone, SyncPublic, Release, Goto
<1> QED
  BY <1>1, <1>2, <1>3, <1>4, <1>5, <1>6, <1>7, <1>8, <1>9, <1>10, <1>11, <1>12, <1>13,
       <1>14, <1>15, <1>16, <1>17, <1>18, <1>19, Zenon DEF DiskStep

\* ... and leaves the publication or the handle of another process alone.
LEMMA CourseOthers ==
  ASSUME NEW p \in Processes, NEW q \in Processes, q # p, LocksOf(p), LocksOf(q), OpsOf(p),
         CourseOf(q), LocalType, lease \in [Processes -> Generations \cup {None}],
         store \in [Generations -> {"absent", "whole", "torn"}], None \notin Processes,
         Move(p)
  PROVE  CourseOf(q)'
<1>1. Same(p, q)
  BY Elsewhere, Zenon
<1>2. CASE pc[p] \in WorkLabels
  <2>1. pc[q] \notin WorkLabels /\ exclusive # q
    BY <1>2, WorksAlone, Zenon
  <2>2. ASSUME pc[q] \in {"published", "retained"}
        PROVE  store'[lease[q]] = "whole"
    <3>1. pc[q] \in PinLabels /\ lease[q] \in Generations /\ store[lease[q]] = "whole"
      BY <2>2, Zenon DEF CourseOf, PinLabels
    <3>2. CASE DiskStep(p)
      BY <3>1, <3>2, LeasedKept, Zenon
    <3>3. CASE UNCHANGED disk
      BY <3>1, <3>3, Zenon DEF disk
    <3> QED
      BY <3>2, <3>3, QuietOrDisk, Zenon
  <2>3. scratch[q] # "staged" /\ scratch[q] # "removed"
    BY <2>1, Zenon DEF CourseOf, WorkLabels, LockLabels
  <2> QED
    BY <1>1, <2>1, <2>2, <2>3, Zenon
       DEF Same, CourseOf, Committing, WorkLabels, LockLabels, PublisherLabels,
           UpkeepLabels
<1>3. CASE pc[p] \notin WorkLabels
  <2>1. UNCHANGED files
    BY <1>3, QuietOrDisk, WritesAreWork, Zenon DEF files, disk
  <2>2. pc[p] # "prune"
    BY <1>3, Zenon DEF WorkLabels, UpkeepLabels
  <2> QED
    BY <1>1, <2>1, <2>2, Zenon DEF Same, files, CourseOf, Committing
<1> QED
  BY <1>2, <1>3, Zenon

-----------------------------------------------------------------------------
(* What the public paths hold while a publication or a recovery is under    *)
(* way.                                                                      *)

\* A promotion, a sync, a rollback or a recovery moves one path at a time.
LEMMA PathsOwn ==
  ASSUME NEW p \in Processes, LocksOf(p), OpsOf(p), CourseOf(p), PathsOf(p),
         pc \in [Processes -> Labels], todo \in [Processes -> SUBSET Paths],
         doomed \in [Processes -> SUBSET Paths], undo \in [Processes -> Backups],
         public \in [Paths -> Contents], durablePublic \in [Paths -> Contents],
         \A g \in Generations : Files[g] \in SUBSET Paths /\ Files[g] # None,
         None \notin Processes, None \notin Generations, Move(p)
  PROVE  PathsOf(p)'
<1> USE DEF LocksOf, OpsOf, CourseOf, PathsOf, ManifestPaths, RootLabels,
            PublisherLabels, LockLabels, PinLabels, BothLabels, UpkeepLabels
<1>1. CASE Open(p)
  BY <1>1, Zenon DEF Open, Goto, disk
<1>2. CASE Ends(p)
  BY <1>2, Zenon DEF Ends, Release, Goto
<1>3. CASE RecoverNothing(p)
  BY <1>3, Zenon DEF RecoverNothing, AfterRecover, Goto, disk, locks, locals
<1>4. CASE RecoverBegin(p)
  BY <1>4, Zenon DEF RecoverBegin, Goto, disk, locks
<1>5. CASE RecoverRestore(p)
  BY <1>5, SMT DEF RecoverRestore, locks
<1>6. CASE RecoverRemove(p)
  BY <1>6, SMT DEF RecoverRemove, locks
<1>7. CASE RecoverComplete(p)
  BY <1>7, Zenon
     DEF RecoverComplete, AfterRecover, Metadata, Synced, Goto, locks, locals
<1>8. CASE PruneStep(p)
  BY <1>8, Zenon DEF PruneStep, Prunable, locks, locals
<1>9. CASE PruneDone(p)
  BY <1>9, Zenon DEF PruneDone, Goto
<1>10. CASE PruneFailed(p)
  BY <1>10, Zenon DEF PruneFailed, Goto, disk, locals
<1>11. CASE MaintainProduct(p)
  BY <1>11, Zenon DEF MaintainProduct, Goto, disk, locks, locals
<1>12. CASE SkipMaintenance(p)
  BY <1>12, Zenon DEF SkipMaintenance, Goto, disk, locks, locals
<1>13. CASE RetireBegin(p)
  BY <1>13, Zenon DEF RetireBegin, Goto, locks, locals
<1>14. CASE RetireResume(p)
  BY <1>14, Zenon DEF RetireResume, Goto, disk, locks, locals
<1>15. CASE Unpublish(p)
  BY <1>15, Zenon DEF Unpublish, locks, locals
<1>16. CASE RetireMark(p)
  BY <1>16, Zenon DEF RetireMark, Goto, locks, locals
<1>17. CASE RetireDelete(p)
  BY <1>17, Zenon DEF RetireDelete, Metadata, Synced, NoReference, Goto, locks, locals
<1>18. CASE RegisterProduct(p)
  BY <1>18, Zenon DEF RegisterProduct, Goto, locals
<1>19. CASE CleanHistory(p)
  BY <1>19, Zenon DEF CleanHistory, Metadata, Synced, Goto, locks, locals
<1>20. CASE PinProduct(p)
  BY <1>20, Zenon DEF PinProduct, Goto, disk, locals
<1>21. CASE AcquirePublicationLock(p)
  BY <1>21, Zenon DEF AcquirePublicationLock, Goto, disk, locals
<1>22. CASE ReadPrior(p)
  BY <1>22, Zenon DEF ReadPrior, Goto, disk, locks
<1>23. CASE StageGeneration(p)
  BY <1>23, Zenon DEF StageGeneration, Goto, disk, locks
<1>24. CASE CommitGeneration(p)
  BY <1>24, Zenon DEF CommitGeneration, Metadata, Synced, Goto, locks, locals
<1>25. CASE PrepareProjections(p)
  BY <1>25, Zenon DEF PrepareProjections, Goto, disk, locks
<1>26. CASE RecordPublication(p)
  BY <1>26, Zenon DEF RecordPublication, Metadata, Synced, Goto, locks, locals
<1>27. CASE CommitProjection(p)
  BY <1>27, SMT DEF CommitProjection, locks
<1>28. CASE SyncProjections(p)
  BY <1>28, SMT DEF SyncProjections, SyncPublic, Goto, locks, locals
<1>29. CASE AcquireLease(p)
  BY <1>29, Zenon DEF AcquireLease, Goto, disk, locals
<1>30. CASE CommitReference(p)
  BY <1>30, Zenon DEF CommitReference, Metadata, Synced, Publish, Goto, locks, locals
<1>31. CASE CompletePublication(p)
  BY <1>31, ZenonT(60) DEF CompletePublication, Metadata, Synced, Goto, locks
<1>32. CASE OpenForPruning(p)
  BY <1>32, Zenon DEF OpenForPruning, Goto, disk, locals
<1>33. CASE CancelledBeforePruning(p)
  BY <1>33, Zenon DEF CancelledBeforePruning, Goto, disk, locks, locals
<1>34. CASE ReturnGeneration(p)
  BY <1>34, Zenon DEF ReturnGeneration, Goto, disk, locals
<1>35. CASE BeginRollback(p)
  BY <1>35, Zenon DEF BeginRollback, Goto, disk, locks, locals
<1>36. CASE RollbackProjection(p)
  BY <1>36, SMT DEF RollbackProjection, locks
<1>37. CASE LockShared(p)
  BY <1>37, Zenon DEF LockShared, Goto, disk, locals
<1>38. CASE FindPending(p)
  BY <1>38, Zenon DEF FindPending, Goto, disk, locals
<1>39. CASE LockExclusive(p)
  BY <1>39, Zenon DEF LockExclusive, Goto, disk, locals
<1>40. CASE Downgrade(p)
  BY <1>40, Zenon DEF Downgrade, Goto, disk, locals
<1>41. CASE Guard(p)
  BY <1>41, Zenon DEF Guard, Goto, disk, locks, locals
<1>42. CASE RetainGeneration(p)
  BY <1>42, Zenon DEF RetainGeneration, Goto, disk, locals
<1> QED
  BY <1>1, <1>2, <1>3, <1>4, <1>5, <1>6, <1>7, <1>8, <1>9, <1>10, <1>11, <1>12, <1>13,
       <1>14, <1>15, <1>16, <1>17, <1>18, <1>19, <1>20, <1>21, <1>22, <1>23, <1>24,
       <1>25, <1>26, <1>27, <1>28, <1>29, <1>30, <1>31, <1>32, <1>33, <1>34, <1>35,
       <1>36, <1>37, <1>38, <1>39, <1>40, <1>41, <1>42, EndsBy, Zenon
     DEF Move, Step, Recover, Prune, Maintain, PublishStep, ReadStep

\* What p must still clear is in its list.
LEMMA ClearedOwn ==
  ASSUME NEW p \in Processes, LocksOf(p), OpsOf(p), CourseOf(p), PathsOf(p), TidyInv,
         ClearedOf(p), pc \in [Processes -> Labels],
         todo \in [Processes -> SUBSET Paths], doomed \in [Processes -> SUBSET Paths],
         undo \in [Processes -> Backups], public \in [Paths -> Contents],
         \A g \in Generations : Files[g] \in SUBSET Paths /\ Files[g] # None,
         None \notin Processes, None \notin Generations, Absent \notin Generations,
         Move(p)
  PROVE  ClearedOf(p)'
<1> USE DEF LocksOf, OpsOf, CourseOf, PathsOf, ClearedOf, TidyInv, Named,
            ManifestPaths, RootLabels, PublisherLabels, LockLabels, PinLabels,
            BothLabels, UpkeepLabels
<1>1. CASE Open(p)
  BY <1>1, Zenon DEF Open, Goto, disk
<1>2. CASE Ends(p)
  BY <1>2, Zenon DEF Ends, Release, Goto
<1>3. CASE RecoverNothing(p)
  BY <1>3, Zenon DEF RecoverNothing, AfterRecover, Goto, disk, locks, locals
<1>4. CASE RecoverBegin(p)
  BY <1>4, Zenon DEF RecoverBegin, Goto, disk, locks
<1>5. CASE RecoverRestore(p)
  BY <1>5, SMT DEF RecoverRestore, locks
<1>6. CASE RecoverRemove(p)
  BY <1>6, SMT DEF RecoverRemove, locks
<1>7. CASE RecoverComplete(p)
  BY <1>7, ZenonT(60)
     DEF RecoverComplete, AfterRecover, Metadata, Synced, Goto, locks, locals
<1>8. CASE PruneStep(p)
  BY <1>8, Zenon DEF PruneStep, Prunable, locks, locals
<1>9. CASE PruneDone(p)
  BY <1>9, Zenon DEF PruneDone, Goto
<1>10. CASE PruneFailed(p)
  BY <1>10, Zenon DEF PruneFailed, Goto, disk, locals
<1>11. CASE MaintainProduct(p)
  BY <1>11, Zenon DEF MaintainProduct, Goto, disk, locks, locals
<1>12. CASE SkipMaintenance(p)
  BY <1>12, Zenon DEF SkipMaintenance, Goto, disk, locks, locals
<1>13. CASE RetireBegin(p)
  BY <1>13, Zenon DEF RetireBegin, Goto, locks, locals
<1>14. CASE RetireResume(p)
  BY <1>14, Zenon DEF RetireResume, Goto, disk, locks, locals
<1>15. CASE Unpublish(p)
  BY <1>15, Zenon DEF Unpublish, locks, locals
<1>16. CASE RetireMark(p)
  BY <1>16, Zenon DEF RetireMark, Goto, locks, locals
<1>17. CASE RetireDelete(p)
  BY <1>17, Zenon DEF RetireDelete, Metadata, Synced, NoReference, Goto, locks, locals
<1>18. CASE RegisterProduct(p)
  BY <1>18, Zenon DEF RegisterProduct, Goto, locals
<1>19. CASE CleanHistory(p)
  BY <1>19, Zenon DEF CleanHistory, Metadata, Synced, Goto, locks, locals
<1>20. CASE PinProduct(p)
  BY <1>20, Zenon DEF PinProduct, Goto, disk, locals
<1>21. CASE AcquirePublicationLock(p)
  BY <1>21, Zenon DEF AcquirePublicationLock, Goto, disk, locals
<1>22. CASE ReadPrior(p)
  BY <1>22, Zenon DEF ReadPrior, Goto, disk, locks
<1>23. CASE StageGeneration(p)
  BY <1>23, Zenon DEF StageGeneration, Goto, disk, locks
<1>24. CASE CommitGeneration(p)
  BY <1>24, Zenon DEF CommitGeneration, Metadata, Synced, Goto, locks, locals
<1>25. CASE PrepareProjections(p)
  BY <1>25, SMT DEF PrepareProjections, Goto, disk, locks
<1>26. CASE RecordPublication(p)
  BY <1>26, Zenon DEF RecordPublication, Metadata, Synced, Goto, locks, locals
<1>27. CASE CommitProjection(p)
  BY <1>27, SMT DEF CommitProjection, locks
<1>28. CASE SyncProjections(p)
  BY <1>28, Zenon DEF SyncProjections, SyncPublic, Goto, locks, locals
<1>29. CASE AcquireLease(p)
  BY <1>29, Zenon DEF AcquireLease, Goto, disk, locals
<1>30. CASE CommitReference(p)
  BY <1>30, Zenon DEF CommitReference, Metadata, Synced, Publish, Goto, locks, locals
<1>31. CASE CompletePublication(p)
  BY <1>31, Zenon DEF CompletePublication, Metadata, Synced, Goto, locks
<1>32. CASE OpenForPruning(p)
  BY <1>32, Zenon DEF OpenForPruning, Goto, disk, locals
<1>33. CASE CancelledBeforePruning(p)
  BY <1>33, Zenon DEF CancelledBeforePruning, Goto, disk, locks, locals
<1>34. CASE ReturnGeneration(p)
  BY <1>34, Zenon DEF ReturnGeneration, Goto, disk, locals
<1>35. CASE BeginRollback(p)
  BY <1>35, Zenon DEF BeginRollback, Goto, disk, locks, locals
<1>36. CASE RollbackProjection(p)
  BY <1>36, Zenon DEF RollbackProjection, locks
<1>37. CASE LockShared(p)
  BY <1>37, Zenon DEF LockShared, Goto, disk, locals
<1>38. CASE FindPending(p)
  BY <1>38, Zenon DEF FindPending, Goto, disk, locals
<1>39. CASE LockExclusive(p)
  BY <1>39, Zenon DEF LockExclusive, Goto, disk, locals
<1>40. CASE Downgrade(p)
  BY <1>40, Zenon DEF Downgrade, Goto, disk, locals
<1>41. CASE Guard(p)
  BY <1>41, Zenon DEF Guard, Goto, disk, locks, locals
<1>42. CASE RetainGeneration(p)
  BY <1>42, Zenon DEF RetainGeneration, Goto, disk, locals
<1> QED
  BY <1>1, <1>2, <1>3, <1>4, <1>5, <1>6, <1>7, <1>8, <1>9, <1>10, <1>11, <1>12, <1>13,
       <1>14, <1>15, <1>16, <1>17, <1>18, <1>19, <1>20, <1>21, <1>22, <1>23, <1>24,
       <1>25, <1>26, <1>27, <1>28, <1>29, <1>30, <1>31, <1>32, <1>33, <1>34, <1>35,
       <1>36, <1>37, <1>38, <1>39, <1>40, <1>41, <1>42, EndsBy, Zenon
     DEF Move, Step, Recover, Prune, Maintain, PublishStep, ReadStep

\* ... of p only.
LEMMA PathsOthers ==
  ASSUME NEW p \in Processes, NEW q \in Processes, q # p, LocksOf(p), LocksOf(q), PathsOf(q),
         LocalType, lease \in [Processes -> Generations \cup {None}], None \notin Processes,
         Move(p)
  PROVE  PathsOf(q)'
<1>1. Same(p, q)
  BY Elsewhere, Zenon
<1>2. CASE pc[p] \in WorkLabels
  <2>1. pc[q] \notin WorkLabels
    BY <1>2, WorksAlone, Zenon
  <2> QED
    BY <1>1, <2>1, Zenon DEF Same, PathsOf, WorkLabels, LockLabels, PublisherLabels, UpkeepLabels
<1>3. CASE pc[p] \notin WorkLabels
  <2>1. UNCHANGED files
    BY <1>3, QuietOrDisk, WritesAreWork, Zenon DEF files, disk
  <2> QED
    BY <1>1, <2>1, Zenon DEF Same, files, PathsOf
<1> QED
  BY <1>2, <1>3, Zenon

\* ... and p clears nothing for another process.
LEMMA ClearedOthers ==
  ASSUME NEW p \in Processes, NEW q \in Processes, q # p, LocksOf(p), LocksOf(q), ClearedOf(q),
         LocalType, lease \in [Processes -> Generations \cup {None}], None \notin Processes,
         Move(p)
  PROVE  ClearedOf(q)'
<1>1. Same(p, q)
  BY Elsewhere, Zenon
<1>2. CASE pc[p] \in WorkLabels
  <2>1. pc[q] \notin WorkLabels
    BY <1>2, WorksAlone, Zenon
  <2> QED
    BY <1>1, <2>1, Zenon DEF Same, ClearedOf, WorkLabels, LockLabels, PublisherLabels, UpkeepLabels
<1>3. CASE pc[p] \notin WorkLabels
  <2>1. UNCHANGED files
    BY <1>3, QuietOrDisk, WritesAreWork, Zenon DEF files, disk
  <2> QED
    BY <1>1, <2>1, Zenon DEF Same, files, ClearedOf
<1> QED
  BY <1>2, <1>3, Zenon

-----------------------------------------------------------------------------
(* What is on the disk, and what of it is synced.                           *)

\* Without a journal the committed files stay at their paths, on the disk too.
LEMMA VisibleStep ==
  ASSUME NEW p \in Processes, LocksOf(p), OpsOf(p), CourseOf(p), PathsOf(p),
         VisibleInv, DurableInv, pinned # {} => entry = "live",
         reference = [current |-> reference.current, previous |-> reference.previous],
         \A g \in Generations : Files[g] \in SUBSET Paths /\ Files[g] # None,
         public \in [Paths -> Contents], durablePublic \in [Paths -> Contents],
         None \notin Processes, None \notin Generations, DiskStep(p)
  PROVE  VisibleInv'
<1> USE DEF VisibleInv, DurableInv, LocksOf, OpsOf, CourseOf, PathsOf, Committing,
            ManifestPaths, RootLabels, PublisherLabels, LockLabels, PinLabels,
            BothLabels, UpkeepLabels
<1>1. CASE RecoverRestore(p)
  BY <1>1, Zenon DEF RecoverRestore, locks
<1>2. CASE RecoverRemove(p)
  BY <1>2, Zenon DEF RecoverRemove, locks
<1>3. CASE RecoverComplete(p)
  BY <1>3, Zenon
     DEF RecoverComplete, AfterRecover, Metadata, Synced, Goto, locks, locals
<1>4. CASE PruneStep(p)
  BY <1>4, Zenon DEF PruneStep, Prunable, locks, locals
<1>5. CASE PruneDone(p)
  BY <1>5, Zenon DEF PruneDone, Goto
<1>6. CASE RetireBegin(p)
  BY <1>6, Zenon DEF RetireBegin, Goto, locks, locals
<1>7. CASE Unpublish(p)
  BY <1>7, Zenon DEF Unpublish, locks, locals
<1>8. CASE RetireMark(p)
  BY <1>8, Zenon DEF RetireMark, Goto, locks, locals
<1>9. CASE RetireDelete(p)
  BY <1>9, Zenon DEF RetireDelete, Metadata, Synced, NoReference, Goto, locks, locals
<1>10. CASE RegisterProduct(p)
  BY <1>10, SMT DEF RegisterProduct, Goto, locals, NoReference
<1>11. CASE CleanHistory(p)
  <2>1. reference'.current = reference.current
    BY <1>11, SMT DEF CleanHistory, Metadata
  <2> QED
    BY <2>1, <1>11, Zenon DEF CleanHistory, Metadata, Goto, locks, locals
<1>12. CASE CommitGeneration(p)
  BY <1>12, Zenon DEF CommitGeneration, Metadata, Synced, Goto, locks, locals
<1>13. CASE RecordPublication(p)
  BY <1>13, Zenon DEF RecordPublication, Metadata, Synced, Goto, locks, locals
<1>14. CASE CommitProjection(p)
  BY <1>14, ZenonT(60) DEF CommitProjection, locks
<1>15. CASE SyncProjections(p)
  BY <1>15, Zenon DEF SyncProjections, SyncPublic, Goto, locks, locals
<1>16. CASE CommitReference(p)
  BY <1>16, Zenon DEF CommitReference, Metadata, Synced, Publish, Goto, locks, locals
<1>17. CASE CompletePublication(p)
  BY <1>17, SMT DEF CompletePublication, Metadata, Synced, Goto, locks
<1>18. CASE RollbackProjection(p)
  BY <1>18, ZenonT(60) DEF RollbackProjection, locks
<1>19. CASE RollbackDone(p)
  BY <1>19, Zenon DEF RollbackDone, SyncPublic, Release, Goto
<1> QED
  BY <1>1, <1>2, <1>3, <1>4, <1>5, <1>6, <1>7, <1>8, <1>9, <1>10, <1>11, <1>12, <1>13,
       <1>14, <1>15, <1>16, <1>17, <1>18, <1>19, Zenon DEF DiskStep

\* The generation the reference names stays whole.
LEMMA CurrentStep ==
  ASSUME NEW p \in Processes, LocksOf(p), OpsOf(p), CourseOf(p), PathsOf(p),
         CurrentWhole, store \in [Generations -> {"absent", "whole", "torn"}],
         reference = [current |-> reference.current, previous |-> reference.previous],
         None \notin Processes, None \notin Generations, DiskStep(p)
  PROVE  CurrentWhole'
<1> USE DEF CurrentWhole, LocksOf, OpsOf, CourseOf, PathsOf, Committing,
            ManifestPaths, RootLabels, PublisherLabels, LockLabels, PinLabels,
            BothLabels, UpkeepLabels
<1>1. CASE RecoverRestore(p)
  BY <1>1, Zenon DEF RecoverRestore, locks
<1>2. CASE RecoverRemove(p)
  BY <1>2, Zenon DEF RecoverRemove, locks
<1>3. CASE RecoverComplete(p)
  BY <1>3, Zenon
     DEF RecoverComplete, AfterRecover, Metadata, Synced, Goto, locks, locals
<1>4. CASE PruneStep(p)
  BY <1>4, SMT DEF PruneStep, Prunable, locks, locals
<1>5. CASE PruneDone(p)
  BY <1>5, Zenon DEF PruneDone, Goto
<1>6. CASE RetireBegin(p)
  BY <1>6, Zenon DEF RetireBegin, Goto, locks, locals
<1>7. CASE Unpublish(p)
  BY <1>7, Zenon DEF Unpublish, locks, locals
<1>8. CASE RetireMark(p)
  BY <1>8, Zenon DEF RetireMark, Goto, locks, locals
<1>9. CASE RetireDelete(p)
  BY <1>9, Zenon DEF RetireDelete, Metadata, Synced, NoReference, Goto, locks, locals
<1>10. CASE RegisterProduct(p)
  BY <1>10, Zenon DEF RegisterProduct, Goto, locals
<1>11. CASE CleanHistory(p)
  <2>1. reference'.current = reference.current
    BY <1>11, SMT DEF CleanHistory, Metadata
  <2> QED
    BY <2>1, <1>11, Zenon DEF CleanHistory, Metadata, Goto, locks, locals
<1>12. CASE CommitGeneration(p)
  BY <1>12, SMT DEF CommitGeneration, Metadata, Synced, Goto, locks, locals
<1>13. CASE RecordPublication(p)
  BY <1>13, Zenon DEF RecordPublication, Metadata, Synced, Goto, locks, locals
<1>14. CASE CommitProjection(p)
  BY <1>14, Zenon DEF CommitProjection, locks
<1>15. CASE SyncProjections(p)
  BY <1>15, Zenon DEF SyncProjections, SyncPublic, Goto, locks, locals
<1>16. CASE CommitReference(p)
  BY <1>16, Zenon DEF CommitReference, Metadata, Synced, Publish, Goto, locks, locals
<1>17. CASE CompletePublication(p)
  BY <1>17, Zenon DEF CompletePublication, Metadata, Synced, Goto, locks
<1>18. CASE RollbackProjection(p)
  BY <1>18, Zenon DEF RollbackProjection, locks
<1>19. CASE RollbackDone(p)
  BY <1>19, Zenon DEF RollbackDone, SyncPublic, Release, Goto
<1> QED
  BY <1>1, <1>2, <1>3, <1>4, <1>5, <1>6, <1>7, <1>8, <1>9, <1>10, <1>11, <1>12, <1>13,
       <1>14, <1>15, <1>16, <1>17, <1>18, <1>19, Zenon DEF DiskStep

\* So does the one before.
LEMMA PreviousStep ==
  ASSUME NEW p \in Processes, LocksOf(p), OpsOf(p), CourseOf(p), PathsOf(p),
         CurrentWhole, PreviousWhole,
         store \in [Generations -> {"absent", "whole", "torn"}],
         reference = [current |-> reference.current, previous |-> reference.previous],
         None \notin Processes, None \notin Generations, DiskStep(p)
  PROVE  PreviousWhole'
<1> USE DEF CurrentWhole, PreviousWhole, LocksOf, OpsOf, CourseOf, PathsOf,
            Committing, ManifestPaths, RootLabels, PublisherLabels, LockLabels,
            PinLabels, BothLabels, UpkeepLabels
<1>1. CASE RecoverRestore(p)
  BY <1>1, Zenon DEF RecoverRestore, locks
<1>2. CASE RecoverRemove(p)
  BY <1>2, Zenon DEF RecoverRemove, locks
<1>3. CASE RecoverComplete(p)
  BY <1>3, Zenon
     DEF RecoverComplete, AfterRecover, Metadata, Synced, Goto, locks, locals
<1>4. CASE PruneStep(p)
  BY <1>4, SMT DEF PruneStep, Prunable, locks, locals
<1>5. CASE PruneDone(p)
  BY <1>5, Zenon DEF PruneDone, Goto
<1>6. CASE RetireBegin(p)
  BY <1>6, Zenon DEF RetireBegin, Goto, locks, locals
<1>7. CASE Unpublish(p)
  BY <1>7, Zenon DEF Unpublish, locks, locals
<1>8. CASE RetireMark(p)
  BY <1>8, Zenon DEF RetireMark, Goto, locks, locals
<1>9. CASE RetireDelete(p)
  BY <1>9, Zenon DEF RetireDelete, Metadata, Synced, NoReference, Goto, locks, locals
<1>10. CASE RegisterProduct(p)
  BY <1>10, Zenon DEF RegisterProduct, Goto, locals
<1>11. CASE CleanHistory(p)
  BY <1>11, Zenon DEF CleanHistory, Metadata, Synced, Goto, locks, locals
<1>12. CASE CommitGeneration(p)
  BY <1>12, SMT DEF CommitGeneration, Metadata, Synced, Goto, locks, locals
<1>13. CASE RecordPublication(p)
  BY <1>13, Zenon DEF RecordPublication, Metadata, Synced, Goto, locks, locals
<1>14. CASE CommitProjection(p)
  BY <1>14, Zenon DEF CommitProjection, locks
<1>15. CASE SyncProjections(p)
  BY <1>15, Zenon DEF SyncProjections, SyncPublic, Goto, locks, locals
<1>16. CASE CommitReference(p)
  BY <1>16, Zenon DEF CommitReference, Metadata, Synced, Publish, Goto, locks, locals
<1>17. CASE CompletePublication(p)
  BY <1>17, Zenon DEF CompletePublication, Metadata, Synced, Goto, locks
<1>18. CASE RollbackProjection(p)
  BY <1>18, Zenon DEF RollbackProjection, locks
<1>19. CASE RollbackDone(p)
  BY <1>19, Zenon DEF RollbackDone, SyncPublic, Release, Goto
<1> QED
  BY <1>1, <1>2, <1>3, <1>4, <1>5, <1>6, <1>7, <1>8, <1>9, <1>10, <1>11, <1>12, <1>13,
       <1>14, <1>15, <1>16, <1>17, <1>18, <1>19, Zenon DEF DiskStep

\* What is synced stays one of the two, with its generation whole.
LEMMA DurableStep ==
  ASSUME NEW p \in Processes, LocksOf(p), OpsOf(p), CourseOf(p), PathsOf(p),
         pinned # {} => entry = "live", CurrentWhole, DurableInv,
         store \in [Generations -> {"absent", "whole", "torn"}],
         reference = [current |-> reference.current, previous |-> reference.previous],
         durable = [reference |-> durable.reference, journal |-> durable.journal, store |-> durable.store],
         \A g \in Generations : Files[g] \in SUBSET Paths /\ Files[g] # None,
         None \notin Processes, None \notin Generations, DiskStep(p)
  PROVE  DurableInv'
<1> USE DEF CurrentWhole, DurableInv, LocksOf, OpsOf, CourseOf, PathsOf, Committing,
            ManifestPaths, RootLabels, PublisherLabels, LockLabels, PinLabels,
            BothLabels, UpkeepLabels
<1>1. CASE RecoverRestore(p)
  BY <1>1, Zenon DEF RecoverRestore, locks
<1>2. CASE RecoverRemove(p)
  BY <1>2, Zenon DEF RecoverRemove, locks
<1>3. CASE RecoverComplete(p)
  BY <1>3, Zenon
     DEF RecoverComplete, AfterRecover, Metadata, Synced, Goto, locks, locals
<1>4. CASE PruneStep(p)
  BY <1>4, SMT DEF PruneStep, Prunable, locks, locals
<1>5. CASE PruneDone(p)
  BY <1>5, Zenon DEF PruneDone, Goto
<1>6. CASE RetireBegin(p)
  BY <1>6, Zenon DEF RetireBegin, Goto, locks, locals
<1>7. CASE Unpublish(p)
  BY <1>7, Zenon DEF Unpublish, locks, locals
<1>8. CASE RetireMark(p)
  BY <1>8, Zenon DEF RetireMark, Goto, locks, locals
<1>9. CASE RetireDelete(p)
  BY <1>9, Zenon DEF RetireDelete, Metadata, Synced, NoReference, Goto, locks, locals
<1>10. CASE RegisterProduct(p)
  BY <1>10, Zenon DEF RegisterProduct, Goto, locals
<1>11. CASE CleanHistory(p)
  BY <1>11, SMT DEF CleanHistory, Metadata, Synced, Goto, locks, locals
<1>12. CASE CommitGeneration(p)
  BY <1>12, SMT DEF CommitGeneration, Metadata, Synced, Goto, locks, locals
<1>13. CASE RecordPublication(p)
  <2>1. gen[p] \in Generations /\ Files[gen[p]] # None
    BY <1>13, Zenon DEF RecordPublication
  <2>2. /\ durable'.journal = Files[gen[p]] /\ durable'.reference = reference
        /\ durable'.store = store
    BY <1>13, SMT DEF RecordPublication, Metadata, Synced
  <2>3. reference' = reference /\ store' = store /\ entry' = entry /\ entry = "live"
    BY <1>13, Zenon DEF RecordPublication, Metadata
  <2> QED
    BY <2>1, <2>2, <2>3, Zenon
<1>14. CASE CommitProjection(p)
  BY <1>14, Zenon DEF CommitProjection, locks
<1>15. CASE SyncProjections(p)
  BY <1>15, Zenon DEF SyncProjections, SyncPublic, Goto, locks, locals
<1>16. CASE CommitReference(p)
  BY <1>16, SMT DEF CommitReference, Metadata, Synced, Publish, Goto, locks, locals
<1>17. CASE CompletePublication(p)
  BY <1>17, SMT DEF CompletePublication, Metadata, Synced, Goto, locks
<1>18. CASE RollbackProjection(p)
  BY <1>18, Zenon DEF RollbackProjection, locks
<1>19. CASE RollbackDone(p)
  BY <1>19, Zenon DEF RollbackDone, SyncPublic, Release, Goto
<1> QED
  BY <1>1, <1>2, <1>3, <1>4, <1>5, <1>6, <1>7, <1>8, <1>9, <1>10, <1>11, <1>12, <1>13,
       <1>14, <1>15, <1>16, <1>17, <1>18, <1>19, Zenon DEF DiskStep

\* No generation is left at a path that neither the reference nor the journal names.
LEMMA TidyStep ==
  ASSUME NEW p \in Processes, LocksOf(p), OpsOf(p), CourseOf(p), PathsOf(p),
         pinned # {} => entry = "live", DurableInv, TidyInv, ClearedOf(p),
         reference = [current |-> reference.current, previous |-> reference.previous],
         \A g \in Generations : Files[g] \in SUBSET Paths /\ Files[g] # None,
         public \in [Paths -> Contents], undo \in [Processes -> Backups],
         None \notin Processes, None \notin Generations, Absent \notin Generations,
         DiskStep(p)
  PROVE  TidyInv'
<1> USE DEF DurableInv, TidyInv, ClearedOf, Named, LocksOf, OpsOf, CourseOf, PathsOf,
            Committing, ManifestPaths, RootLabels, PublisherLabels, LockLabels,
            PinLabels, BothLabels, UpkeepLabels
<1>1. CASE RecoverRestore(p)
  BY <1>1, SMT DEF RecoverRestore, locks
<1>2. CASE RecoverRemove(p)
  BY <1>2, SMT DEF RecoverRemove, locks
<1>3. CASE RecoverComplete(p)
  BY <1>3, Zenon
     DEF RecoverComplete, AfterRecover, Metadata, Synced, Goto, locks, locals
<1>4. CASE PruneStep(p)
  BY <1>4, Zenon DEF PruneStep, Prunable, locks, locals
<1>5. CASE PruneDone(p)
  BY <1>5, Zenon DEF PruneDone, Goto
<1>6. CASE RetireBegin(p)
  BY <1>6, Zenon DEF RetireBegin, Goto, locks, locals
<1>7. CASE Unpublish(p)
  BY <1>7, Zenon DEF Unpublish, locks, locals
<1>8. CASE RetireMark(p)
  BY <1>8, SMT DEF RetireMark, Goto, locks, locals
<1>9. CASE RetireDelete(p)
  BY <1>9, Zenon DEF RetireDelete, Metadata, Synced, NoReference, Goto, locks, locals
<1>10. CASE RegisterProduct(p)
  BY <1>10, Zenon DEF RegisterProduct, Goto, locals
<1>11. CASE CleanHistory(p)
  <2>1. reference'.current = reference.current
    BY <1>11, SMT DEF CleanHistory, Metadata
  <2> QED
    BY <2>1, <1>11, Zenon DEF CleanHistory, Metadata, Goto, locks, locals
<1>12. CASE CommitGeneration(p)
  BY <1>12, Zenon DEF CommitGeneration, Metadata, Synced, Goto, locks, locals
<1>13. CASE RecordPublication(p)
  BY <1>13, Zenon DEF RecordPublication, Metadata, Synced, Goto, locks, locals
<1>14. CASE CommitProjection(p)
  BY <1>14, SMT DEF CommitProjection, locks
<1>15. CASE SyncProjections(p)
  BY <1>15, Zenon DEF SyncProjections, SyncPublic, Goto, locks, locals
<1>16. CASE CommitReference(p)
  BY <1>16, Zenon DEF CommitReference, Metadata, Synced, Publish, Goto, locks, locals
<1>17. CASE CompletePublication(p)
  BY <1>17, Zenon DEF CompletePublication, Metadata, Synced, Goto, locks
<1>18. CASE RollbackProjection(p)
  BY <1>18, SMT DEF RollbackProjection, locks
<1>19. CASE RollbackDone(p)
  BY <1>19, Zenon DEF RollbackDone, SyncPublic, Release, Goto
<1> QED
  BY <1>1, <1>2, <1>3, <1>4, <1>5, <1>6, <1>7, <1>8, <1>9, <1>10, <1>11, <1>12, <1>13,
       <1>14, <1>15, <1>16, <1>17, <1>18, <1>19, Zenon DEF DiskStep

-----------------------------------------------------------------------------
(* Types: of the locks, of what the processes hold, of the files.           *)

DiskType ==
  /\ reference \in References /\ journal \in Journals /\ store \in Stores
  /\ public \in [Paths -> Contents] /\ durablePublic \in [Paths -> Contents]
  /\ entry \in {"none", "live", "retiring", "removing"}
  /\ durable \in [reference : References, journal : Journals, store : Stores]

\* The type invariant, in three parts.
LEMMA TypeParts == TypeOK <=> DiskType /\ LockType /\ LocalType
  BY Zenon DEF TypeOK, DiskType, LockType, LocalType, Backups

\* No backup at all is a set of backups.
LEMMA NoBackup == <<>> \in Backups
<1>1. <<>> \in [{} -> Contents]
  OBVIOUS
<1> QED
  BY <1>1 DEF Backups

\* The files at some public paths are a set of backups.
LEMMA BackupOf ==
  ASSUME NEW S \in SUBSET Paths, public \in [Paths -> Contents]
  PROVE  [x \in S |-> public[x]] \in Backups
<1>1. [x \in S |-> public[x]] \in [S -> Contents]
  OBVIOUS
<1> QED
  BY <1>1 DEF Backups

\* A set of backups holds contents of public paths.
LEMMA BackupType ==
  ASSUME NEW u \in Backups
  PROVE  DOMAIN u \in SUBSET Paths /\ \A x \in DOMAIN u : u[x] \in Contents
<1>1. PICK S \in SUBSET Paths : u \in [S -> Contents]
  BY DEF Backups
<1> QED
  BY <1>1

\* A sync of typed metadata is typed.
LEMMA SyncedType ==
  ASSUME reference' \in References, journal' \in Journals, store' \in Stores, Synced
  PROVE  durable' \in [reference : References, journal : Journals, store : Stores]
  BY DEF Synced

\* The manifest of a reference lists public paths.
LEMMA ManifestType ==
  ASSUME NEW r \in References
  PROVE  ManifestPaths(r.current) \in SUBSET Paths
  BY FilesOfGeneration DEF ManifestPaths, References

\* A step keeps the types of the locks, and shared excludes exclusive.
LEMMA LockTypeStep ==
  ASSUME NEW p \in Processes, LocksOf(p), OpsOf(p), LockType,
         reference.current \in Generations \cup {None},
         gen \in [Processes -> Generations \cup {None}], None \notin Processes,
         Move(p)
  PROVE  LockType'
<1> USE DEF LocksOf, OpsOf, LockType, RootLabels, PublisherLabels, LockLabels,
            PinLabels, BothLabels, UpkeepLabels
<1>1. CASE Open(p)
  BY <1>1, Zenon DEF Open, Goto, disk
<1>2. CASE Ends(p)
  BY <1>2, Zenon DEF Ends, Release, Goto
<1>3. CASE RecoverNothing(p)
  BY <1>3, Zenon DEF RecoverNothing, AfterRecover, Goto, disk, locks, locals
<1>4. CASE RecoverBegin(p)
  BY <1>4, Zenon DEF RecoverBegin, Goto, disk, locks
<1>5. CASE RecoverRestore(p)
  BY <1>5, Zenon DEF RecoverRestore, locks
<1>6. CASE RecoverRemove(p)
  BY <1>6, Zenon DEF RecoverRemove, locks
<1>7. CASE RecoverComplete(p)
  BY <1>7, Zenon
     DEF RecoverComplete, AfterRecover, Metadata, Synced, Goto, locks, locals
<1>8. CASE PruneStep(p)
  BY <1>8, Zenon DEF PruneStep, Prunable, locks, locals
<1>9. CASE PruneDone(p)
  BY <1>9, Zenon DEF PruneDone, Goto
<1>10. CASE PruneFailed(p)
  BY <1>10, Zenon DEF PruneFailed, Goto, disk, locals
<1>11. CASE MaintainProduct(p)
  BY <1>11, Zenon DEF MaintainProduct, Goto, disk, locks, locals
<1>12. CASE SkipMaintenance(p)
  BY <1>12, Zenon DEF SkipMaintenance, Goto, disk, locks, locals
<1>13. CASE RetireBegin(p)
  BY <1>13, Zenon DEF RetireBegin, Goto, locks, locals
<1>14. CASE RetireResume(p)
  BY <1>14, Zenon DEF RetireResume, Goto, disk, locks, locals
<1>15. CASE Unpublish(p)
  BY <1>15, Zenon DEF Unpublish, locks, locals
<1>16. CASE RetireMark(p)
  BY <1>16, Zenon DEF RetireMark, Goto, locks, locals
<1>17. CASE RetireDelete(p)
  BY <1>17, Zenon DEF RetireDelete, Metadata, Synced, NoReference, Goto, locks, locals
<1>18. CASE RegisterProduct(p)
  BY <1>18, Zenon DEF RegisterProduct, Goto, locals
<1>19. CASE CleanHistory(p)
  BY <1>19, Zenon DEF CleanHistory, Metadata, Synced, Goto, locks, locals
<1>20. CASE PinProduct(p)
  BY <1>20, Zenon DEF PinProduct, Goto, disk, locals
<1>21. CASE AcquirePublicationLock(p)
  BY <1>21, Zenon DEF AcquirePublicationLock, Goto, disk, locals
<1>22. CASE ReadPrior(p)
  BY <1>22, Zenon DEF ReadPrior, Goto, disk, locks
<1>23. CASE StageGeneration(p)
  BY <1>23, Zenon DEF StageGeneration, Goto, disk, locks
<1>24. CASE CommitGeneration(p)
  BY <1>24, Zenon DEF CommitGeneration, Metadata, Synced, Goto, locks, locals
<1>25. CASE PrepareProjections(p)
  BY <1>25, Zenon DEF PrepareProjections, Goto, disk, locks
<1>26. CASE RecordPublication(p)
  BY <1>26, Zenon DEF RecordPublication, Metadata, Synced, Goto, locks, locals
<1>27. CASE CommitProjection(p)
  BY <1>27, Zenon DEF CommitProjection, locks
<1>28. CASE SyncProjections(p)
  BY <1>28, Zenon DEF SyncProjections, SyncPublic, Goto, locks, locals
<1>29. CASE AcquireLease(p)
  BY <1>29, Zenon DEF AcquireLease, Goto, disk, locals
<1>30. CASE CommitReference(p)
  BY <1>30, Zenon DEF CommitReference, Metadata, Synced, Publish, Goto, locks, locals
<1>31. CASE CompletePublication(p)
  BY <1>31, Zenon DEF CompletePublication, Metadata, Synced, Goto, locks
<1>32. CASE OpenForPruning(p)
  BY <1>32, Zenon DEF OpenForPruning, Goto, disk, locals
<1>33. CASE CancelledBeforePruning(p)
  BY <1>33, Zenon DEF CancelledBeforePruning, Goto, disk, locks, locals
<1>34. CASE ReturnGeneration(p)
  BY <1>34, Zenon DEF ReturnGeneration, Goto, disk, locals
<1>35. CASE BeginRollback(p)
  BY <1>35, Zenon DEF BeginRollback, Goto, disk, locks, locals
<1>36. CASE RollbackProjection(p)
  BY <1>36, Zenon DEF RollbackProjection, locks
<1>37. CASE LockShared(p)
  BY <1>37, Zenon DEF LockShared, Goto, disk, locals
<1>38. CASE FindPending(p)
  BY <1>38, Zenon DEF FindPending, Goto, disk, locals
<1>39. CASE LockExclusive(p)
  BY <1>39, Zenon DEF LockExclusive, Goto, disk, locals
<1>40. CASE Downgrade(p)
  BY <1>40, Zenon DEF Downgrade, Goto, disk, locals
<1>41. CASE Guard(p)
  BY <1>41, Zenon DEF Guard, Goto, disk, locks, locals
<1>42. CASE RetainGeneration(p)
  BY <1>42, Zenon DEF RetainGeneration, Goto, disk, locals
<1> QED
  BY <1>1, <1>2, <1>3, <1>4, <1>5, <1>6, <1>7, <1>8, <1>9, <1>10, <1>11, <1>12, <1>13,
       <1>14, <1>15, <1>16, <1>17, <1>18, <1>19, <1>20, <1>21, <1>22, <1>23, <1>24,
       <1>25, <1>26, <1>27, <1>28, <1>29, <1>30, <1>31, <1>32, <1>33, <1>34, <1>35,
       <1>36, <1>37, <1>38, <1>39, <1>40, <1>41, <1>42, EndsBy, Zenon
     DEF Move, Step, Recover, Prune, Maintain, PublishStep, ReadStep

\* A step keeps the types of what the processes hold.
LEMMA LocalTypeStep ==
  ASSUME NEW p \in Processes, OpsOf(p), LocalType, reference \in References,
         journal \in Journals, public \in [Paths -> Contents],
         \A g \in Generations : Files[g] \in SUBSET Paths /\ Files[g] # None,
         None \notin Processes, Move(p)
  PROVE  LocalType'
<1> USE DEF LocalType, Labels
<1>1. CASE Open(p)
  <2>1. PICK o \in Operations, g \in Generations, y \in Policies :
          /\ op' = [op EXCEPT ![p] = o]
          /\ gen' = [gen EXCEPT ![p] = IF o = "publish" THEN g ELSE None]
          /\ policy' = [policy EXCEPT ![p] = y]
    BY <1>1, Zenon DEF Open
  <2>2. o \in {"publish", "read", "retain", "clean"} /\ y \in {"replace", "absent"}
    BY RequestsAssumption, Zenon
  <2>3. started' \in Nat
    BY <1>1, SMT DEF Open
  <2> QED
    BY <1>1, <2>1, <2>2, <2>3, Zenon DEF Open, Goto, disk
<1>2. CASE Ends(p)
  <2>1. NoReference \in References
    BY DEF NoReference, References
  <2> QED
    BY <1>2, <2>1, NoBackup, Zenon DEF Ends, Release, Goto
<1>3. CASE RecoverNothing(p)
  BY <1>3, Zenon DEF RecoverNothing, AfterRecover, Goto, disk, locks, locals
<1>4. CASE RecoverBegin(p)
  <2>1. ManifestPaths(reference.current) \in SUBSET Paths
    BY ManifestType, Zenon
  <2>2. journal \ ManifestPaths(reference.current) \in SUBSET Paths
    <3>1. journal \in SUBSET Paths
      BY <1>4, Zenon DEF RecoverBegin, Journals
    <3> QED
      BY <3>1, Zenon
  <2> QED
    BY <1>4, <2>1, <2>2, Zenon DEF RecoverBegin, Goto, disk, locks
<1>5. CASE RecoverRestore(p)
  BY <1>5, SMT DEF RecoverRestore, locks
<1>6. CASE RecoverRemove(p)
  BY <1>6, SMT DEF RecoverRemove, locks
<1>7. CASE RecoverComplete(p)
  BY <1>7, Zenon
     DEF RecoverComplete, AfterRecover, Metadata, Synced, Goto, locks, locals
<1>8. CASE PruneStep(p)
  BY <1>8, Zenon DEF PruneStep, Prunable, locks, locals
<1>9. CASE PruneDone(p)
  BY <1>9, Zenon DEF PruneDone, Goto
<1>10. CASE PruneFailed(p)
  BY <1>10, Zenon DEF PruneFailed, Goto, disk, locals
<1>11. CASE MaintainProduct(p)
  BY <1>11, Zenon DEF MaintainProduct, Goto, disk, locks, locals
<1>12. CASE SkipMaintenance(p)
  BY <1>12, Zenon DEF SkipMaintenance, Goto, disk, locks, locals
<1>13. CASE RetireBegin(p)
  BY <1>13, Zenon DEF RetireBegin, Goto, locks, locals
<1>14. CASE RetireResume(p)
  BY <1>14, Zenon DEF RetireResume, Goto, disk, locks, locals
<1>15. CASE Unpublish(p)
  BY <1>15, Zenon DEF Unpublish, locks, locals
<1>16. CASE RetireMark(p)
  BY <1>16, Zenon DEF RetireMark, Goto, locks, locals
<1>17. CASE RetireDelete(p)
  BY <1>17, Zenon DEF RetireDelete, Metadata, Synced, NoReference, Goto, locks, locals
<1>18. CASE RegisterProduct(p)
  BY <1>18, Zenon DEF RegisterProduct, Goto, locals
<1>19. CASE CleanHistory(p)
  BY <1>19, Zenon DEF CleanHistory, Metadata, Synced, Goto, locks, locals
<1>20. CASE PinProduct(p)
  BY <1>20, Zenon DEF PinProduct, Goto, disk, locals
<1>21. CASE AcquirePublicationLock(p)
  BY <1>21, Zenon DEF AcquirePublicationLock, Goto, disk, locals
<1>22. CASE ReadPrior(p)
  BY <1>22, Zenon DEF ReadPrior, Goto, disk, locks
<1>23. CASE StageGeneration(p)
  BY <1>23, Zenon DEF StageGeneration, Goto, disk, locks
<1>24. CASE CommitGeneration(p)
  BY <1>24, Zenon DEF CommitGeneration, Metadata, Synced, Goto, locks, locals
<1>25. CASE PrepareProjections(p)
  <2> DEFINE touched ==
        Files[gen[p]] \cup {x \in ManifestPaths(prior[p].current) \ Files[gen[p]] :
                              public[x] # Absent}
  <2>1. gen[p] \in Generations
    BY <1>25, Zenon DEF PrepareProjections, OpsOf, PublisherLabels
  <2>2. ManifestPaths(prior[p].current) \in SUBSET Paths
    BY ManifestType, Zenon
  <2>3. touched \in SUBSET Paths
    BY <2>1, <2>2, Zenon
  <2>4. [x \in touched |-> public[x]] \in Backups
    BY <2>3, BackupOf, Zenon
  <2>5. /\ undo' = [undo EXCEPT ![p] = [x \in touched |-> public[x]]]
        /\ todo' = [todo EXCEPT ![p] = touched]
    BY <1>25, Zenon DEF PrepareProjections
  <2>6. /\ pc' = [pc EXCEPT ![p] = "prepared"]
        /\ UNCHANGED <<op, gen, policy, prior, doomed, scratch, started, losses>>
    BY <1>25, Zenon DEF PrepareProjections, Goto
  <2> HIDE DEF touched
  <2> QED
    BY <2>3, <2>4, <2>5, <2>6, Zenon
<1>26. CASE RecordPublication(p)
  BY <1>26, Zenon DEF RecordPublication, Metadata, Synced, Goto, locks, locals
<1>27. CASE CommitProjection(p)
  BY <1>27, SMT DEF CommitProjection, locks
<1>28. CASE SyncProjections(p)
  BY <1>28, Zenon DEF SyncProjections, SyncPublic, Goto, locks, locals
<1>29. CASE AcquireLease(p)
  BY <1>29, Zenon DEF AcquireLease, Goto, disk, locals
<1>30. CASE CommitReference(p)
  BY <1>30, Zenon DEF CommitReference, Metadata, Synced, Publish, Goto, locks, locals
<1>31. CASE CompletePublication(p)
  BY <1>31, Zenon DEF CompletePublication, Metadata, Synced, Goto, locks
<1>32. CASE OpenForPruning(p)
  BY <1>32, Zenon DEF OpenForPruning, Goto, disk, locals
<1>33. CASE CancelledBeforePruning(p)
  BY <1>33, Zenon DEF CancelledBeforePruning, Goto, disk, locks, locals
<1>34. CASE ReturnGeneration(p)
  BY <1>34, Zenon DEF ReturnGeneration, Goto, disk, locals
<1>35. CASE BeginRollback(p)
  BY <1>35, Zenon DEF BeginRollback, Goto, disk, locks, locals
<1>36. CASE RollbackProjection(p)
  <2>1. DOMAIN undo[p] \in SUBSET Paths
    BY BackupType, Zenon
  <2> QED
    BY <1>36, <2>1, SMT DEF RollbackProjection, locks
<1>37. CASE LockShared(p)
  BY <1>37, Zenon DEF LockShared, Goto, disk, locals
<1>38. CASE FindPending(p)
  BY <1>38, Zenon DEF FindPending, Goto, disk, locals
<1>39. CASE LockExclusive(p)
  BY <1>39, Zenon DEF LockExclusive, Goto, disk, locals
<1>40. CASE Downgrade(p)
  BY <1>40, Zenon DEF Downgrade, Goto, disk, locals
<1>41. CASE Guard(p)
  BY <1>41, Zenon DEF Guard, Goto, disk, locks, locals
<1>42. CASE RetainGeneration(p)
  BY <1>42, Zenon DEF RetainGeneration, Goto, disk, locals
<1> QED
  BY <1>1, <1>2, <1>3, <1>4, <1>5, <1>6, <1>7, <1>8, <1>9, <1>10, <1>11, <1>12, <1>13,
       <1>14, <1>15, <1>16, <1>17, <1>18, <1>19, <1>20, <1>21, <1>22, <1>23, <1>24,
       <1>25, <1>26, <1>27, <1>28, <1>29, <1>30, <1>31, <1>32, <1>33, <1>34, <1>35,
       <1>36, <1>37, <1>38, <1>39, <1>40, <1>41, <1>42, EndsBy, Zenon
     DEF Move, Step, Recover, Prune, Maintain, PublishStep, ReadStep

\* A step keeps the types of the files.
LEMMA DiskTypeStep ==
  ASSUME NEW p \in Processes, OpsOf(p), PathsOf(p), LocalType, DiskType,
         \A g \in Generations : Files[g] \in SUBSET Paths /\ Files[g] # None,
         DiskStep(p)
  PROVE  DiskType'
<1> USE DEF DiskType
<1>1. CASE RecoverRestore(p)
  <2>1. PICK x \in todo[p] :
          /\ public' = [public EXCEPT ![x] = reference.current]
          /\ durablePublic' = [durablePublic EXCEPT ![x] = reference.current]
    BY <1>1, Zenon DEF RecoverRestore
  <2>2. reference.current \in Contents
    BY <2>1, <1>1, SMT DEF RecoverRestore, PathsOf, References, Contents, ManifestPaths
  <2> QED
    BY <1>1, <2>1, <2>2, Zenon DEF RecoverRestore, locks
<1>2. CASE RecoverRemove(p)
  <2>1. public' \in [Paths -> Contents] /\ durablePublic' \in [Paths -> Contents]
    BY <1>2, Zenon DEF RecoverRemove, Contents, LocalType, locks
  <2> QED
    BY <1>2, <2>1, Zenon DEF RecoverRemove, locks, locals
<1>3. CASE RecoverComplete(p)
  <2>1. reference' \in References
    BY <1>3, Zenon DEF RecoverComplete, Metadata
  <2>2. journal' \in Journals
    BY <1>3, Zenon DEF RecoverComplete, Metadata, Journals
  <2>3. store' \in Stores
    BY <1>3, Zenon DEF RecoverComplete, Metadata
  <2>4. durable' \in [reference : References, journal : Journals, store : Stores]
    BY <1>3, <2>1, <2>2, <2>3, SyncedType, Zenon DEF RecoverComplete
  <2> QED
    BY <1>3, <2>1, <2>2, <2>3, <2>4, Zenon DEF RecoverComplete, locks, locals
<1>4. CASE PruneStep(p)
  <2>1. store' \in Stores
    BY <1>4, SMT DEF PruneStep, Prunable, Stores
  <2> QED
    BY <1>4, <2>1, Zenon DEF PruneStep, locks, locals
<1>5. CASE PruneDone(p)
  <2>1. durable' \in [reference : References, journal : Journals, store : Stores]
    BY <1>5, SMT DEF PruneDone
  <2> QED
    BY <1>5, <2>1, Zenon DEF PruneDone
<1>6. CASE RetireBegin(p)
  BY <1>6, Zenon DEF RetireBegin, Goto, locks, locals
<1>7. CASE Unpublish(p)
  <2>1. public' \in [Paths -> Contents] /\ durablePublic' \in [Paths -> Contents]
    BY <1>7, Zenon DEF Unpublish, Contents, ManifestPaths, locks
  <2> QED
    BY <1>7, <2>1, Zenon DEF Unpublish, locks, locals
<1>8. CASE RetireMark(p)
  BY <1>8, Zenon DEF RetireMark, Goto, locks, locals
<1>9. CASE RetireDelete(p)
  <2>1. reference' \in References
    BY <1>9, SMT DEF RetireDelete, Metadata, References, NoReference
  <2>2. journal' \in Journals
    BY <1>9, Zenon DEF RetireDelete, Metadata, Journals
  <2>3. store' \in Stores
    BY <1>9, SMT DEF RetireDelete, Metadata, Stores
  <2>4. durable' \in [reference : References, journal : Journals, store : Stores]
    BY <1>9, <2>1, <2>2, <2>3, SyncedType, Zenon DEF RetireDelete
  <2> QED
    BY <1>9, <2>1, <2>2, <2>3, <2>4, Zenon DEF RetireDelete, locks, locals
<1>10. CASE RegisterProduct(p)
  BY <1>10, Zenon DEF RegisterProduct, Goto, locals
<1>11. CASE CleanHistory(p)
  <2>1. reference' \in References
    BY <1>11, SMT DEF CleanHistory, Metadata, References
  <2>2. journal' \in Journals
    BY <1>11, Zenon DEF CleanHistory, Metadata
  <2>3. store' \in Stores
    BY <1>11, Zenon DEF CleanHistory, Metadata
  <2>4. durable' \in [reference : References, journal : Journals, store : Stores]
    BY <1>11, <2>1, <2>2, <2>3, SyncedType, Zenon DEF CleanHistory
  <2> QED
    BY <1>11, <2>1, <2>2, <2>3, <2>4, Zenon DEF CleanHistory, locks, locals
<1>12. CASE CommitGeneration(p)
  <2>1. reference' \in References
    BY <1>12, Zenon DEF CommitGeneration, Metadata
  <2>2. journal' \in Journals
    BY <1>12, Zenon DEF CommitGeneration, Metadata
  <2>3. store' \in Stores
    BY <1>12, Zenon DEF CommitGeneration, Metadata, Stores
  <2>4. durable' \in [reference : References, journal : Journals, store : Stores]
    BY <1>12, <2>1, <2>2, <2>3, SyncedType, Zenon DEF CommitGeneration
  <2> QED
    BY <1>12, <2>1, <2>2, <2>3, <2>4, Zenon DEF CommitGeneration, locks, locals
<1>13. CASE RecordPublication(p)
  <2>1. reference' \in References
    BY <1>13, Zenon DEF RecordPublication, Metadata
  <2>2. journal' \in Journals
    <3>1. Files[gen[p]] \in SUBSET Paths
      BY <1>13, Zenon DEF RecordPublication, OpsOf, PublisherLabels
    <3> QED
      BY <1>13, <3>1, Zenon DEF RecordPublication, Metadata, Journals
  <2>3. store' \in Stores
    BY <1>13, Zenon DEF RecordPublication, Metadata
  <2>4. durable' \in [reference : References, journal : Journals, store : Stores]
    BY <1>13, <2>1, <2>2, <2>3, SyncedType, Zenon DEF RecordPublication
  <2> QED
    BY <1>13, <2>1, <2>2, <2>3, <2>4, Zenon DEF RecordPublication, locks, locals
<1>14. CASE CommitProjection(p)
  <2>1. gen[p] \in Contents /\ Absent \in Contents
    BY <1>14, Zenon DEF CommitProjection, OpsOf, PublisherLabels, Contents
  <2>2. public' \in [Paths -> Contents]
    BY <1>14, <2>1, Zenon DEF CommitProjection, locks
  <2> QED
    BY <1>14, <2>2, Zenon DEF CommitProjection, locks
<1>15. CASE SyncProjections(p)
  BY <1>15, Zenon DEF SyncProjections, SyncPublic, Goto, locks, locals
<1>16. CASE CommitReference(p)
  <2>1. reference' \in References
    <3>1. gen[p] \in Generations
      BY <1>16, Zenon DEF CommitReference, OpsOf, PublisherLabels
    <3> QED
      BY <1>16, <3>1, SMT DEF CommitReference, Metadata, Publish, References, LocalType
  <2>2. journal' \in Journals
    BY <1>16, Zenon DEF CommitReference, Metadata
  <2>3. store' \in Stores
    BY <1>16, Zenon DEF CommitReference, Metadata
  <2>4. durable' \in [reference : References, journal : Journals, store : Stores]
    BY <1>16, <2>1, <2>2, <2>3, SyncedType, Zenon DEF CommitReference
  <2> QED
    BY <1>16, <2>1, <2>2, <2>3, <2>4, Zenon DEF CommitReference, locks, locals
<1>17. CASE CompletePublication(p)
  <2>1. reference' \in References
    BY <1>17, Zenon DEF CompletePublication, Metadata
  <2>2. journal' \in Journals
    BY <1>17, Zenon DEF CompletePublication, Metadata, Journals
  <2>3. store' \in Stores
    BY <1>17, Zenon DEF CompletePublication, Metadata
  <2>4. durable' \in [reference : References, journal : Journals, store : Stores]
    BY <1>17, <2>1, <2>2, <2>3, SyncedType, Zenon DEF CompletePublication
  <2> QED
    BY <1>17, <2>1, <2>2, <2>3, <2>4, Zenon DEF CompletePublication, locks, locals
<1>18. CASE RollbackProjection(p)
  <2>1. \A x \in DOMAIN undo[p] : undo[p][x] \in Contents
    BY BackupType, Zenon DEF LocalType
  <2>2. public' \in [Paths -> Contents]
    BY <1>18, <2>1, Zenon DEF RollbackProjection
  <2> QED
    BY <1>18, <2>2, Zenon DEF RollbackProjection, locks
<1>19. CASE RollbackDone(p)
  BY <1>19, Zenon DEF RollbackDone, SyncPublic, Release, Goto
<1> QED
  BY <1>1, <1>2, <1>3, <1>4, <1>5, <1>6, <1>7, <1>8, <1>9, <1>10, <1>11, <1>12, <1>13,
       <1>14, <1>15, <1>16, <1>17, <1>18, <1>19, Zenon DEF DiskStep

-----------------------------------------------------------------------------
(* Every step of a process keeps the invariant.                             *)

\* The type invariant, as the lemmas above assume it.
LEMMA StoreTypes ==
  ASSUME StoreInv
  PROVE  /\ DiskType /\ LockType /\ LocalType
         /\ pc \in [Processes -> Labels]
         /\ op \in [Processes -> {"publish", "read", "retain", "clean"}]
         /\ gen \in [Processes -> Generations \cup {None}]
         /\ prior \in [Processes -> References]
         /\ todo \in [Processes -> SUBSET Paths] /\ doomed \in [Processes -> SUBSET Paths]
         /\ undo \in [Processes -> Backups]
         /\ scratch \in [Processes -> {"none", "staged", "removed"}]
         /\ lease \in [Processes -> Generations \cup {None}]
         /\ store \in [Generations -> {"absent", "whole", "torn"}]
         /\ public \in [Paths -> Contents] /\ durablePublic \in [Paths -> Contents]
         /\ reference \in References /\ journal \in Journals
         /\ pinned # {} => entry = "live"
<1>1. DiskType /\ LockType /\ LocalType
  BY TypeParts, Zenon DEF StoreInv
<1> QED
  BY <1>1, Zenon DEF DiskType, LockType, LocalType, Stores, StoreInv, LocksInv

\* The records of the reference and of the synced metadata, spelled out.
LEMMA StoreRecords ==
  ASSUME StoreInv
  PROVE  /\ reference.current \in Generations \cup {None}
         /\ reference = [current |-> reference.current, previous |-> reference.previous]
         /\ durable = [reference |-> durable.reference, journal |-> durable.journal,
                       store |-> durable.store]
<1>1. DiskType
  BY StoreTypes, Zenon
<1>2. reference \in References
  BY <1>1, Zenon DEF DiskType
<1>3. durable \in [reference : References, journal : Journals, store : Stores]
  BY <1>1, Zenon DEF DiskType
<1>4. /\ reference.current \in Generations \cup {None}
      /\ reference = [current |-> reference.current, previous |-> reference.previous]
  BY <1>2, SMT DEF References
<1>5. durable = [reference |-> durable.reference, journal |-> durable.journal,
                 store |-> durable.store]
  BY <1>3, SMT
<1> QED
  BY <1>4, <1>5, Zenon

\* The invariant of one process and of the disk.
LEMMA StoreParts ==
  ASSUME StoreInv, NEW p \in Processes
  PROVE  /\ LocksOf(p) /\ OpsOf(p) /\ CourseOf(p) /\ PathsOf(p)
         /\ VisibleInv /\ DurableInv /\ CurrentWhole
  BY Zenon DEF StoreInv, LocksInv, OpsInv, CourseInv, PathsInv

\* A step of a process, its death included, keeps StoreInv.
LEMMA MoveKeepsStore ==
  ASSUME StoreInv, NEW p \in Processes, Move(p)
  PROVE  StoreInv'
<1>1. LocksInv'
  <2>1. \A q \in Processes : LocksOf(q)' /\ (pinned # {} => entry = "live")'
    BY StoreTypes, StoreParts, NamesApart, LocksStep, Zenon
  <2> QED
    BY <2>1, Zenon DEF LocksInv
<1>2. OpsInv'
  <2>1. \A q \in Processes : OpsOf(q)'
    BY StoreTypes, StoreParts, NamesApart, OpsStep, Zenon
  <2> QED
    BY <2>1, Zenon DEF OpsInv
<1>3. CourseInv'
  <2>1. CourseOf(p)'
    BY StoreTypes, StoreRecords, StoreParts, NamesApart, CourseOwn, Zenon
  <2>2. ASSUME NEW q \in Processes, q # p
        PROVE  CourseOf(q)'
    BY <2>2, StoreTypes, StoreParts, NamesApart, CourseOthers, Zenon
  <2> QED
    BY <2>1, <2>2, Zenon DEF CourseInv
<1>4. PathsInv'
  <2>1. PathsOf(p)'
    BY StoreTypes, StoreParts, NamesApart, FilesOfGeneration, PathsOwn, Zenon
  <2>2. ASSUME NEW q \in Processes, q # p
        PROVE  PathsOf(q)'
    BY <2>2, StoreTypes, StoreParts, NamesApart, PathsOthers, Zenon
  <2> QED
    BY <2>1, <2>2, Zenon DEF PathsInv
<1>5. TypeOK'
  <2>1. LockType'
    BY StoreTypes, StoreRecords, StoreParts, NamesApart, LockTypeStep, Zenon
  <2>2. LocalType'
    BY StoreTypes, StoreParts, NamesApart, FilesOfGeneration, LocalTypeStep, Zenon
  <2>3. DiskType'
    <3>1. CASE DiskStep(p)
      BY <3>1, StoreTypes, StoreParts, FilesOfGeneration, DiskTypeStep, Zenon
    <3>2. CASE UNCHANGED disk
      BY <3>2, StoreTypes, Zenon DEF disk, DiskType
    <3> QED
      BY <3>1, <3>2, QuietOrDisk, Zenon
  <2> QED
    BY <2>1, <2>2, <2>3, Zenon DEF TypeOK, DiskType, LockType, LocalType, Backups
<1>6. VisibleInv' /\ DurableInv' /\ CurrentWhole'
  <2>1. CASE DiskStep(p)
    <3>1. VisibleInv'
      BY <2>1, StoreTypes, StoreRecords, StoreParts, NamesApart, FilesOfGeneration,
         VisibleStep, Zenon
    <3>2. DurableInv'
      BY <2>1, StoreTypes, StoreRecords, StoreParts, NamesApart, FilesOfGeneration,
         DurableStep, Zenon
    <3>3. CurrentWhole'
      BY <2>1, StoreTypes, StoreRecords, StoreParts, NamesApart, CurrentStep, Zenon
    <3> QED
      BY <3>1, <3>2, <3>3, Zenon
  <2>2. CASE UNCHANGED disk
    <3>1. VisibleInv /\ DurableInv /\ CurrentWhole
      BY StoreParts, Zenon
    <3> QED
      BY <2>2, <3>1, Zenon DEF disk, VisibleInv, DurableInv, CurrentWhole
  <2> QED
    BY <2>1, <2>2, QuietOrDisk, Zenon
<1> QED
  BY <1>1, <1>2, <1>3, <1>4, <1>5, <1>6, Zenon DEF StoreInv

\* ... and, without power losses, TidyStore.
LEMMA MoveKeepsTidy ==
  ASSUME StoreInv, TidyStore, NEW p \in Processes, Move(p)
  PROVE  TidyStore'
<1>1. Absent \notin Generations
  BY NamesAssumption
<1>2. PreviousWhole /\ TidyInv /\ \A q \in Processes : ClearedOf(q)
  BY Zenon DEF TidyStore, ClearedInv
<1>3. ClearedInv'
  <2>1. ClearedOf(p)'
    BY <1>1, <1>2, StoreTypes, StoreParts, NamesApart, FilesOfGeneration, ClearedOwn, Zenon
  <2>2. ASSUME NEW q \in Processes, q # p
        PROVE  ClearedOf(q)'
    BY <1>2, <2>2, StoreTypes, StoreParts, NamesApart, ClearedOthers, Zenon
  <2> QED
    BY <2>1, <2>2, Zenon DEF ClearedInv
<1>4. PreviousWhole' /\ TidyInv'
  <2>1. CASE DiskStep(p)
    <3>1. PreviousWhole'
      BY <1>2, <2>1, StoreTypes, StoreRecords, StoreParts, NamesApart, PreviousStep, Zenon
    <3>2. TidyInv'
      BY <1>1, <1>2, <2>1, StoreTypes, StoreRecords, StoreParts, NamesApart,
         FilesOfGeneration, TidyStep, Zenon
    <3> QED
      BY <3>1, <3>2, Zenon
  <2>2. CASE UNCHANGED disk
    BY <1>2, <2>2, Zenon DEF disk, PreviousWhole, TidyInv, Named
  <2> QED
    BY <2>1, <2>2, QuietOrDisk, Zenon
<1> QED
  BY <1>3, <1>4, Zenon DEF TidyStore

-----------------------------------------------------------------------------
(* The initial states, and a power loss.                                    *)

\* Every process is idle, and holds nothing.
Idle ==
  /\ root = None /\ exclusive = None /\ shared = {} /\ pinned = {}
  /\ lease = [p \in Processes |-> None]
  /\ pc = [p \in Processes |-> "idle"] /\ op = [p \in Processes |-> "read"]
  /\ gen = [p \in Processes |-> None] /\ policy = [p \in Processes |-> "replace"]
  /\ prior = [p \in Processes |-> NoReference] /\ todo = [p \in Processes |-> {}]
  /\ doomed = [p \in Processes |-> {}] /\ undo = [p \in Processes |-> <<>>]
  /\ scratch = [p \in Processes |-> "none"]
  /\ started \in Nat /\ losses \in Nat

\* The invariants of idle processes hold.
LEMMA IdleParts == Idle => LocksInv /\ OpsInv /\ CourseInv /\ PathsInv /\ ClearedInv
<1> SUFFICES ASSUME Idle, NEW q \in Processes
             PROVE  /\ LocksOf(q) /\ OpsOf(q) /\ CourseOf(q) /\ PathsOf(q) /\ ClearedOf(q)
                    /\ pinned = {}
  BY Zenon DEF LocksInv, OpsInv, CourseInv, PathsInv, ClearedInv, Idle
<1>1. /\ pc[q] = "idle" /\ op[q] = "read" /\ scratch[q] = "none"
      /\ exclusive # q /\ root # q /\ shared = {} /\ pinned = {}
  BY NamesApart, Zenon DEF Idle
<1>2. LocksOf(q)
  BY <1>1, Zenon DEF LocksOf, RootLabels, PublisherLabels, LockLabels, PinLabels,
                     BothLabels, UpkeepLabels
<1>3. OpsOf(q)
  BY <1>1, Zenon DEF OpsOf, PublisherLabels, UpkeepLabels
<1>4. CourseOf(q) /\ PathsOf(q) /\ ClearedOf(q)
  BY <1>1, Zenon DEF CourseOf, Committing, PathsOf, ClearedOf
<1> QED
  BY <1>1, <1>2, <1>3, <1>4, Zenon

\* ... and so do their types.
LEMMA IdleTypes == Idle => LockType /\ LocalType
<1>1. NoReference \in References
  BY DEF NoReference, References
<1>2. Idle => LockType
  BY DEF Idle, LockType
<1>3. Idle => LocalType
  BY <1>1, NoBackup DEF Idle, LocalType, Labels
<1> QED
  BY <1>2, <1>3, Zenon

\* The empty store satisfies the invariant.
LEMMA InitKeeps == Init => StoreInv /\ TidyStore
<1> SUFFICES ASSUME Init
             PROVE  StoreInv /\ TidyStore
  OBVIOUS
<1>0. 0 \in Nat
  OBVIOUS
<1>1. Idle
  BY <1>0, Zenon DEF Init, Idle
<1>2. /\ LockType /\ LocalType
      /\ LocksInv /\ OpsInv /\ CourseInv /\ PathsInv /\ ClearedInv
  BY <1>1, IdleParts, IdleTypes, Zenon
<1>3. DiskType
  <2>1. NoReference \in References /\ None \in Journals
    BY DEF NoReference, References, Journals
  <2>2. store \in Stores /\ public \in [Paths -> Contents]
    BY Zenon DEF Init, Stores, Contents
  <2>3. durable \in [reference : References, journal : Journals, store : Stores]
    BY <2>1, <2>2, Zenon DEF Init
  <2> QED
    BY <2>1, <2>2, <2>3, Zenon DEF Init, DiskType
<1>4. reference.current = None /\ reference.previous = None
  BY DEF Init, NoReference
<1>5. VisibleInv /\ CurrentWhole /\ PreviousWhole
  BY <1>4, Zenon DEF VisibleInv, CurrentWhole, PreviousWhole, ManifestPaths
<1>6. DurableInv
  <2>1. durable.reference = NoReference /\ durable.journal = None
    BY DEF Init
  <2> QED
    BY <1>4, <2>1, Zenon DEF Init, DurableInv
<1>7. TidyInv
  <2>1. Absent \notin Generations /\ Foreign \notin Generations
    BY NamesAssumption
  <2> QED
    BY <2>1, Zenon DEF Init, TidyInv
<1> QED
  BY <1>2, <1>3, <1>5, <1>6, <1>7, TypeParts, Zenon DEF StoreInv, TidyStore

\* A power loss keeps StoreInv, whatever of the unsynced changes it takes.
LEMMA LossKeepsStore ==
  ASSUME StoreInv, PowerLoss
  PROVE  StoreInv'
<1> DEFINE now == [reference |-> reference, journal |-> journal, store |-> store]
           Left(m) == [g \in Generations |->
                         IF m.store[g] = "whole" /\ store[g] # "whole" THEN "torn"
                                                                        ELSE m.store[g]]
<1>1. PICK m \in {durable, now} : \E s \in {m.store, Left(m)} :
        Metadata(m.reference, m.journal, s) /\ Synced
  BY Zenon DEF PowerLoss
<1>2. PICK s \in {m.store, Left(m)} : Metadata(m.reference, m.journal, s) /\ Synced
  BY <1>1, Zenon
<1>3. /\ DiskType /\ VisibleInv /\ DurableInv /\ CurrentWhole /\ losses \in Nat
      /\ started \in Nat
  BY StoreTypes, Zenon DEF StoreInv, LocalType
<1>4. m \in [reference : References, journal : Journals, store : Stores]
  BY <1>3, SMT DEF DiskType
<1>5. s \in Stores
  BY <1>4, SMT DEF Stores
<1>6. /\ m.journal = None => journal = None /\ m.reference = reference
      /\ m.reference.current # None /\ entry # "removing" =>
           store[m.reference.current] = "whole" /\ m.store[m.reference.current] = "whole"
      /\ entry = "none" => m.reference = NoReference /\ m.journal = None
  <2>1. CASE m = durable
    BY <1>3, <2>1, Zenon DEF DurableInv
  <2>2. CASE m = now
    <3>1. m.journal = journal /\ m.reference = reference /\ m.store = store
      BY <2>2, SMT
    <3> QED
      BY <1>3, <3>1, Zenon DEF DurableInv, CurrentWhole
  <2> QED
    BY <2>1, <2>2, Zenon
<1>7. m.reference.current # None /\ entry # "removing" => s[m.reference.current] = "whole"
  <2>1. m.reference.current \in Generations \cup {None}
    BY <1>4, SMT DEF References
  <2> QED
    BY <1>6, <2>1, Zenon
<1>8. /\ reference' = m.reference /\ journal' = m.journal /\ store' = s
      /\ durable' = [reference |-> m.reference, journal |-> m.journal, store |-> s]
  BY <1>2, Zenon DEF Metadata, Synced
<1>9. /\ durable'.reference = m.reference /\ durable'.journal = m.journal
      /\ durable'.store = s
  BY <1>8, SMT
<1>10. /\ entry' = entry /\ durablePublic' = public' /\ public' \in [Paths -> Contents]
       /\ \A x \in Paths : public'[x] \in {public[x], durablePublic[x]}
  BY Zenon DEF PowerLoss
<1>11. m.reference \in References /\ m.journal \in Journals
  BY <1>4, SMT
<1> HIDE DEF now, Left
<1>12. Idle'
  <2>1. losses' \in Nat
    BY <1>3, SMT DEF PowerLoss
  <2> QED
    BY <1>3, <2>1, Zenon DEF PowerLoss, Idle
<1>13. (LocksInv /\ OpsInv /\ CourseInv /\ PathsInv)'
  BY <1>12, IdleParts, PTL
<1>14. LockType' /\ LocalType'
  BY <1>12, IdleTypes, PTL
<1>15. DiskType'
  <2>1. durable' \in [reference : References, journal : Journals, store : Stores]
    BY <1>5, <1>8, <1>11, SMT
  <2> QED
    BY <1>3, <1>5, <1>8, <1>10, <1>11, <2>1, Zenon DEF DiskType
<1>16. TypeOK'
  BY <1>14, <1>15, Zenon DEF TypeOK, DiskType, LockType, LocalType, Backups
<1>17. VisibleInv'
  <2>1. SUFFICES ASSUME entry = "live", m.journal = None
                 PROVE  \A x \in ManifestPaths(m.reference.current) :
                          /\ public'[x] = m.reference.current
                          /\ durablePublic'[x] = m.reference.current
    BY <1>8, <1>10, Zenon DEF VisibleInv, ManifestPaths
  <2>2. m.reference = reference /\ journal = None
    BY <1>6, <2>1, Zenon
  <2>3. ManifestPaths(reference.current) \in SUBSET Paths
    BY <1>3, ManifestType, Zenon DEF DiskType
  <2> QED
    BY <1>3, <1>10, <2>1, <2>2, <2>3, Zenon DEF VisibleInv
<1>18. DurableInv' /\ CurrentWhole'
  BY <1>6, <1>7, <1>8, <1>9, <1>10, Zenon DEF DurableInv, CurrentWhole
<1> QED
  BY <1>13, <1>16, <1>17, <1>18, Zenon DEF StoreInv

-----------------------------------------------------------------------------
(* The invariant holds, and what follows from it.                           *)

\* The invariant is inductive.
LEMMA NextKeeps == Inv /\ [Next]_vars => Inv'
<1> SUFFICES ASSUME Inv, [Next]_vars
             PROVE  Inv'
  OBVIOUS
<1>1. StoreInv /\ (losses = 0 => TidyStore) /\ losses \in Nat
  BY StoreTypes, Zenon DEF Inv, LocalType
<1>2. ASSUME NEW p \in Processes, Move(p)
      PROVE  Inv'
  <2>1. StoreInv' /\ losses' = losses
    BY <1>1, <1>2, MoveKeepsStore, QuietOrDisk, Zenon
  <2>2. losses = 0 => TidyStore'
    BY <1>1, <1>2, MoveKeepsTidy, Zenon
  <2> QED
    BY <2>1, <2>2, Zenon DEF Inv
<1>3. CASE PowerLoss
  <2>1. StoreInv'
    BY <1>1, <1>3, LossKeepsStore, Zenon
  <2>2. losses' # 0
    BY <1>1, <1>3, SMT DEF PowerLoss
  <2> QED
    BY <2>1, <2>2, Zenon DEF Inv
<1>4. CASE UNCHANGED vars
  <2>1. /\ TypeOK' <=> TypeOK
        /\ VisibleInv' <=> VisibleInv
        /\ DurableInv' <=> DurableInv
        /\ CurrentWhole' <=> CurrentWhole
        /\ PreviousWhole' <=> PreviousWhole
        /\ TidyInv' <=> TidyInv
        /\ losses' = losses
    BY <1>4, Zenon DEF vars, disk, locks, locals, TypeOK, VisibleInv, DurableInv, CurrentWhole,
                       PreviousWhole, TidyInv, Named
  <2>2. /\ LocksInv' <=> LocksInv
        /\ OpsInv' <=> OpsInv
    BY <1>4, Zenon DEF vars, disk, locks, locals, LocksInv, LocksOf, OpsInv, OpsOf
  <2>3. CourseInv' <=> CourseInv
    <3>1. \A p \in Processes : CourseOf(p)' <=> CourseOf(p)
      BY <1>4, SMT DEF vars, disk, locks, locals, CourseOf, Committing
    <3> QED
      BY <3>1, Zenon DEF CourseInv
  <2>4. PathsInv' <=> PathsInv
    <3>1. \A p \in Processes : PathsOf(p)' <=> PathsOf(p)
      BY <1>4, SMT DEF vars, disk, locks, locals, PathsOf
    <3> QED
      BY <3>1, Zenon DEF PathsInv
  <2>5. ClearedInv' <=> ClearedInv
    BY <1>4, Zenon DEF vars, disk, locks, locals, ClearedInv, ClearedOf
  <2> QED
    BY <1>1, <2>1, <2>2, <2>3, <2>4, <2>5, Zenon DEF Inv, StoreInv, TidyStore
<1> QED
  BY <1>2, <1>3, <1>4, Zenon DEF Next, Move

\* The inductive invariant of the store, through every death of a process and
\* every power loss.
THEOREM StoreInvariant == Spec => []Inv
<1>1. Init => Inv
  BY InitKeeps, Zenon DEF Inv
<1> QED
  BY <1>1, NextKeeps, PTL DEF Spec

\* TidyInv says of a live product without a journal what NothingUncommitted says.
LEMMA TidyMeansClean ==
  ASSUME TidyInv
  PROVE  NothingUncommitted
  BY Zenon DEF TidyInv, NothingUncommitted, Named

\* As long as no power was lost, whoever prunes, cleans, retires or dies: both
\* generations the reference names are whole, and so is what a handle leases, and
\* no running publication loses what it staged (prune_generations, maintain_product,
\* clean_product_rows, retain_published_generation).
THEOREM NeededAlwaysKept == Spec => [](losses = 0 => NeededKept)
<1>1. Inv => (losses = 0 => NeededKept)
  <2> SUFFICES ASSUME StoreInv, TidyStore
               PROVE  NeededKept
    BY Zenon DEF Inv
  <2>1. ReferenceWhole
    <3>1. CurrentWhole /\ PreviousWhole
      BY Zenon DEF StoreInv, TidyStore
    <3>2. ASSUME entry # "removing", NEW g, g = reference.current \/ g = reference.previous,
                 g # None
          PROVE  store[g] = "whole"
      BY <3>1, <3>2, SMT DEF CurrentWhole, PreviousWhole
    <3> QED
      BY <3>2, Zenon DEF ReferenceWhole
  <2>2. LeasedWhole /\ ScratchKept
    BY Zenon DEF StoreInv, CourseInv, CourseOf, LeasedWhole, ScratchKept
  <2> QED
    BY <2>1, <2>2, Zenon DEF StoreInv, NeededKept
<1> QED
  BY <1>1, StoreInvariant, PTL

\* With no journal the committed files are all at their public paths, after any
\* death and any power loss (record_publication, complete_publication, recovery).
THEOREM CurrentAlwaysVisible == Spec => []CurrentVisible
<1>1. Inv => CurrentVisible
  BY Zenon DEF Inv, StoreInv, VisibleInv, CurrentVisible
<1> QED
  BY <1>1, StoreInvariant, PTL

\* ... and, as long as no power was lost, no other public path holds a file of any
\* generation (stale_public_paths, recover_publication).
THEOREM NothingEverUncommitted == Spec => [](losses = 0 => NothingUncommitted)
<1>1. Inv => (losses = 0 => NothingUncommitted)
  BY TidyMeansClean, Zenon DEF Inv, TidyStore
<1> QED
  BY <1>1, StoreInvariant, PTL

\* Whatever a power loss brings back, of the metadata and of each public path, the
\* generation the reference names is whole, and visible unless the journal says
\* otherwise (the order of the syncs in commit_reference and complete_publication).
THEOREM CurrentAlwaysSurvives == Spec => []CurrentSurvives
<1>1. Inv => CurrentSurvives
  BY Zenon DEF Inv, StoreInv, VisibleInv, CurrentVisible, CurrentSurvives
<1> QED
  BY <1>1, StoreInvariant, PTL

-----------------------------------------------------------------------------
(* The store implements one committed product.                              *)

View == [p \in Processes |-> IF pc[p] = "guarded" THEN VisibleFiles ELSE None]

\* A view of files is not the absence of a view.
LEMMA FilesNotNone == VisibleFiles # None
<1> DEFINE S == {y \in Paths : public[y] \in Generations}
<1>1. S \in SUBSET Paths /\ VisibleFiles \in [S -> Generations]
  BY DEF VisibleFiles
<1> QED
  BY <1>1, NamesAssumption, Zenon

\* What a guarded reader finds: exactly the files of the committed generation.
LEMMA GuardedFiles ==
  ASSUME CurrentVisible, NothingUncommitted, entry = "live", journal = None,
         reference.current \in Generations \cup {None}
  PROVE  VisibleFiles = Committed!FilesOf(reference.current)
<1> DEFINE S == {y \in Paths : public[y] \in Generations}
<1>1. /\ \A x \in ManifestPaths(reference.current) : public[x] = reference.current
      /\ \A x \in Paths \ ManifestPaths(reference.current) : public[x] \notin Generations
  BY Zenon DEF CurrentVisible, NothingUncommitted
<1>2. ManifestPaths(reference.current) \subseteq Paths
  BY FilesOfGeneration DEF ManifestPaths
<1>3. S = ManifestPaths(reference.current)
  BY <1>1, <1>2 DEF ManifestPaths
<1>4. VisibleFiles = [x \in ManifestPaths(reference.current) |-> reference.current]
  BY <1>1, <1>3 DEF VisibleFiles
<1> QED
  BY <1>4, Zenon DEF Committed!FilesOf, ManifestPaths

\* Nobody works on the files while a reader has the guard.
LEMMA GuardHoldsStill ==
  ASSUME StoreInv, NEW p \in Processes, NEW q \in Processes, Move(p), pc[q] = "guarded"
  PROVE  reference' = reference /\ public' = public
<1>1. LocksOf(p) /\ LocksOf(q)
  BY StoreParts, Zenon
<1>2. q \in shared /\ q \in pinned
  BY <1>1, Zenon DEF LocksOf, PinLabels
<1>3. exclusive # p
  BY <1>2, StoreTypes, NamesApart, Zenon DEF LockType
<1>4. pc[p] \notin WorkLabels
  BY <1>1, <1>2, <1>3, Zenon DEF LocksOf, WorkLabels
<1> QED
  BY <1>4, QuietOrDisk, WritesAreWork, Zenon DEF files, disk

\* A reader gets the guard in Guard only, that is with no journal.
LEMMA OnlyGuardGuards ==
  ASSUME NEW p \in Processes, pc \in [Processes -> Labels], Move(p)
  PROVE  pc'[p] = "guarded" => Guard(p)
<1>1. CASE Open(p)
  BY <1>1, Zenon DEF Open, Goto, disk
<1>2. CASE Ends(p)
  BY <1>2, Zenon DEF Ends, Release, Goto
<1>3. CASE RecoverNothing(p)
  BY <1>3, Zenon DEF RecoverNothing, AfterRecover, Goto, disk, locks, locals
<1>4. CASE RecoverBegin(p)
  BY <1>4, Zenon DEF RecoverBegin, Goto, disk, locks
<1>5. CASE RecoverRestore(p)
  BY <1>5, Zenon DEF RecoverRestore, locks
<1>6. CASE RecoverRemove(p)
  BY <1>6, Zenon DEF RecoverRemove, locks
<1>7. CASE RecoverComplete(p)
  BY <1>7, Zenon
     DEF RecoverComplete, AfterRecover, Metadata, Synced, Goto, locks, locals
<1>8. CASE PruneStep(p)
  BY <1>8, Zenon DEF PruneStep, Prunable, locks, locals
<1>9. CASE PruneDone(p)
  BY <1>9, Zenon DEF PruneDone, Goto
<1>10. CASE PruneFailed(p)
  BY <1>10, Zenon DEF PruneFailed, Goto, disk, locals
<1>11. CASE MaintainProduct(p)
  BY <1>11, Zenon DEF MaintainProduct, Goto, disk, locks, locals
<1>12. CASE SkipMaintenance(p)
  BY <1>12, Zenon DEF SkipMaintenance, Goto, disk, locks, locals
<1>13. CASE RetireBegin(p)
  BY <1>13, Zenon DEF RetireBegin, Goto, locks, locals
<1>14. CASE RetireResume(p)
  BY <1>14, Zenon DEF RetireResume, Goto, disk, locks, locals
<1>15. CASE Unpublish(p)
  BY <1>15, Zenon DEF Unpublish, locks, locals
<1>16. CASE RetireMark(p)
  BY <1>16, Zenon DEF RetireMark, Goto, locks, locals
<1>17. CASE RetireDelete(p)
  BY <1>17, Zenon DEF RetireDelete, Metadata, Synced, NoReference, Goto, locks, locals
<1>18. CASE RegisterProduct(p)
  BY <1>18, Zenon DEF RegisterProduct, Goto, locals
<1>19. CASE CleanHistory(p)
  BY <1>19, Zenon DEF CleanHistory, Metadata, Synced, Goto, locks, locals
<1>20. CASE PinProduct(p)
  BY <1>20, Zenon DEF PinProduct, Goto, disk, locals
<1>21. CASE AcquirePublicationLock(p)
  BY <1>21, Zenon DEF AcquirePublicationLock, Goto, disk, locals
<1>22. CASE ReadPrior(p)
  BY <1>22, Zenon DEF ReadPrior, Goto, disk, locks
<1>23. CASE StageGeneration(p)
  BY <1>23, Zenon DEF StageGeneration, Goto, disk, locks
<1>24. CASE CommitGeneration(p)
  BY <1>24, Zenon DEF CommitGeneration, Metadata, Synced, Goto, locks, locals
<1>25. CASE PrepareProjections(p)
  BY <1>25, Zenon DEF PrepareProjections, Goto, disk, locks
<1>26. CASE RecordPublication(p)
  BY <1>26, Zenon DEF RecordPublication, Metadata, Synced, Goto, locks, locals
<1>27. CASE CommitProjection(p)
  BY <1>27, Zenon DEF CommitProjection, locks
<1>28. CASE SyncProjections(p)
  BY <1>28, Zenon DEF SyncProjections, SyncPublic, Goto, locks, locals
<1>29. CASE AcquireLease(p)
  BY <1>29, Zenon DEF AcquireLease, Goto, disk, locals
<1>30. CASE CommitReference(p)
  BY <1>30, Zenon DEF CommitReference, Metadata, Synced, Publish, Goto, locks, locals
<1>31. CASE CompletePublication(p)
  BY <1>31, Zenon DEF CompletePublication, Metadata, Synced, Goto, locks
<1>32. CASE OpenForPruning(p)
  BY <1>32, Zenon DEF OpenForPruning, Goto, disk, locals
<1>33. CASE CancelledBeforePruning(p)
  BY <1>33, Zenon DEF CancelledBeforePruning, Goto, disk, locks, locals
<1>34. CASE ReturnGeneration(p)
  BY <1>34, Zenon DEF ReturnGeneration, Goto, disk, locals
<1>35. CASE BeginRollback(p)
  BY <1>35, Zenon DEF BeginRollback, Goto, disk, locks, locals
<1>36. CASE RollbackProjection(p)
  BY <1>36, Zenon DEF RollbackProjection, locks
<1>37. CASE LockShared(p)
  BY <1>37, Zenon DEF LockShared, Goto, disk, locals
<1>38. CASE FindPending(p)
  BY <1>38, Zenon DEF FindPending, Goto, disk, locals
<1>39. CASE LockExclusive(p)
  BY <1>39, Zenon DEF LockExclusive, Goto, disk, locals
<1>40. CASE Downgrade(p)
  BY <1>40, Zenon DEF Downgrade, Goto, disk, locals
<1>41. CASE Guard(p)
  BY <1>41, Zenon DEF Guard, Goto, disk, locks, locals
<1>42. CASE RetainGeneration(p)
  BY <1>42, Zenon DEF RetainGeneration, Goto, disk, locals
<1> QED
  BY <1>1, <1>2, <1>3, <1>4, <1>5, <1>6, <1>7, <1>8, <1>9, <1>10, <1>11, <1>12, <1>13,
       <1>14, <1>15, <1>16, <1>17, <1>18, <1>19, <1>20, <1>21, <1>22, <1>23, <1>24,
       <1>25, <1>26, <1>27, <1>28, <1>29, <1>30, <1>31, <1>32, <1>33, <1>34, <1>35,
       <1>36, <1>37, <1>38, <1>39, <1>40, <1>41, <1>42, EndsBy, Zenon
     DEF Move, Step, Recover, Prune, Maintain, PublishStep, ReadStep

\* A step of a process is a step of the committed product, or none.
LEMMA MoveImplements ==
  ASSUME StoreInv, StoreInv', TidyStore, NEW p \in Processes, Move(p)
  PROVE  Committed!Next \/ (reference'.current = reference.current /\ View' = View)
<1> DEFINE W == [q \in Processes |-> IF pc'[q] = "guarded" THEN VisibleFiles' ELSE None]
<1>1. \A q \in Processes : q # p => pc'[q] = pc[q]
  <2>1. \A q \in Processes : q # p => Same(p, q)
    BY StoreTypes, StoreParts, NamesApart, Elsewhere, Zenon
  <2> QED
    BY <2>1, Zenon DEF Same
<1>2. View' = W
  BY Zenon DEF View
<1>3. CASE pc[p] # "guarded" /\ pc'[p] = "guarded"
  <2>1. Guard(p)
    BY <1>3, OnlyGuardGuards, StoreTypes, Zenon
  <2>2. reference' = reference /\ public' = public /\ journal = None
    BY <2>1, Zenon DEF Guard, disk
  <2>3. entry = "live"
    <3>1. p \in pinned
      BY <2>1, StoreParts, Zenon DEF Guard, LocksOf, PinLabels
    <3> QED
      BY <3>1, StoreTypes, Zenon
  <2>4. CurrentVisible /\ NothingUncommitted
    BY TidyMeansClean, Zenon DEF StoreInv, TidyStore, VisibleInv, CurrentVisible
  <2>5. VisibleFiles = Committed!FilesOf(reference.current)
    BY <2>2, <2>3, <2>4, GuardedFiles, StoreRecords, Zenon
  <2>6. VisibleFiles' = VisibleFiles
    BY <2>2, Zenon DEF VisibleFiles
  <2>7. View[p] = None /\ W = [View EXCEPT ![p] = Committed!FilesOf(reference.current)]
    BY <1>1, <1>3, <2>5, <2>6, Zenon DEF View
  <2>8. Committed!BeginRead(p)
    BY <1>2, <2>2, <2>7, Zenon DEF Committed!BeginRead, View
  <2> QED
    BY <2>8, Zenon DEF Committed!Next
<1>4. CASE pc[p] = "guarded" /\ pc'[p] # "guarded"
  <2>1. reference' = reference /\ public' = public
    BY <1>4, GuardHoldsStill, Zenon
  <2>2. VisibleFiles' = VisibleFiles
    BY <2>1, Zenon DEF VisibleFiles
  <2>3. View[p] # None /\ W = [View EXCEPT ![p] = None]
    BY <1>1, <1>4, <2>2, FilesNotNone, Zenon DEF View
  <2>4. Committed!EndRead(p)
    BY <1>2, <2>1, <2>3, Zenon DEF Committed!EndRead, View
  <2> QED
    BY <2>4, Zenon DEF Committed!Next
<1>5. CASE pc'[p] = "guarded" <=> pc[p] = "guarded"
  <2>1. CASE \E q \in Processes : pc[q] = "guarded"
    <3>1. reference' = reference /\ public' = public
      BY <2>1, GuardHoldsStill, Zenon
    <3>2. VisibleFiles' = VisibleFiles
      BY <3>1, Zenon DEF VisibleFiles
    <3>3. W = View
      BY <1>1, <1>5, <3>2, Zenon DEF View
    <3> QED
      BY <1>2, <3>1, <3>3, Zenon
  <2>2. CASE \A q \in Processes : pc[q] # "guarded"
    <3>1. W = View /\ \A q \in Processes : View[q] = None
      BY <1>1, <1>5, <2>2, Zenon DEF View
    <3>2. reference'.current \in Generations \cup {None}
      <4>1. reference' \in References
        BY Zenon DEF StoreInv, TypeOK
      <4> QED
        BY <4>1, SMT DEF References
    <3>3. Committed!Replace(reference'.current)
      BY <1>2, <3>1, Zenon DEF Committed!Replace, Committed!Unread, View
    <3> QED
      BY <3>2, <3>3, Zenon DEF Committed!Next
  <2> QED
    BY <2>1, <2>2, Zenon
<1> QED
  BY <1>3, <1>4, <1>5, Zenon

\* While no power is lost the store is, to its guarded readers, one committed
\* product replaced as a whole: through the locks, the journal, its recovery and the
\* death of any process between two file operations, each sees exactly the files of
\* the reference for as long as it holds the guard.
THEOREM StoreImplementsProduct ==
  ASSUME MaxLosses = 0
  PROVE  Spec => ImplementsCommittedProduct
<1> DEFINE Whole == Inv /\ losses = 0
<1>1. Init => Whole
  BY InitKeeps, Zenon DEF Inv, Init
<1>2. Whole /\ [Next]_vars => ~PowerLoss
  <2>1. Inv => losses \in Nat
    BY StoreTypes, Zenon DEF Inv, LocalType
  <2> QED
    BY <2>1, SMT DEF PowerLoss
<1>3. Whole /\ [Next]_vars => Whole'
  <2> SUFFICES ASSUME Whole, [Next]_vars
               PROVE  Whole'
    OBVIOUS
  <2>1. Inv'
    BY NextKeeps, Zenon
  <2>2. (\E p \in Processes : Move(p)) \/ UNCHANGED vars
    BY <1>2, Zenon DEF Next, Move
  <2>3. losses' = losses
    BY <2>2, QuietOrDisk, Zenon DEF vars
  <2> QED
    BY <2>1, <2>3, Zenon
<1>4. Init => Committed!Init
  <2> SUFFICES ASSUME Init
               PROVE  Committed!Init
    OBVIOUS
  <2>1. reference.current = None
    BY DEF Init, NoReference
  <2>2. \A p \in Processes : pc[p] # "guarded"
    BY Zenon DEF Init
  <2> QED
    BY <2>1, <2>2, Zenon DEF Committed!Init
<1>5. Whole /\ Whole' /\ [Next]_vars => [Committed!Next]_(Committed!vars)
  <2> SUFFICES ASSUME Whole, Whole', [Next]_vars
               PROVE  [Committed!Next]_(Committed!vars)
    OBVIOUS
  <2>1. StoreInv /\ StoreInv' /\ TidyStore
    BY Zenon DEF Inv
  <2>2. (\E p \in Processes : Move(p)) \/ UNCHANGED vars
    BY <1>2, Zenon DEF Next, Move
  <2>3. ASSUME NEW p \in Processes, Move(p)
        PROVE  [Committed!Next]_(Committed!vars)
    BY <2>1, <2>3, MoveImplements, Zenon DEF Committed!vars, View
  <2>4. CASE UNCHANGED vars
    <3>1. reference' = reference /\ pc' = pc /\ public' = public
      BY <2>4, Zenon DEF vars, disk
    <3>2. VisibleFiles' = VisibleFiles
      BY <3>1, Zenon DEF VisibleFiles
    <3> QED
      BY <3>1, <3>2, Zenon DEF Committed!vars
  <2> QED
    BY <2>2, <2>3, <2>4, Zenon
<1> HIDE DEF Whole
<1> QED
  BY <1>1, <1>3, <1>4, <1>5, PTL DEF Spec, ImplementsCommittedProduct, Committed!Spec
=============================================================================

---------------------------- MODULE Publication ----------------------------
(***************************************************************************)
(* The managed store of one product (crates/bray-emitter): publishers that *)
(* replace its public files and its published reference, readers that      *)
(* recover what a dead publisher left and then hold the product still,     *)
(* retained readers that pin one generation, and the maintenance and       *)
(* retirement that delete beside them.  Each process may die between any   *)
(* two file operations, and the machine may lose what was never synced.    *)
(*                                                                         *)
(* A generation is named by its content, and so is its directory: the      *)
(* probing of 64-bit locator collisions is not modelled.  The directories  *)
(* of two public paths are independent; the metadata directory reaches the *)
(* disk in order.                                                          *)
(***************************************************************************)
EXTENDS Naturals, FiniteSets

CONSTANTS Processes, Generations, Paths,
          Files,        \* the public paths of a generation's manifest
          Existing,     \* paths that hold a file of the user at the start
          Policies,     \* the replacement policies requests use
          Operations,   \* what processes do: "publish", "read", "retain", "clean"
          MaxOps,       \* bound: operations begun in a behaviour
          MaxLosses,    \* bound: power losses in a behaviour
          None, Absent, Foreign

ASSUME FilesAssumption == Files \in [Generations -> SUBSET Paths]
ASSUME NamesAssumption ==
  /\ None \notin Generations \cup Processes
  /\ \A S \in SUBSET Paths : None # S /\ \A f \in [S -> Generations] : None # f
  /\ {Absent, Foreign} \cap Generations = {}
  /\ Absent # Foreign
ASSUME RequestsAssumption ==
  /\ Policies \subseteq {"replace", "absent"}
  /\ Operations \subseteq {"publish", "read", "retain", "clean"}

VARIABLES
  reference,      \* published-generation.json: current and previous, or None
  journal,        \* pending-publication.json: the paths it lists, or None
  store,          \* generation directories: "absent", "whole" or "torn"
  public,         \* what each public path holds
  entry,          \* the product's index record: "none", "live", "retiring", "removing"
  durable,        \* reference, journal and store as last synced
  durablePublic,  \* public as last synced
  root,           \* holder of storage.lock
  exclusive,      \* exclusive holder of publication.lock
  shared,         \* shared holders of publication.lock
  pinned,         \* shared holders of entry.lock
  lease,          \* the generation whose lease.lock a process shares
  pc, op, gen, policy, prior, todo, doomed, undo, scratch,
  started, losses

disk == <<reference, journal, store, public, entry, durable, durablePublic>>
locks == <<root, exclusive, shared, pinned, lease>>
locals == <<op, gen, policy, prior, todo, doomed, undo, scratch>>
vars == <<disk, locks, locals, pc, started, losses>>

NoReference == [current |-> None, previous |-> None]
Contents == Generations \cup {Absent, Foreign}

----------------------------------------------------------------------------
(* Metadata changes: with a sync of the directory, or without.             *)

Metadata(r, j, s) == reference' = r /\ journal' = j /\ store' = s

Synced == durable' = [reference |-> reference', journal |-> journal', store |-> store']

Goto(p, label) == pc' = [pc EXCEPT ![p] = label]

(* The manifest of a generation can be read and its artifacts validate.    *)
Readable(g) == g # None => store[g] = "whole"

ManifestPaths(g) == IF g = None THEN {} ELSE Files[g]

----------------------------------------------------------------------------
Init ==
  /\ reference = NoReference /\ journal = None
  /\ store = [g \in Generations |-> "absent"]
  /\ public = [x \in Paths |-> IF x \in Existing THEN Foreign ELSE Absent]
  /\ entry = "none"
  /\ durable = [reference |-> reference, journal |-> journal, store |-> store]
  /\ durablePublic = public
  /\ root = None /\ exclusive = None /\ shared = {} /\ pinned = {}
  /\ lease = [p \in Processes |-> None]
  /\ pc = [p \in Processes |-> "idle"]
  /\ op = [p \in Processes |-> "read"]
  /\ gen = [p \in Processes |-> None]
  /\ policy = [p \in Processes |-> "replace"]
  /\ prior = [p \in Processes |-> NoReference]
  /\ todo = [p \in Processes |-> {}]
  /\ doomed = [p \in Processes |-> {}]
  /\ undo = [p \in Processes |-> <<>>]
  /\ scratch = [p \in Processes |-> "none"]
  /\ started = 0 /\ losses = 0

(* The operation of p is over: its handles are dropped, or the process is  *)
(* dead and the operating system releases what it held.                    *)
Release(p) ==
  /\ root' = IF root = p THEN None ELSE root
  /\ exclusive' = IF exclusive = p THEN None ELSE exclusive
  /\ shared' = shared \ {p}
  /\ pinned' = pinned \ {p}
  /\ lease' = [lease EXCEPT ![p] = None]
  /\ gen' = [gen EXCEPT ![p] = None]
  /\ prior' = [prior EXCEPT ![p] = NoReference]
  /\ todo' = [todo EXCEPT ![p] = {}]
  /\ doomed' = [doomed EXCEPT ![p] = {}]
  /\ undo' = [undo EXCEPT ![p] = <<>>]
  /\ scratch' = [scratch EXCEPT ![p] = "none"]
  /\ op' = [op EXCEPT ![p] = "read"]
  /\ policy' = [policy EXCEPT ![p] = "replace"]
  /\ Goto(p, "idle")

(* An operation opens the managed store, which takes the root lock.        *)
Open(p) ==
  /\ pc[p] = "idle" /\ root = None /\ started < MaxOps
  /\ \E o \in Operations, g \in Generations, y \in Policies :
       /\ o # "publish" => g = CHOOSE h \in Generations : TRUE
       /\ o # "publish" => y = "replace"
       /\ op' = [op EXCEPT ![p] = o]
       /\ gen' = [gen EXCEPT ![p] = IF o = "publish" THEN g ELSE None]
       /\ policy' = [policy EXCEPT ![p] = y]
  /\ root' = p
  /\ started' = started + 1
  /\ Goto(p, "opened")
  /\ UNCHANGED <<disk, exclusive, shared, pinned, lease, prior, todo,
                 doomed, undo, scratch, losses>>

----------------------------------------------------------------------------
(* Recovery: runs with the publication lock, or with the root lock and no  *)
(* lease on the entry.                                                     *)

(* Where the caller goes on: retirement, the publisher that has the        *)
(* publication lock, maintenance before a registration, a cleaning, or a   *)
(* reader, which gives the exclusive lock back.                            *)
AfterRecover(p) ==
  CASE entry = "retiring" -> "unpublish"
    [] entry # "retiring" /\ op[p] = "publish" ->
         IF exclusive = p THEN "prior" ELSE "prune"
    [] entry # "retiring" /\ op[p] = "clean" -> "history"
    [] OTHER -> "downgrade"

RecoverNothing(p) ==
  /\ pc[p] = "recover" /\ journal = None
  /\ Goto(p, AfterRecover(p))
  /\ UNCHANGED <<disk, locks, locals, started, losses>>

RecoverBegin(p) ==
  /\ pc[p] = "recover" /\ journal # None
  /\ Readable(reference.current)
  /\ todo' = [todo EXCEPT ![p] = ManifestPaths(reference.current)]
  /\ doomed' = [doomed EXCEPT ![p] = journal \ ManifestPaths(reference.current)]
  /\ Goto(p, "restore")
  /\ UNCHANGED <<disk, locks, op, gen, policy, prior, undo, scratch, started, losses>>

(* A copy of the committed artifact is promoted and its directory synced.  *)
RecoverRestore(p) ==
  /\ pc[p] = "restore"
  /\ \E x \in todo[p] :
       /\ public' = [public EXCEPT ![x] = reference.current]
       /\ durablePublic' = [durablePublic EXCEPT ![x] = reference.current]
       /\ todo' = [todo EXCEPT ![p] = @ \ {x}]
  /\ UNCHANGED <<reference, journal, store, entry, durable, locks, op, gen, policy,
                 prior, doomed, undo, scratch, pc, started, losses>>

(* Paths the journal lists and the committed generation lacks: removed,    *)
(* without a sync of their directories.                                    *)
RecoverRemove(p) ==
  /\ pc[p] = "restore" /\ todo[p] = {}
  /\ \E x \in doomed[p] :
       /\ public' = [public EXCEPT ![x] = Absent]
       /\ doomed' = [doomed EXCEPT ![p] = @ \ {x}]
  /\ UNCHANGED <<reference, journal, store, entry, durable, durablePublic, locks, op,
                 gen, policy, prior, todo, undo, scratch, pc, started, losses>>

RecoverComplete(p) ==
  /\ pc[p] = "restore" /\ todo[p] = {} /\ doomed[p] = {}
  /\ Metadata(reference, None, store) /\ Synced
  /\ Goto(p, AfterRecover(p))
  /\ UNCHANGED <<public, entry, durablePublic, locks, locals, started, losses>>

Recover(p) ==
  \/ RecoverNothing(p) \/ RecoverBegin(p) \/ RecoverRestore(p)
  \/ RecoverRemove(p) \/ RecoverComplete(p)

----------------------------------------------------------------------------
(* Pruning: whatever the reference does not name and no process leases is  *)
(* removed, file by file; so is everything private or staged.  A cleaning  *)
(* removes what its selection matched, and asks for no lease: the entry    *)
(* has none.                                                               *)

PrunableCurrentOnly(p) ==
  {g \in Generations \ {reference.current} :
     /\ store[g] # "absent"
     /\ op[p] = "clean" \/ \A q \in Processes : lease[q] # g}

PrunableLeased(p) ==
  {g \in Generations \ {reference.current, reference.previous} : store[g] # "absent"}

Prunable(p) ==
  {g \in Generations \ {reference.current, reference.previous} :
     /\ store[g] # "absent"
     /\ op[p] = "clean" \/ \A q \in Processes : lease[q] # g}

(* One more file of a generation is gone: the first, or the last.          *)
PruneStep(p) ==
  /\ pc[p] = "prune"
  /\ \E g \in Prunable(p) :
       store' = [store EXCEPT ![g] = IF @ = "whole" THEN "torn" ELSE "absent"]
  /\ UNCHANGED <<reference, journal, public, entry, durable, durablePublic, locks,
                 locals, pc, started, losses>>

(* A publisher syncs the store and drops the root lock; maintenance goes   *)
(* on to the registration.                                                 *)
PruneDone(p) ==
  /\ pc[p] = "prune"
  /\ op[p] = "clean" \/ Prunable(p) = {}
  /\ scratch' = [q \in Processes |->
                   IF scratch[q] = "staged" THEN "removed" ELSE scratch[q]]
  /\ IF exclusive = p
       THEN /\ durable' = [durable EXCEPT !.store = store]
            /\ root' = None
       ELSE UNCHANGED <<durable, root>>
  /\ Goto(p, IF op[p] = "publish" /\ exclusive # p THEN "register" ELSE "finish")
  /\ UNCHANGED <<reference, journal, store, public, entry, durablePublic, exclusive,
                 shared, pinned, lease, op, gen, policy, prior, todo, doomed, undo,
                 started, losses>>

(* A publisher's pruning that fails or is cancelled is only a warning.     *)
PruneFailed(p) ==
  /\ pc[p] = "prune" /\ exclusive = p
  /\ root' = None
  /\ Goto(p, "finish")
  /\ UNCHANGED <<disk, exclusive, shared, pinned, lease, locals, started, losses>>

Prune(p) == PruneStep(p) \/ PruneDone(p) \/ PruneFailed(p)

----------------------------------------------------------------------------
(* With the root lock: maintenance, retirement, registration, cleaning and *)
(* pinning.                                                                *)

MaintainPinned(p) ==
  /\ pc[p] = "opened" /\ op[p] \in {"publish", "clean"}
  /\ entry = "live"
  /\ Goto(p, "recover")
  /\ UNCHANGED <<disk, locks, locals, started, losses>>

MaintainProduct(p) ==
  /\ pc[p] = "opened" /\ op[p] \in {"publish", "clean"}
  /\ entry = "live" /\ pinned = {}
  /\ Goto(p, "recover")
  /\ UNCHANGED <<disk, locks, locals, started, losses>>

(* The entry is pinned, or new, or not among those inspected this time.    *)
SkipMaintenance(p) ==
  /\ pc[p] = "opened" /\ op[p] \in {"publish", "clean"}
  /\ entry \in {"none", "live"}
  /\ op[p] = "clean" => entry = "none" \/ pinned # {}
  /\ Goto(p, IF op[p] = "publish" THEN "register" ELSE "finish")
  /\ UNCHANGED <<disk, locks, locals, started, losses>>

(* The product is expired, or the cleaning selects all of it.              *)
RetireBegin(p) ==
  /\ pc[p] = "opened" /\ op[p] \in {"publish", "clean"}
  /\ entry = "live" /\ pinned = {}
  /\ entry' = "retiring"
  /\ Goto(p, "recover")
  /\ UNCHANGED <<reference, journal, store, public, durable, durablePublic, locks,
                 locals, started, losses>>

RetireResume(p) ==
  /\ pc[p] = "opened" /\ op[p] \in {"publish", "clean"}
  /\ entry \in {"retiring", "removing"}
  /\ Goto(p, IF entry = "retiring" THEN "recover" ELSE "delete")
  /\ UNCHANGED <<disk, locks, locals, started, losses>>

(* The claims were reconciled with the committed manifest.                 *)
Unpublish(p) ==
  /\ pc[p] = "unpublish"
  /\ \E x \in ManifestPaths(reference.current) :
       /\ public[x] # Absent
       /\ public' = [public EXCEPT ![x] = Absent]
  /\ UNCHANGED <<reference, journal, store, entry, durable, durablePublic, locks,
                 locals, pc, started, losses>>

(* The store is renamed away, then the record says so.                     *)
RetireMark(p) ==
  /\ pc[p] = "unpublish"
  /\ \A x \in ManifestPaths(reference.current) : public[x] = Absent
  /\ entry' = "removing"
  /\ Goto(p, "delete")
  /\ UNCHANGED <<reference, journal, store, public, durable, durablePublic, locks,
                 locals, started, losses>>

RetireDelete(p) ==
  /\ pc[p] = "delete"
  /\ Metadata(NoReference, None, [g \in Generations |-> "absent"]) /\ Synced
  /\ entry' = "none"
  /\ Goto(p, IF op[p] = "publish" THEN "register" ELSE "finish")
  /\ UNCHANGED <<public, durablePublic, locks, locals, started, losses>>

RegisterProduct(p) ==
  /\ pc[p] = "register"
  /\ entry' = "live"
  /\ pinned' = pinned \cup {p}
  /\ root' = None
  /\ Goto(p, "waiting")
  /\ UNCHANGED <<reference, journal, store, public, durable, durablePublic, exclusive,
                 shared, lease, locals, started, losses>>

(* The selection may name the preceding generation: the reference forgets  *)
(* it first.                                                               *)
CleanHistory(p) ==
  /\ pc[p] = "history"
  /\ \E drop \in BOOLEAN :
       IF drop THEN Metadata([reference EXCEPT !.previous = None], journal, store) /\ Synced
               ELSE UNCHANGED <<reference, journal, store, durable>>
  /\ Goto(p, "prune")
  /\ UNCHANGED <<public, entry, durablePublic, locks, locals, started, losses>>

PinProduct(p) ==
  /\ pc[p] = "opened" /\ op[p] \in {"read", "retain"}
  /\ entry = "live"
  /\ pinned' = pinned \cup {p}
  /\ root' = None
  /\ Goto(p, "pinned")
  /\ UNCHANGED <<disk, exclusive, shared, lease, locals, started, losses>>

Maintain(p) ==
  \/ MaintainProduct(p) \/ SkipMaintenance(p) \/ RetireBegin(p) \/ RetireResume(p)
  \/ Unpublish(p) \/ RetireMark(p) \/ RetireDelete(p) \/ RegisterProduct(p)
  \/ CleanHistory(p) \/ PinProduct(p)

----------------------------------------------------------------------------
(* The publisher, with the publication lock.                               *)

AcquirePublicationLock(p) ==
  /\ pc[p] = "waiting" /\ exclusive = None /\ shared = {}
  /\ exclusive' = p
  /\ Goto(p, "recover")
  /\ UNCHANGED <<disk, root, shared, pinned, lease, locals, started, losses>>

ReadPrior(p) ==
  /\ pc[p] = "prior" /\ Readable(reference.current)
  /\ prior' = [prior EXCEPT ![p] = reference]
  /\ Goto(p, "stage")
  /\ UNCHANGED <<disk, locks, op, gen, policy, todo, doomed, undo, scratch, started, losses>>

(* The artifacts are written and synced in a private directory; equal      *)
(* content of other generations is linked under the root lock.             *)
StageGeneration(p) ==
  /\ pc[p] = "stage" /\ root = None
  /\ scratch' = [scratch EXCEPT ![p] = "staged"]
  /\ Goto(p, "staged")
  /\ UNCHANGED <<disk, locks, op, gen, policy, prior, todo, doomed, undo, started, losses>>

(* The private directory takes its content's name, or the directory that   *)
(* already has it validates; a torn one fails the publication.             *)
CommitGeneration(p) ==
  /\ pc[p] = "staged" /\ scratch[p] = "staged"
  /\ store[gen[p]] # "torn"
  /\ Metadata(reference, journal, [store EXCEPT ![gen[p]] = "whole"]) /\ Synced
  /\ Goto(p, "placed")
  /\ UNCHANGED <<public, entry, durablePublic, locks, locals, started, losses>>

PrepareNewFilesOnly(p) ==
  /\ pc[p] = "placed"
  /\ policy[p] = "absent" => \A x \in Files[gen[p]] : public[x] = Absent
  /\ undo' = [undo EXCEPT ![p] = [x \in Files[gen[p]] |-> public[x]]]
  /\ todo' = [todo EXCEPT ![p] = Files[gen[p]]]
  /\ Goto(p, "prepared")
  /\ UNCHANGED <<disk, locks, op, gen, policy, prior, doomed, scratch, started, losses>>

(* Copies of the new files, and of every file they or a removal replace.   *)
PrepareProjections(p) ==
  /\ pc[p] = "placed"
  /\ policy[p] = "absent" => \A x \in Files[gen[p]] : public[x] = Absent
  /\ LET stale == {x \in ManifestPaths(prior[p].current) \ Files[gen[p]] :
                     public[x] # Absent}
         touched == Files[gen[p]] \cup stale
     IN  /\ undo' = [undo EXCEPT ![p] = [x \in touched |-> public[x]]]
         /\ todo' = [todo EXCEPT ![p] = touched]
  /\ Goto(p, "prepared")
  /\ UNCHANGED <<disk, locks, op, gen, policy, prior, doomed, scratch, started, losses>>

RecordNoJournal(p) ==
  /\ pc[p] = "prepared" /\ root = None
  /\ Goto(p, "journaled")
  /\ UNCHANGED <<disk, locks, locals, started, losses>>

(* Shared content is recorded under the root lock, then the journal.       *)
RecordPublication(p) ==
  /\ pc[p] = "prepared" /\ root = None
  /\ Metadata(reference, Files[gen[p]], store) /\ Synced
  /\ Goto(p, "journaled")
  /\ UNCHANGED <<public, entry, durablePublic, locks, locals, started, losses>>

CommitProjection(p) ==
  /\ pc[p] = "journaled" /\ scratch[p] = "staged"
  /\ \E x \in todo[p] :
       /\ public' = [public EXCEPT ![x] = IF x \in Files[gen[p]] THEN gen[p] ELSE Absent]
       /\ todo' = [todo EXCEPT ![p] = @ \ {x}]
  /\ UNCHANGED <<reference, journal, store, entry, durable, durablePublic, locks, op,
                 gen, policy, prior, doomed, undo, scratch, pc, started, losses>>

SyncPublic(xs) ==
  durablePublic' = [x \in Paths |-> IF x \in xs THEN public[x] ELSE durablePublic[x]]

SyncNoProjections(p) ==
  /\ pc[p] = "journaled" /\ todo[p] = {}
  /\ Goto(p, "synced")
  /\ UNCHANGED <<disk, locks, locals, started, losses>>

SyncProjections(p) ==
  /\ pc[p] = "journaled" /\ todo[p] = {}
  /\ SyncPublic(DOMAIN undo[p])
  /\ Goto(p, "synced")
  /\ UNCHANGED <<reference, journal, store, public, entry, durable, locks, locals,
                 started, losses>>

AcquireLease(p) ==
  /\ pc[p] = "synced"
  /\ lease' = [lease EXCEPT ![p] = gen[p]]
  /\ Goto(p, "leased")
  /\ UNCHANGED <<disk, root, exclusive, shared, pinned, locals, started, losses>>

Publish(g, before) ==
  [current  |-> g,
   previous |-> IF g = before.current THEN before.previous ELSE before.current]

(* The rename is the commit point; a failed sync after it is a warning.    *)
CommitReference(p) ==
  /\ pc[p] = "leased"
  /\ policy[p] = "absent" => reference = NoReference
  /\ Metadata(Publish(gen[p], prior[p]), journal, store)
  /\ Synced \/ UNCHANGED durable
  /\ Goto(p, "referenced")
  /\ UNCHANGED <<public, entry, durablePublic, locks, locals, started, losses>>

(* The journal goes, the backups are dropped; when the removal or its sync *)
(* fails nothing is pruned.                                                *)
CompletePublication(p) ==
  /\ pc[p] = "referenced"
  /\ \/ Metadata(reference, None, store) /\ Synced /\ Goto(p, "completed")
     \/ Metadata(reference, None, store) /\ UNCHANGED durable /\ Goto(p, "finish")
     \/ UNCHANGED <<reference, journal, store, durable>> /\ Goto(p, "finish")
  /\ scratch' = [scratch EXCEPT ![p] = "none"]
  /\ UNCHANGED <<public, entry, durablePublic, locks, op, gen, policy, prior, todo,
                 doomed, undo, started, losses>>

OpenForPruning(p) ==
  /\ pc[p] = "completed" /\ root = None
  /\ root' = p
  /\ Goto(p, "prune")
  /\ UNCHANGED <<disk, exclusive, shared, pinned, lease, locals, started, losses>>

CancelledBeforePruning(p) ==
  /\ pc[p] = "completed"
  /\ Goto(p, "finish")
  /\ UNCHANGED <<disk, locks, locals, started, losses>>

(* The published generation keeps its two leases.                          *)
ReturnGeneration(p) ==
  /\ pc[p] = "finish" /\ exclusive = p
  /\ exclusive' = None
  /\ Goto(p, "published")
  /\ UNCHANGED <<disk, root, shared, pinned, lease, locals, started, losses>>

(* Cancellation, a failed promotion, a failed sync or a reference that     *)
(* cannot be committed.                                                    *)
BeginRollback(p) ==
  /\ pc[p] \in {"journaled", "leased"}
  /\ Goto(p, "rollback")
  /\ UNCHANGED <<disk, locks, locals, started, losses>>

RollbackProjection(p) ==
  /\ pc[p] = "rollback" /\ scratch[p] = "staged"
  /\ \E x \in DOMAIN undo[p] \ todo[p] :
       /\ public' = [public EXCEPT ![x] = undo[p][x]]
       /\ todo' = [todo EXCEPT ![p] = @ \cup {x}]
  /\ UNCHANGED <<reference, journal, store, entry, durable, durablePublic, locks, op,
                 gen, policy, prior, doomed, undo, scratch, pc, started, losses>>

(* The error is returned with the journal in place.                        *)
RollbackDone(p) ==
  /\ pc[p] = "rollback" /\ todo[p] = DOMAIN undo[p]
  /\ SyncPublic(DOMAIN undo[p])
  /\ Release(p)
  /\ UNCHANGED <<reference, journal, store, public, entry, durable, started, losses>>

PublishStep(p) ==
  \/ AcquirePublicationLock(p) \/ ReadPrior(p) \/ StageGeneration(p)
  \/ CommitGeneration(p) \/ PrepareProjections(p) \/ RecordPublication(p)
  \/ CommitProjection(p) \/ SyncProjections(p) \/ AcquireLease(p)
  \/ CommitReference(p) \/ CompletePublication(p) \/ OpenForPruning(p)
  \/ CancelledBeforePruning(p) \/ ReturnGeneration(p) \/ BeginRollback(p)
  \/ RollbackProjection(p) \/ RollbackDone(p)

----------------------------------------------------------------------------
(* The reader, with the publication lock shared.                           *)

LockSharedBeside(p) ==
  /\ pc[p] = "pinned"
  /\ shared' = shared \cup {p}
  /\ Goto(p, "shared")
  /\ UNCHANGED <<disk, root, exclusive, pinned, lease, locals, started, losses>>

LockShared(p) ==
  /\ pc[p] = "pinned" /\ exclusive = None
  /\ shared' = shared \cup {p}
  /\ Goto(p, "shared")
  /\ UNCHANGED <<disk, root, exclusive, pinned, lease, locals, started, losses>>

(* A pending publication: the shared lock is given up for the exclusive.   *)
FindPending(p) ==
  /\ pc[p] = "shared" /\ journal # None
  /\ shared' = shared \ {p}
  /\ Goto(p, "upgrade")
  /\ UNCHANGED <<disk, root, exclusive, pinned, lease, locals, started, losses>>

LockExclusive(p) ==
  /\ pc[p] = "upgrade" /\ exclusive = None /\ shared = {}
  /\ exclusive' = p
  /\ Goto(p, "recover")
  /\ UNCHANGED <<disk, root, shared, pinned, lease, locals, started, losses>>

DowngradeHolding(p) ==
  /\ pc[p] = "downgrade"
  /\ Goto(p, "pinned")
  /\ UNCHANGED <<disk, locks, locals, started, losses>>

Downgrade(p) ==
  /\ pc[p] = "downgrade"
  /\ exclusive' = None
  /\ Goto(p, "pinned")
  /\ UNCHANGED <<disk, root, shared, pinned, lease, locals, started, losses>>

GuardUnchecked(p) ==
  /\ pc[p] = "shared"
  /\ Goto(p, "guarded")
  /\ UNCHANGED <<disk, locks, locals, started, losses>>

Guard(p) ==
  /\ pc[p] = "shared" /\ journal = None
  /\ Goto(p, "guarded")
  /\ UNCHANGED <<disk, locks, locals, started, losses>>

(* A retained reader leases the current generation, validates its files    *)
(* and gives up the publication lock.                                      *)
RetainGeneration(p) ==
  /\ pc[p] = "guarded" /\ op[p] = "retain"
  /\ reference.current # None /\ Readable(reference.current)
  /\ lease' = [lease EXCEPT ![p] = reference.current]
  /\ shared' = shared \ {p}
  /\ Goto(p, "retained")
  /\ UNCHANGED <<disk, root, exclusive, pinned, locals, started, losses>>

ReadStep(p) ==
  \/ LockShared(p) \/ FindPending(p) \/ LockExclusive(p) \/ Downgrade(p)
  \/ Guard(p) \/ RetainGeneration(p)

----------------------------------------------------------------------------
(* The handle an operation returned is dropped.                            *)
Drop(p) ==
  /\ \/ pc[p] \in {"published", "retained", "guarded"}
     \/ pc[p] = "finish" /\ exclusive # p
  /\ Release(p)
  /\ UNCHANGED <<disk, started, losses>>

(* The early returns the code's own conditions force: a product that is    *)
(* not live cannot be pinned, an unpublished one not retained; a torn      *)
(* directory and a path that must be absent fail the publication.          *)
Refuse(p) ==
  /\ \/ pc[p] = "opened" /\ op[p] \in {"read", "retain"} /\ entry # "live"
     \/ pc[p] = "guarded" /\ op[p] = "retain" /\ reference = NoReference
     \/ pc[p] = "staged" /\ store[gen[p]] = "torn"
     \/ pc[p] = "placed" /\ policy[p] = "absent"
        /\ \E x \in Files[gen[p]] : public[x] # Absent
  /\ Release(p)
  /\ UNCHANGED <<disk, started, losses>>

(* The operation stops where it is: its process dies, or a file operation  *)
(* fails or the cancellation is seen and the error is returned at once.    *)
Stop(p) ==
  /\ pc[p] # "idle"
  /\ Release(p)
  /\ UNCHANGED <<disk, started, losses>>

(* Every process dies.  Each directory is as it was last synced, or as it  *)
(* was; a tree being removed may keep some of its files.                   *)
PowerLoss ==
  /\ losses < MaxLosses
  /\ losses' = losses + 1
  /\ \E m \in {durable, [reference |-> reference, journal |-> journal, store |-> store]} :
       \E s \in {m.store, [g \in Generations |->
                             IF m.store[g] = "whole" /\ store[g] # "whole" THEN "torn"
                                                                            ELSE m.store[g]]} :
         Metadata(m.reference, m.journal, s) /\ Synced
  /\ public' \in {f \in [Paths -> Contents] :
                    \A x \in Paths : f[x] \in {public[x], durablePublic[x]}}
  /\ durablePublic' = public'
  /\ root' = None /\ exclusive' = None /\ shared' = {} /\ pinned' = {}
  /\ lease' = [p \in Processes |-> None]
  /\ pc' = [p \in Processes |-> "idle"]
  /\ op' = [p \in Processes |-> "read"]
  /\ gen' = [p \in Processes |-> None]
  /\ policy' = [p \in Processes |-> "replace"]
  /\ prior' = [p \in Processes |-> NoReference]
  /\ todo' = [p \in Processes |-> {}]
  /\ doomed' = [p \in Processes |-> {}]
  /\ undo' = [p \in Processes |-> <<>>]
  /\ scratch' = [p \in Processes |-> "none"]
  /\ UNCHANGED <<entry, started>>

Step(p) == Recover(p) \/ Prune(p) \/ Maintain(p) \/ PublishStep(p) \/ ReadStep(p) \/ Drop(p)
           \/ Refuse(p)

Next == (\E p \in Processes : Open(p) \/ Step(p) \/ Stop(p)) \/ PowerLoss

Spec == Init /\ [][Next]_vars

(* Every operation that can go on does: a process that does not die runs,  *)
(* and a lock that stays free is granted.                                  *)
FairSpec == Spec /\ \A p \in Processes : WF_vars(Step(p))

----------------------------------------------------------------------------
Labels ==
  {"idle", "opened", "recover", "restore", "unpublish", "delete", "history", "prune",
   "register", "finish", "waiting", "prior", "stage", "staged", "placed", "prepared",
   "journaled", "synced", "leased", "referenced", "completed", "rollback", "published",
   "pinned", "shared", "upgrade", "downgrade", "guarded", "retained"}

References == [current : Generations \cup {None}, previous : Generations \cup {None}]
Journals == (SUBSET Paths) \cup {None}
Stores == [Generations -> {"absent", "whole", "torn"}]

(* The files, locks and program positions have the shapes the code gives   *)
(* them, and the publication lock is shared or exclusive.                  *)
TypeOK ==
  /\ reference \in References /\ journal \in Journals /\ store \in Stores
  /\ public \in [Paths -> Contents] /\ durablePublic \in [Paths -> Contents]
  /\ entry \in {"none", "live", "retiring", "removing"}
  /\ durable \in [reference : References, journal : Journals, store : Stores]
  /\ {root, exclusive} \subseteq Processes \cup {None}
  /\ shared \subseteq Processes /\ pinned \subseteq Processes
  /\ exclusive # None => shared = {}
  /\ lease \in [Processes -> Generations \cup {None}]
  /\ pc \in [Processes -> Labels]
  /\ op \in [Processes -> {"publish", "read", "retain", "clean"}]
  /\ gen \in [Processes -> Generations \cup {None}]
  /\ policy \in [Processes -> {"replace", "absent"}]
  /\ prior \in [Processes -> References]
  /\ todo \in [Processes -> SUBSET Paths] /\ doomed \in [Processes -> SUBSET Paths]
  /\ undo \in [Processes -> UNION {[S -> Contents] : S \in SUBSET Paths}]
  /\ scratch \in [Processes -> {"none", "staged", "removed"}]
  /\ started \in Nat /\ losses \in Nat

(* Both generations the published reference names are whole directories,   *)
(* whoever prunes, cleans, retires or dies: the reference never outlives   *)
(* what it names (prune_generations, clean_product_rows, commit_reference).*)
ReferenceWhole ==
  entry # "removing" =>
    \A g \in {reference.current, reference.previous} \ {None} : store[g] = "whole"

(* After a power loss the reference may be the one before, whose preceding *)
(* generation is pruned already, but never one whose own generation is:    *)
(* what recovery and readers resolve is whole (prune_generations keeps     *)
(* both, and a publication syncs what the last one left unsynced).         *)
CurrentWhole ==
  entry # "removing" /\ reference.current # None => store[reference.current] = "whole"

(* With no journal every public path of the committed manifest holds the   *)
(* committed file, so that a crash or a power loss at any point loses no   *)
(* part of the product without the journal saying so (record_publication   *)
(* precedes the first promotion, complete_publication follows the last).   *)
CurrentVisible ==
  entry = "live" /\ journal = None =>
    \A x \in ManifestPaths(reference.current) : public[x] = reference.current

(* And no other public path holds a file of any generation: a publication  *)
(* that was not committed, or a generation that was replaced, leaves       *)
(* nothing behind for readers (stale_public_paths, recover_publication).   *)
NothingUncommitted ==
  entry = "live" /\ journal = None =>
    \A x \in Paths \ ManifestPaths(reference.current) : public[x] \notin Generations

(* A generation stays whole while a handle of a published or a retained    *)
(* generation leases it, though publications and cleanings go on beside it *)
(* (retain_published_generation leases under the shared publication lock). *)
LeasedWhole ==
  \A p \in Processes : pc[p] \in {"published", "retained"} => store[lease[p]] = "whole"

(* No pruning removes the private directory, the staged copies or the      *)
(* backups of a publication that still needs them.                         *)
ScratchKept == \A p \in Processes : scratch[p] # "removed"

(* Nothing that is still needed is deleted, whoever prunes, cleans or      *)
(* retires beside it: what the reference names, what a handle leases, what *)
(* a running publication staged (prune_generations, maintain_product).     *)
NeededKept == TypeOK /\ ReferenceWhole /\ LeasedWhole /\ ScratchKept

(* What a power loss leaves: the generation the reference names is whole,  *)
(* and visible unless the journal says otherwise.                          *)
CurrentSurvives == CurrentWhole /\ CurrentVisible

(* Recovery removes only files an unfinished publication put there: a file *)
(* the publication would have replaced, and did not or put back, is not    *)
(* removed.                                                                *)
RecoveryRemovesOwn ==
  \A p \in Processes : pc[p] = "restore" => \A x \in doomed[p] : public[x] # Foreign

(* Every operation ends: the root lock, the publication lock and the       *)
(* leases are never waited for in a circle, and the reader that trades its *)
(* shared lock for the exclusive and back gets through.                    *)
OperationsEnd == \A p \in Processes : pc[p] # "idle" ~> pc[p] = "idle"

----------------------------------------------------------------------------
(* What a reader with the guard finds at the public paths.                 *)
VisibleFiles == [x \in {y \in Paths : public[y] \in Generations} |-> public[x]]

Committed == INSTANCE CommittedProduct
               WITH Readers <- Processes,
                    product <- reference.current,
                    view    <- [p \in Processes |->
                                  IF pc[p] = "guarded" THEN VisibleFiles ELSE None]

(* Through the locks, the journal and its recovery, deaths and failures    *)
(* included, the store behaves as one committed product that is replaced   *)
(* atomically: each guarded reader sees exactly the files of the reference *)
(* for as long as it holds the guard.                                      *)
ImplementsCommittedProduct == Committed!Spec

============================================================================

------------------------- MODULE EnvironmentPackages -------------------------
(* How an Environment keeps one package: the loaded package, its status and    *)
(* its recorded errors in memory, its directory on disk, and the calls that    *)
(* load, add, install, save, unload and delete it under the package's mutex.   *)
(*                                                                             *)
(* A call is a coroutine of Node's event loop. A step runs from one await to   *)
(* the next. What follows an await of I/O (a rename, a download, a load) runs  *)
(* as an event of its own, and only when no promise continuation is due; what  *)
(* follows the release of the mutex, in the caller and in the next waiter, is  *)
(* such a continuation, and two of them run in either order.                   *)
(*                                                                             *)
(* A directory tree is a number, fresh for every install and every save. The   *)
(* memory governor's refusals come before anything here changes and are left   *)
(* out, as are calls that find the package loaded and only return it.          *)
EXTENDS Integers, Sequences, FiniteSets

CONSTANTS
  Clients,   \* calls that can be under way at once
  MaxCalls,  \* bound: calls made in a behaviour
  MaxTrees   \* bound: trees downloaded or saved in a behaviour

ASSUME BoundsAssumption == MaxCalls \in Nat /\ MaxTrees \in Nat \ {0}
ASSUME ClientsAssumption == Clients # {}

VARIABLES
  packages,   \* the tree the loaded package was built from, NoTree if none is
  status,     \* packageStatuses
  failed,     \* the package is in failedPackages
  stale,      \* the package is in staleCompileErrors
  canonical,  \* the tree at {environmentPath}/{packageName}
  staging,    \* by call: its tree under .staging
  previous,   \* by call: the tree an install renamed to .retired, the text a
              \* save means to put back
  litter,     \* trees under .staging and .retired that no call will remove
  cleaning,   \* removals handed to setImmediate
  handles,    \* connections of packages that were ever served, not yet closed
  draining,   \* retiredConnectionGenerations: those a timer will close
  queue,      \* the mutex: its holder first, then its waiters in order
  op, pc,     \* by call: what was asked and where it is
  found,      \* by call: tree and package when it entered the mutex (history)
  forgotten,  \* a delete has ended, and no call has started or ended since (history)
  disk,       \* whether renames, writes and removals may fail
  calls, made

memory == <<packages, status, failed, stale>>
trees == <<canonical, staging, previous, litter, cleaning>>
pool == <<handles, draining>>
bounds == <<disk, calls, made>>
vars == <<memory, trees, pool, queue, op, pc, found, forgotten, bounds>>

NoTree == 0
Stub == -1   \* a directory without a manifest
Trees == 1 .. MaxTrees

Ops == {"none", "get", "reload", "list", "add", "unload", "install", "save", "delete"}
Pcs == {"idle", "download", "wait", "load", "record", "validate", "remove", "retire",
        "swap", "create", "rollback", "bind", "write", "verify", "restore", "reload"}

TypeOK ==
  /\ packages \in Trees \cup {NoTree}
  /\ status \in {"none", "LOADING", "SERVING", "UNLOADING"}
  /\ failed \in BOOLEAN /\ stale \in BOOLEAN
  /\ canonical \in Trees \cup {NoTree, Stub}
  /\ staging \in [Clients -> Trees \cup {NoTree}]
  /\ previous \in [Clients -> Trees \cup {NoTree, Stub}]
  /\ litter \in Nat /\ cleaning \in Nat /\ handles \in Nat /\ draining \in Nat
  /\ queue \in Seq(Clients)
  /\ op \in [Clients -> Ops] /\ pc \in [Clients -> Pcs]
  /\ found \in [Clients -> [tree : Trees \cup {NoTree, Stub}, served : Trees \cup {NoTree}]]
  /\ forgotten \in BOOLEAN
  /\ disk \in {"sound", "faulty"}
  /\ calls \in 0 .. MaxCalls /\ made \in Trees

\* An environment as the store leaves it: packages named by its configuration or
\* its database are marked SERVING before anything has loaded them, and the
\* directory of a package may be there or not.
Init ==
  /\ packages = NoTree /\ status \in {"none", "SERVING"}
  /\ failed = FALSE /\ stale = FALSE
  /\ canonical \in {NoTree, 1}
  /\ staging = [c \in Clients |-> NoTree] /\ previous = [c \in Clients |-> NoTree]
  /\ litter = 0 /\ cleaning = 0 /\ handles = 0 /\ draining = 0
  /\ queue = <<>>
  /\ op = [c \in Clients |-> "none"] /\ pc = [c \in Clients |-> "idle"]
  /\ found = [c \in Clients |-> [tree |-> NoTree, served |-> NoTree]]
  /\ forgotten = FALSE
  /\ disk \in {"sound", "faulty"}
  /\ calls = 0 /\ made = 1

-----------------------------------------------------------------------------
Served == packages # NoTree
Count(b) == IF b THEN 1 ELSE 0
DiskFault == disk = "faulty"

\* A promise continuation other than a waiter's entry to the mutex is due.
Due == \E c \in Clients : pc[c] \in {"record", "validate"}

At(c, where) == pc[c] = where /\ (where \notin {"record", "validate"} => ~Due)
Go(c, where) == pc' = [pc EXCEPT ![c] = where]

\* runExclusive: the holder is the head of the queue.
Acquire(c) == queue' = Append(queue, c)
Release == queue' = Tail(queue)

\* What is forgotten of a call that is over.
Finish(c, where) ==
  IF where = "idle"
  THEN /\ op' = [op EXCEPT ![c] = "none"]
       /\ found' = [found EXCEPT ![c] = [tree |-> NoTree, served |-> NoTree]]
  ELSE UNCHANGED <<op, found>>

\* A call's last step: it leaves the mutex and its caller goes on at `where`.
Leave(c, where) ==
  /\ Release /\ Go(c, where)
  /\ forgotten' = (where = "idle" /\ op[c] = "delete")
  /\ previous' = [previous EXCEPT ![c] = NoTree]
  /\ Finish(c, where)

Step(c, where) == Go(c, where) /\ UNCHANGED <<queue, op, found, forgotten>>

\* clearPackageLoadFailure
Clear == failed' = FALSE /\ stale' = FALSE

\* retireConnectionGeneration, for n packages.
Retire(n) == draining' = draining + n

-----------------------------------------------------------------------------
\* The calls, up to their first await.
Call(c, o) ==
  /\ pc[c] = "idle" /\ ~Due /\ calls < MaxCalls
  /\ o \in Ops \ {"none", "unload"}
  /\ o = "get" => ~Served
  /\ o = "list" => ~Served /\ status \in {"SERVING", "UNLOADING"}
  /\ o = "add" => canonical # NoTree
  /\ op' = [op EXCEPT ![c] = o]
  /\ calls' = calls + 1
  /\ forgotten' = FALSE
  /\ IF o = "install" THEN Go(c, "download") /\ UNCHANGED queue
     ELSE Go(c, "wait") /\ Acquire(c)
  /\ UNCHANGED <<memory, trees, pool, found, disk, made>>

\* Variant: a failed download leaves its directory.
DownloadUnswept(c) ==
  /\ At(c, "download")
  /\ litter' = litter + 1
  /\ Go(c, "idle") /\ Finish(c, "idle") /\ forgotten' = FALSE
  /\ UNCHANGED <<memory, canonical, staging, previous, cleaning, pool, queue, bounds>>

\* Phase 1 of an install, outside the mutex.
Download(c) ==
  /\ At(c, "download")
  /\ \/ /\ made < MaxTrees
        /\ made' = made + 1
        /\ staging' = [staging EXCEPT ![c] = made + 1]
        /\ Go(c, "wait") /\ Acquire(c)
        /\ UNCHANGED <<litter, op, found, forgotten>>
     \/ /\ litter' \in {litter} \cup IF DiskFault THEN {litter + 1} ELSE {}
        /\ Go(c, "idle") /\ Finish(c, "idle") /\ forgotten' = FALSE
        /\ UNCHANGED <<staging, queue, made>>
  /\ UNCHANGED <<memory, canonical, previous, cleaning, pool, disk, calls>>

\* The head of the queue enters its critical section and runs to its first await.
Enter(c) ==
  /\ pc[c] = "wait" /\ queue # <<>> /\ c = Head(queue)

EnterAt(c, where) ==
  /\ Go(c, where)
  /\ found' = [found EXCEPT ![c] = [tree |-> canonical, served |-> packages]]
  /\ UNCHANGED <<queue, op, forgotten>>

\* _loadOrGetPackageLocked and _addPackageLocked, up to Package.create.
EnterLoad(c) ==
  /\ Enter(c) /\ op[c] \in {"get", "list", "reload", "add"}
  /\ IF Served /\ op[c] # "reload"
     THEN Leave(c, IF op[c] = "add" THEN "validate" ELSE "idle") /\ UNCHANGED status
     ELSE status' = "LOADING" /\ EnterAt(c, "load") /\ UNCHANGED previous
  /\ UNCHANGED <<packages, failed, stale, canonical, staging, litter, cleaning, pool, bounds>>

EnterInstall(c) ==
  /\ Enter(c) /\ op[c] = "install"
  /\ EnterAt(c, "retire")
  /\ UNCHANGED <<memory, trees, pool, bounds>>

EnterSave(c) ==
  /\ Enter(c) /\ op[c] = "save"
  /\ EnterAt(c, "write")
  /\ UNCHANGED <<memory, trees, pool, bounds>>

EnterDelete(c) ==
  /\ Enter(c) /\ op[c] = "delete"
  /\ Clear
  /\ IF Served
     THEN /\ status' = IF status = "SERVING" THEN "UNLOADING" ELSE status
          /\ Retire(1) /\ EnterAt(c, "remove") /\ UNCHANGED previous
     ELSE Leave(c, "idle") /\ UNCHANGED <<status, draining>>
  /\ UNCHANGED <<packages, canonical, staging, litter, cleaning, handles, bounds>>

\* Variant: the unloaded package's connections are not retired.
EnterUnloadUnretired(c) ==
  /\ Enter(c) /\ op[c] = "unload"
  /\ Leave(c, "idle")
  /\ Clear /\ packages' = NoTree /\ status' = "none"
  /\ UNCHANGED <<canonical, staging, litter, cleaning, pool, bounds>>

\* unloadPackage has no await inside the mutex.
EnterUnload(c) ==
  /\ Enter(c) /\ op[c] = "unload"
  /\ Leave(c, "idle")
  /\ IF Served
     THEN Retire(1) /\ Clear /\ packages' = NoTree /\ status' = "none"
     ELSE UNCHANGED <<memory, draining>>
  /\ UNCHANGED <<canonical, staging, litter, cleaning, handles, bounds>>

-----------------------------------------------------------------------------
\* The end of a load of the canonical tree that is to replace what is served.
LoadSucceeds ==
  /\ canonical \in Trees
  /\ packages' = canonical /\ status' = "SERVING" /\ Clear
  /\ Retire(Count(Served)) /\ handles' = handles + 1

\* A load that was not a reload leaves nothing behind; a failed reload keeps what
\* is served and says so.
LoadFails ==
  /\ IF Served THEN status' = "SERVING" /\ stale' = TRUE
     ELSE status' = "none" /\ UNCHANGED stale
  /\ UNCHANGED <<packages, failed, pool>>

\* Package.create and what follows it, for get, list, reload and add.
LoadReturns(c) ==
  /\ At(c, "load") /\ op[c] # "save"
  /\ \/ LoadSucceeds /\ Leave(c, IF op[c] = "add" THEN "validate" ELSE "idle")
     \/ LoadFails /\ Leave(c, IF op[c] = "list" THEN "record" ELSE "idle")
  /\ UNCHANGED <<canonical, staging, litter, cleaning, bounds>>

\* The catch of listPackages, after the mutex was released.
Record(c) ==
  /\ At(c, "record")
  /\ failed' = TRUE
  /\ Go(c, "idle") /\ Finish(c, "idle")
  /\ UNCHANGED <<packages, status, stale, trees, pool, queue, forgotten, bounds>>

\* formatPublishRejections on what addPackage returned: a refused package is
\* unloaded.
Validate(c) ==
  /\ At(c, "validate")
  /\ \/ Go(c, "idle") /\ Finish(c, "idle") /\ UNCHANGED queue
     \/ Go(c, "wait") /\ Acquire(c) /\ op' = [op EXCEPT ![c] = "unload"] /\ UNCHANGED found
  /\ UNCHANGED <<memory, trees, pool, forgotten, bounds>>

\* The rest of deletePackage: the rename may fail, the eviction does not depend on it.
Remove(c) ==
  /\ At(c, "remove")
  /\ \/ canonical # NoTree /\ canonical' = NoTree /\ cleaning' = cleaning + 1
     \/ (canonical = NoTree \/ DiskFault) /\ UNCHANGED <<canonical, cleaning>>
  /\ packages' = NoTree /\ status' = "none"
  /\ Leave(c, "idle")
  /\ UNCHANGED <<failed, stale, staging, litter, pool, bounds>>

-----------------------------------------------------------------------------
\* Phase 2 of an install: the old tree to .retired. A failed rename here is
\* outside the try, so the staged tree stays where it is.
RetireOld(c) ==
  /\ At(c, "retire")
  /\ \/ /\ canonical' = NoTree
        /\ previous' = [previous EXCEPT ![c] = canonical]
        /\ Step(c, "swap")
        /\ UNCHANGED <<staging, litter>>
     \/ /\ canonical # NoTree /\ DiskFault
        /\ staging' = [staging EXCEPT ![c] = NoTree] /\ litter' = litter + 1
        /\ Leave(c, "idle")
        /\ UNCHANGED canonical
  /\ UNCHANGED <<memory, cleaning, pool, bounds>>

\* The staged tree to the canonical path.
Swap(c) ==
  /\ At(c, "swap")
  /\ \/ /\ canonical' = staging[c] /\ staging' = [staging EXCEPT ![c] = NoTree]
        /\ status' = "LOADING"
        /\ Step(c, "create")
     \/ /\ DiskFault
        /\ Step(c, "rollback")
        /\ UNCHANGED <<canonical, staging, status>>
  /\ UNCHANGED <<packages, failed, stale, previous, litter, cleaning, pool, bounds>>

\* Package.create, which removes the tree when it fails, and the caller's validator.
Create(c) ==
  /\ At(c, "create")
  /\ \/ Step(c, "bind") /\ UNCHANGED canonical
     \/ Step(c, "rollback") /\ canonical' = NoTree
     \/ Step(c, "rollback") /\ UNCHANGED canonical
  /\ UNCHANGED <<memory, staging, previous, litter, cleaning, pool, bounds>>

\* Variant: the old package counts as serving whether or not its tree came back.
RollbackUnchecked(c) ==
  /\ At(c, "rollback")
  /\ canonical' \in {NoTree, previous[c]}
  /\ IF Served THEN status' = "SERVING" ELSE status' = "none"
  /\ staging' = [staging EXCEPT ![c] = NoTree]
  /\ Leave(c, "idle")
  /\ UNCHANGED <<packages, failed, stale, litter, cleaning, pool, bounds>>

\* Variant: the status is deleted though the old package is still served.
RollbackUnlisted(c) ==
  /\ At(c, "rollback")
  /\ canonical' = previous[c] /\ status' = "none"
  /\ staging' = [staging EXCEPT ![c] = NoTree]
  /\ Leave(c, "idle")
  /\ UNCHANGED <<packages, failed, stale, litter, cleaning, pool, bounds>>

\* The catch of an install: wipe the canonical path, rename the old tree back,
\* wipe the staged one. The wipes are best effort, and the rename needs an empty
\* destination.
Rollback(c) ==
  /\ At(c, "rollback")
  /\ \E wiped, renamed, swept \in {TRUE} \cup IF DiskFault THEN {FALSE} ELSE {} :
       LET after == IF wiped THEN NoTree ELSE canonical
           restored == previous[c] # NoTree /\ after = NoTree /\ renamed
           abandoned == Count(previous[c] # NoTree /\ ~restored)
                          + Count(staging[c] # NoTree /\ ~swept)
       IN /\ canonical' = IF restored THEN previous[c] ELSE after
          /\ litter' = litter + abandoned
          /\ IF Served /\ restored
             THEN status' = "SERVING" /\ UNCHANGED <<packages, draining>>
             ELSE status' = "none" /\ packages' = NoTree /\ Retire(Count(Served))
  /\ staging' = [staging EXCEPT ![c] = NoTree]
  /\ Leave(c, "idle")
  /\ UNCHANGED <<failed, stale, cleaning, handles, bounds>>

\* The manifest is bound, best effort, and the new package replaces the old one.
Commit(c) ==
  /\ At(c, "bind")
  /\ packages' = canonical /\ status' = "SERVING" /\ Clear
  /\ Retire(Count(Served)) /\ handles' = handles + 1
  /\ cleaning' = cleaning + Count(previous[c] # NoTree)
  /\ Leave(c, "idle")
  /\ UNCHANGED <<canonical, staging, litter, bounds>>

-----------------------------------------------------------------------------
\* Variant: a refused precondition leaves without releasing the mutex.
WriteUnreleased(c) ==
  /\ At(c, "write")
  /\ Go(c, "idle") /\ Finish(c, "idle")
  /\ UNCHANGED <<memory, trees, pool, queue, forgotten, bounds>>

\* writeModelFileTransactional: the caller's precondition, then the write, which
\* makes the directory when there is none, then a reload.
Write(c) ==
  /\ At(c, "write")
  /\ \/ /\ \/ UNCHANGED canonical
           \/ DiskFault /\ canonical = NoTree /\ canonical' = Stub
        /\ Leave(c, "idle")
        /\ UNCHANGED <<status, made>>
     \/ /\ made < MaxTrees
        /\ canonical' = IF canonical \in Trees THEN made + 1 ELSE Stub
        /\ made' = made + 1
        /\ previous' = [previous EXCEPT ![c] = canonical]
        /\ status' = "LOADING"
        /\ Step(c, "load")
  /\ UNCHANGED <<packages, failed, stale, staging, litter, cleaning, pool, disk, calls>>

SaveLoaded(c) ==
  /\ At(c, "load") /\ op[c] = "save"
  /\ \/ LoadSucceeds /\ Step(c, "verify")
     \/ LoadFails /\ Step(c, "restore")
  /\ UNCHANGED <<trees, bounds>>

Verify(c) ==
  /\ At(c, "verify")
  /\ \/ Leave(c, "idle")
     \/ Step(c, "restore") /\ UNCHANGED previous
  /\ UNCHANGED <<memory, canonical, staging, litter, cleaning, pool, bounds>>

\* Variant: the package is loaded again without the previous text being put back.
RestoreNothing(c) ==
  /\ At(c, "restore")
  /\ status' = "LOADING" /\ Step(c, "reload")
  /\ UNCHANGED <<packages, failed, stale, trees, pool, bounds>>

\* The previous text goes back, or the new file is removed, and the package is
\* loaded once more.
Restore(c) ==
  /\ At(c, "restore")
  /\ \/ /\ canonical' = IF previous[c] = NoTree THEN Stub ELSE previous[c]
        /\ status' = "LOADING"
        /\ Step(c, "reload") /\ UNCHANGED previous
     \/ /\ DiskFault
        /\ Leave(c, "idle")
        /\ UNCHANGED <<canonical, status>>
  /\ UNCHANGED <<packages, failed, stale, staging, litter, cleaning, pool, bounds>>

Reverted(c) ==
  /\ At(c, "reload")
  /\ LoadSucceeds \/ LoadFails
  /\ Leave(c, "idle")
  /\ UNCHANGED <<canonical, staging, litter, cleaning, bounds>>

-----------------------------------------------------------------------------
\* The timer of a retired generation closes its connections.
Drain ==
  /\ ~Due /\ draining > 0
  /\ draining' = draining - 1 /\ handles' = handles - 1
  /\ UNCHANGED <<memory, trees, queue, op, pc, found, forgotten, bounds>>

\* The removal of a retired tree, after the call that retired it.
Clean ==
  /\ ~Due /\ cleaning > 0
  /\ cleaning' = cleaning - 1
  /\ litter' \in {litter} \cup IF DiskFault THEN {litter + 1} ELSE {}
  /\ UNCHANGED <<memory, canonical, staging, previous, pool, queue, op, pc, found,
                 forgotten, bounds>>

Proceed(c) ==
  \/ Download(c) \/ EnterLoad(c) \/ EnterInstall(c) \/ EnterSave(c) \/ EnterDelete(c)
  \/ EnterUnload(c) \/ LoadReturns(c) \/ Record(c) \/ Validate(c) \/ Remove(c)
  \/ RetireOld(c) \/ Swap(c) \/ Create(c) \/ Rollback(c) \/ Commit(c)
  \/ Write(c) \/ SaveLoaded(c) \/ Verify(c) \/ Restore(c) \/ Reverted(c)

Next ==
  \/ \E c \in Clients : Proceed(c) \/ \E o \in Ops : Call(c, o)
  \/ Drain \/ Clean

Spec == Init /\ [][Next]_vars

\* A load, a download and a file operation end; the mutex serves its queue in order.
FairSpec == Spec /\ \A c \in Clients : WF_vars(Proceed(c))

-----------------------------------------------------------------------------
Free == queue = <<>>
Quiet == Free /\ (\A c \in Clients : pc[c] = "idle") /\ cleaning = 0

\* What is served is what is on disk, unless the package is reported stale,
\* whatever failed on the way: a failed reload, a refused save, an install whose
\* rollback could not put the old tree back.
ServesDisk == Free /\ packages # NoTree /\ ~stale => canonical = packages

\* Between calls the two maps agree: a loaded package is in packageStatuses, so
\* listPackages and discovery see it, and no status is left in a passing state.
MapsAgree == Free => /\ packages # NoTree => status = "SERVING"
                     /\ status \in {"none", "SERVING"}

\* Every package that was ever served is served still, or is one of the retired
\* generations whose timer will close its connections, or was closed: none is
\* dropped with its connections open and none is closed twice.
HandlesAccountedFor ==
  ~(\E c \in Clients : pc[c] = "remove") => handles = Count(packages # NoTree) + draining

\* An install that fails leaves the directory and the served package as it found
\* them, and a save that is rolled back leaves the directory so, but for the empty
\* one it makes where there was none.
RefusedChangesNothing ==
  [][\A c \in Clients :
       /\ disk = "sound" /\ pc[c] \in {"rollback", "reload"} /\ pc'[c] = "idle"
       => /\ \/ canonical' = found[c].tree
             \/ op[c] = "save" /\ found[c].tree = NoTree /\ canonical' = Stub
          /\ op[c] = "install" => packages' = found[c].served]_vars

\* When every call is done nothing is left under .staging and .retired.
NothingLeftBehind ==
  disk = "sound" /\ Quiet => litter = 0 /\ \A c \in Clients : staging[c] = NoTree

\* Every call returns: nobody waits for the mutex for good.
CallsReturn == \A c \in Clients : (pc[c] # "idle") ~> (pc[c] = "idle")

\* After a delete, with nothing called since, no load failure is reported of the
\* package.
DeletedIsForgotten == forgotten /\ Quiet => ~failed
=============================================================================

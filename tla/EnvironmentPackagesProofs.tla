---------------------- MODULE EnvironmentPackagesProofs ----------------------
(* Proofs about EnvironmentPackages for any number of concurrent calls: what is *)
(* served agrees with the disk, the maps with each other, the connections with  *)
(* the packages, and a refused install or save with what it found.              *)
EXTENDS EnvironmentPackages, TLAPS

\* Where a call is inside the package's mutex, and where what it has done so far
\* cannot be left as it is.
Section == {"load", "remove", "retire", "swap", "create", "rollback", "bind", "write",
            "verify", "restore", "reload"}
Busy == {"load", "remove", "swap", "create", "rollback", "bind", "reload"}

Alone(c) == \A d \in Clients \ {c} : pc[d] \notin Section

\* A call inside the mutex is at the head of its queue.
Exclusive == \A c \in Clients : pc[c] \in Section => queue # <<>> /\ c = Head(queue)

\* What a call owns, in or out of the mutex: an install its staged tree.
Owned(c) ==
  /\ pc[c] \in {"download", "retire", "swap", "create", "bind", "rollback"} => op[c] = "install"
  /\ pc[c] \in {"write", "verify", "restore", "reload"} => op[c] = "save"
  /\ pc[c] \in {"wait", "retire", "swap"} /\ op[c] = "install" => staging[c] \in Trees
  /\ staging[c] # NoTree => /\ op[c] = "install"
                            /\ pc[c] \in {"wait", "retire", "swap", "rollback"}

\* What holds of the package between calls: it is the tree on disk or reported
\* stale, and it is in packageStatuses.
Agreed ==
  /\ Served /\ ~stale => canonical = packages
  /\ Served => status = "SERVING"
  /\ status \in {"none", "SERVING"}

\* The rest depends on where in the mutex the one call is that may be inside.

\* An install keeps the tree of what is served where its rollback finds it.
DiskPhase(c) ==
  /\ pc[c] \notin Busy => Agreed
  /\ pc[c] \in {"swap", "create", "rollback"} /\ Served /\ ~stale => previous[c] = packages
  /\ pc[c] \in {"create", "bind"} => canonical \in Trees

\* A delete retires the connections before it drops the package.
HandlePhase(c) ==
  IF pc[c] = "remove" THEN Served /\ handles = draining
  ELSE handles = Count(Served) + draining

\* Where a call that may still be refused keeps what it found.
FoundPhase(c) ==
  /\ pc[c] \notin {"swap", "create", "rollback"} /\ Served => canonical # NoTree
  /\ pc[c] = "retire" => found[c].tree = canonical /\ found[c].served = packages
  /\ pc[c] \in {"swap", "create", "rollback"} =>
       /\ found[c].tree = previous[c] /\ found[c].served = packages
       /\ Served => previous[c] # NoTree
  /\ pc[c] = "write" => found[c].tree = canonical
  /\ pc[c] \in {"verify", "restore"} \/ (pc[c] = "load" /\ op[c] = "save") =>
       found[c].tree = previous[c]
  /\ pc[c] = "reload" => canonical = IF found[c].tree = NoTree THEN Stub ELSE found[c].tree

Phase(c) == DiskPhase(c) /\ HandlePhase(c) /\ (disk = "sound" => litter = 0 /\ FoundPhase(c))

PackagesInv ==
  /\ TypeOK
  /\ Exclusive
  /\ \A c \in Clients : Owned(c)
  /\ \A c \in Clients : Alone(c) => Phase(c)

-----------------------------------------------------------------------------
(* Basic facts *)

LEMMA TreeFacts ==
  /\ NoTree \notin Trees /\ Stub \notin Trees /\ Stub # NoTree /\ 1 \in Trees
  /\ \A n \in Trees : n < MaxTrees => n + 1 \in Trees
  BY BoundsAssumption DEF NoTree, Stub, Trees

LEMMA CountFacts == Count(TRUE) = 1 /\ Count(FALSE) = 0 /\ \A b : Count(b) \in {0, 1}
  BY DEF Count

\* The head of the queue is alone.
LEMMA HeadIsAlone ==
  ASSUME Exclusive, NEW c, c = Head(queue)
  PROVE  Alone(c)
  BY DEF Exclusive, Alone

LEMMA QueueFacts ==
  ASSUME NEW q \in Seq(Clients), NEW c \in Clients
  PROVE  /\ Append(q, c) \in Seq(Clients) /\ Append(q, c) # <<>>
         /\ q # <<>> => Head(Append(q, c)) = Head(q) /\ Tail(q) \in Seq(Clients)
<1>1. Append(q, c) \in Seq(Clients) /\ Len(Append(q, c)) = Len(q) + 1 /\ Len(q) \in Nat
  OBVIOUS
<1>2. Append(q, c) # <<>>
  BY <1>1
<1>3. q # <<>> => Head(Append(q, c)) = Head(q)
  BY <1>1
<1>4. q # <<>> => Tail(q) \in Seq(Clients)
  OBVIOUS
<1> QED BY <1>1, <1>2, <1>3, <1>4

\* A call that is alone, and was inside the mutex or enters it, takes a step: what
\* it leaves need be looked at in its own place only.
LEMMA HolderKeeps ==
  ASSUME NEW c \in Clients, Alone(c), \A d \in Clients : Owned(d),
         \A d \in Clients \ {c} : /\ pc'[d] = pc[d] /\ op'[d] = op[d]
                                  /\ staging'[d] = staging[d],
         TypeOK', pc'[c] \in Section => queue' # <<>> /\ c = Head(queue'),
         Owned(c)', Phase(c)'
  PROVE  PackagesInv'
<1>1. Exclusive'
  BY DEF Exclusive, Alone
<1>2. ASSUME NEW d \in Clients PROVE Owned(d)'
  BY DEF Owned
<1>3. ASSUME NEW d \in Clients, Alone(d)' PROVE Phase(d)'
  <2>1. CASE d = c
    BY <2>1
  <2>2. CASE d # c
    <3>1. pc'[c] \notin Section /\ pc'[d] \notin Section
      BY <1>3, <2>2 DEF Alone
    <3> QED BY <3>1 DEF Phase, DiskPhase, HandlePhase, FoundPhase, Section, Busy
  <2> QED BY <2>1, <2>2
<1> QED BY <1>1, <1>2, <1>3 DEF PackagesInv

\* A call outside the mutex, before and after its step, changes nothing the one
\* inside looks at.
LEMMA OutsiderKeeps ==
  ASSUME PackagesInv, NEW c \in Clients, TypeOK', pc[c] \notin Section, pc'[c] \notin Section,
         \A d \in Clients \ {c} : /\ pc'[d] = pc[d] /\ op'[d] = op[d] /\ found'[d] = found[d]
                                  /\ staging'[d] = staging[d],
         UNCHANGED <<packages, status, stale, canonical, previous, handles, draining, disk>>,
         disk = "sound" => litter' = litter,
         queue' = queue \/ queue' = Append(queue, c), Owned(c)'
  PROVE  PackagesInv'
<1>0. queue \in Seq(Clients)
  BY DEF PackagesInv, TypeOK
<1>1. Exclusive'
  <2>1. ASSUME NEW d \in Clients, pc'[d] \in Section PROVE queue # <<>> /\ d = Head(queue)
    BY <2>1 DEF Exclusive, PackagesInv
  <2>2. queue # <<>> => queue' # <<>> /\ Head(queue') = Head(queue)
    BY <1>0, QueueFacts
  <2> QED BY <2>1, <2>2 DEF Exclusive
<1>2. ASSUME NEW d \in Clients PROVE Owned(d)'
  BY DEF Owned, PackagesInv
<1>3. ASSUME NEW d \in Clients, Alone(d)' PROVE Phase(d)'
  <2>1. Alone(d) /\ Phase(d)
    BY <1>3 DEF Alone, PackagesInv
  <2>2. CASE d = c
    <3>1. DiskPhase(d)' /\ HandlePhase(d)'
      BY <2>1, <2>2 DEF Phase, DiskPhase, HandlePhase, Section, Busy, Served, Agreed
    <3>2. disk' = "sound" => litter' = 0 /\ FoundPhase(d)'
      BY <2>1, <2>2 DEF Phase, FoundPhase, Section, Served
    <3> QED BY <3>1, <3>2 DEF Phase
  <2>3. CASE d # c
    <3>1. DiskPhase(d)' /\ HandlePhase(d)'
      BY <2>1, <2>3 DEF Phase, DiskPhase, HandlePhase, Served, Agreed
    <3>2. disk' = "sound" => litter' = 0 /\ FoundPhase(d)'
      BY <2>1, <2>3 DEF Phase, FoundPhase, Served
    <3> QED BY <3>1, <3>2 DEF Phase
  <2> QED BY <2>2, <2>3
<1> QED BY <1>1, <1>2, <1>3 DEF PackagesInv

-----------------------------------------------------------------------------
(* The ways a step ends *)

\* TypeOK in two parts: the package and its trees, and the calls.
WorldOK ==
  /\ packages \in Trees \cup {NoTree}
  /\ status \in {"none", "LOADING", "SERVING", "UNLOADING"}
  /\ failed \in BOOLEAN /\ stale \in BOOLEAN
  /\ canonical \in Trees \cup {NoTree, Stub}
  /\ staging \in [Clients -> Trees \cup {NoTree}]
  /\ litter \in Nat /\ cleaning \in Nat /\ handles \in Nat /\ draining \in Nat
  /\ disk \in {"sound", "faulty"}
  /\ calls \in 0 .. MaxCalls /\ made \in Trees

FoundType == [tree : Trees \cup {NoTree, Stub}, served : Trees \cup {NoTree}]

CallsOK ==
  /\ previous \in [Clients -> Trees \cup {NoTree, Stub}]
  /\ queue \in Seq(Clients)
  /\ op \in [Clients -> Ops] /\ pc \in [Clients -> Pcs]
  /\ found \in [Clients -> FoundType]
  /\ forgotten \in BOOLEAN

LEMMA TypeParts == TypeOK <=> WorldOK /\ CallsOK
  BY DEF TypeOK, WorldOK, CallsOK, FoundType

LEMMA NothingFound == [tree |-> NoTree, served |-> NoTree] \in FoundType
  BY DEF FoundType

\* A call that ends is asked nothing and remembers nothing.
LEMMA FinishFacts ==
  ASSUME CallsOK, NEW c \in Clients, NEW where, Finish(c, where)
  PROVE  /\ op' \in [Clients -> Ops] /\ found' \in [Clients -> FoundType]
         /\ op'[c] = IF where = "idle" THEN "none" ELSE op[c]
         /\ \A d \in Clients \ {c} : op'[d] = op[d] /\ found'[d] = found[d]
<1>1. CASE where = "idle"
  <2>1. op' = [op EXCEPT ![c] = "none"]
        /\ found' = [found EXCEPT ![c] = [tree |-> NoTree, served |-> NoTree]]
    BY <1>1 DEF Finish
  <2>2. op' \in [Clients -> Ops] /\ op'[c] = "none" /\ \A d \in Clients \ {c} : op'[d] = op[d]
    BY <2>1 DEF CallsOK, Ops
  <2>3. found' \in [Clients -> FoundType] /\ \A d \in Clients \ {c} : found'[d] = found[d]
    BY <2>1, NothingFound DEF CallsOK
  <2> QED BY <1>1, <2>2, <2>3
<1>2. CASE where # "idle"
  BY <1>2 DEF Finish, CallsOK
<1> QED BY <1>1, <1>2

\* A call leaves the mutex with the package as it may be between calls.
LEMMA LeaverKeeps ==
  ASSUME PackagesInv, NEW c \in Clients, queue # <<>>, c = Head(queue),
         NEW where \in {"idle", "record", "validate"}, Leave(c, where),
         WorldOK', staging'[c] = NoTree, \A d \in Clients \ {c} : staging'[d] = staging[d],
         Agreed', handles' = Count(Served') + draining',
         disk' = "sound" => litter' = 0 /\ (Served' => canonical' # NoTree)
  PROVE  PackagesInv'
<1>1. TypeOK /\ Exclusive /\ CallsOK /\ \A d \in Clients : Owned(d)
  BY TypeParts DEF PackagesInv
<1>2. Alone(c)
  BY <1>1, HeadIsAlone
<1>3. queue' = Tail(queue) /\ pc' = [pc EXCEPT ![c] = where] /\ Finish(c, where)
      /\ previous' = [previous EXCEPT ![c] = NoTree] /\ forgotten' \in BOOLEAN
  BY DEF Leave, Release, Go
<1>4. queue' \in Seq(Clients)
  BY <1>1, <1>3, QueueFacts DEF CallsOK
<1>5. pc' \in [Clients -> Pcs] /\ pc'[c] = where /\ \A d \in Clients \ {c} : pc'[d] = pc[d]
  BY <1>1, <1>3 DEF CallsOK, Pcs
<1>6. /\ op' \in [Clients -> Ops] /\ found' \in [Clients -> FoundType]
      /\ op'[c] = IF where = "idle" THEN "none" ELSE op[c]
      /\ \A d \in Clients \ {c} : op'[d] = op[d] /\ found'[d] = found[d]
  BY <1>1, <1>3, FinishFacts
<1>7. previous' \in [Clients -> Trees \cup {NoTree, Stub}]
  BY <1>1, <1>3 DEF CallsOK
<1>8. CallsOK'
  BY <1>3, <1>4, <1>5, <1>6, <1>7 DEF CallsOK
<1>9. TypeOK'
  BY <1>8 DEF TypeOK, WorldOK, CallsOK, FoundType
<1>10. Owned(c)'
  BY <1>5, TreeFacts DEF Owned
<1>11. Phase(c)'
  BY <1>5 DEF Phase, DiskPhase, HandlePhase, FoundPhase, Busy
<1>12. pc'[c] \notin Section
  BY <1>5 DEF Section
<1> QED BY <1>1, <1>2, <1>5, <1>6, <1>9, <1>10, <1>11, <1>12, HolderKeeps

\* A call goes on inside the mutex.
LEMMA StayerKeeps ==
  ASSUME PackagesInv, NEW c \in Clients, queue # <<>>, c = Head(queue),
         NEW where \in Section, Go(c, where), queue' = queue, op' = op,
         found' \in [Clients -> FoundType], forgotten' \in BOOLEAN,
         previous' \in [Clients -> Trees \cup {NoTree, Stub}],
         WorldOK', \A d \in Clients \ {c} : staging'[d] = staging[d],
         Owned(c)', Phase(c)'
  PROVE  PackagesInv'
<1>1. TypeOK /\ Exclusive /\ CallsOK /\ \A d \in Clients : Owned(d)
  BY TypeParts DEF PackagesInv
<1>2. Alone(c)
  BY <1>1, HeadIsAlone
<1>3. pc' \in [Clients -> Pcs] /\ pc'[c] = where /\ \A d \in Clients \ {c} : pc'[d] = pc[d]
  BY <1>1 DEF Go, CallsOK, Pcs, Section
<1>4. CallsOK'
  BY <1>1, <1>3 DEF CallsOK
<1>5. TypeOK'
  BY <1>4 DEF TypeOK, WorldOK, CallsOK, FoundType
<1> QED BY <1>1, <1>2, <1>3, <1>5, HolderKeeps

\* What the invariant says to the call at the head of the queue.
LEMMA HolderFacts ==
  ASSUME PackagesInv, NEW c \in Clients, queue # <<>>, c = Head(queue)
  PROVE  /\ WorldOK /\ CallsOK /\ Alone(c) /\ Owned(c)
         /\ DiskPhase(c) /\ HandlePhase(c)
         /\ disk = "sound" => litter = 0 /\ FoundPhase(c)
  BY HeadIsAlone, TypeParts DEF PackagesInv, Phase

LEMMA SectionFacts ==
  ASSUME PackagesInv, NEW c \in Clients, pc[c] \in Section
  PROVE  queue # <<>> /\ c = Head(queue)
  BY DEF PackagesInv, Exclusive

-----------------------------------------------------------------------------
(* Entering the mutex *)

LEMMA EntryFacts ==
  ASSUME PackagesInv, NEW c \in Clients, Enter(c)
  PROVE  /\ queue # <<>> /\ c = Head(queue) /\ pc[c] = "wait"
         /\ WorldOK /\ CallsOK /\ Owned(c) /\ Agreed
         /\ handles = Count(Served) + draining
         /\ disk = "sound" => litter = 0 /\ (Served => canonical # NoTree)
<1>1. queue # <<>> /\ c = Head(queue) /\ pc[c] = "wait"
  BY DEF Enter
<1>2. /\ WorldOK /\ CallsOK /\ Owned(c) /\ DiskPhase(c) /\ HandlePhase(c)
      /\ disk = "sound" => litter = 0 /\ FoundPhase(c)
  BY <1>1, HolderFacts
<1> QED BY <1>1, <1>2 DEF DiskPhase, HandlePhase, FoundPhase, Busy

LEMMA EnterAtFacts ==
  ASSUME WorldOK, CallsOK, NEW c \in Clients, NEW where, EnterAt(c, where)
  PROVE  /\ Go(c, where) /\ queue' = queue /\ op' = op /\ forgotten' \in BOOLEAN
         /\ pc'[c] = where
         /\ found' \in [Clients -> FoundType]
         /\ found'[c].tree = canonical /\ found'[c].served = packages
<1>1. [tree |-> canonical, served |-> packages] \in FoundType
  BY DEF WorldOK, FoundType
<1>2. /\ found' = [found EXCEPT ![c] = [tree |-> canonical, served |-> packages]]
      /\ Go(c, where) /\ UNCHANGED <<queue, op, forgotten>>
  BY DEF EnterAt
<1>3. found' \in [Clients -> FoundType]
  BY <1>1, <1>2 DEF CallsOK
<1>4. found'[c] = [tree |-> canonical, served |-> packages]
  BY <1>2 DEF CallsOK
<1> QED BY <1>2, <1>3, <1>4 DEF CallsOK, Go

LEMMA EnterLoadKeeps ==
  ASSUME PackagesInv, NEW c \in Clients, EnterLoad(c)
  PROVE  PackagesInv'
<1>1. Enter(c) /\ op[c] \in {"get", "list", "reload", "add"}
      /\ UNCHANGED <<packages, failed, stale, canonical, staging, litter, cleaning, pool, bounds>>
  BY DEF EnterLoad
<1>2. /\ queue # <<>> /\ c = Head(queue) /\ pc[c] = "wait"
      /\ WorldOK /\ CallsOK /\ Owned(c) /\ Agreed
      /\ handles = Count(Served) + draining
      /\ disk = "sound" => litter = 0 /\ (Served => canonical # NoTree)
  BY <1>1, EntryFacts
<1>3. staging[c] = NoTree
  BY <1>1, <1>2 DEF Owned
<1>4. CASE Served /\ op[c] # "reload"
  <2> DEFINE where == IF op[c] = "add" THEN "validate" ELSE "idle"
  <2>1. Leave(c, where) /\ status' = status /\ where \in {"idle", "record", "validate"}
    BY <1>4 DEF EnterLoad
  <2>2. WorldOK'
    BY <1>1, <1>2, <2>1 DEF WorldOK, pool, bounds
  <2>3. Agreed' /\ Served' = Served
    BY <1>1, <1>2, <2>1 DEF Agreed, Served
  <2> HIDE DEF where
  <2> QED BY <1>1, <1>2, <1>3, <2>1, <2>2, <2>3, LeaverKeeps DEF pool, bounds
<1>5. CASE ~(Served /\ op[c] # "reload")
  <2>1. status' = "LOADING" /\ EnterAt(c, "load") /\ previous' = previous
    BY <1>5 DEF EnterLoad
  <2>2. /\ Go(c, "load") /\ queue' = queue /\ op' = op /\ forgotten' \in BOOLEAN
        /\ pc'[c] = "load" /\ found' \in [Clients -> FoundType]
    BY <1>2, <2>1, EnterAtFacts
  <2>3. WorldOK'
    BY <1>1, <1>2, <2>1 DEF WorldOK, pool, bounds
  <2>4. Owned(c)'
    BY <1>1, <1>3, <2>2 DEF Owned
  <2>5. Phase(c)'
    BY <1>1, <1>2, <2>2
       DEF Phase, DiskPhase, HandlePhase, FoundPhase, Served, pool, bounds, Busy
  <2>6. previous' \in [Clients -> Trees \cup {NoTree, Stub}]
    BY <1>2, <2>1 DEF CallsOK
  <2>7. "load" \in Section
    BY DEF Section
  <2> QED BY <1>1, <1>2, <2>2, <2>3, <2>4, <2>5, <2>6, <2>7, StayerKeeps
<1> QED BY <1>4, <1>5

LEMMA EnterInstallOrSaveKeeps ==
  ASSUME PackagesInv, NEW c \in Clients, EnterInstall(c) \/ EnterSave(c)
  PROVE  PackagesInv'
<1>1. Enter(c) /\ UNCHANGED <<memory, trees, pool, bounds>>
  BY DEF EnterInstall, EnterSave
<1>2. PICK where \in {"retire", "write"} :
        EnterAt(c, where) /\ op[c] = IF where = "retire" THEN "install" ELSE "save"
  BY DEF EnterInstall, EnterSave
<1>3. /\ queue # <<>> /\ c = Head(queue) /\ pc[c] = "wait"
      /\ WorldOK /\ CallsOK /\ Owned(c) /\ Agreed
      /\ handles = Count(Served) + draining
      /\ disk = "sound" => litter = 0 /\ (Served => canonical # NoTree)
  BY <1>1, EntryFacts
<1>4. /\ Go(c, where) /\ queue' = queue /\ op' = op /\ forgotten' \in BOOLEAN
      /\ pc'[c] = where /\ found' \in [Clients -> FoundType]
      /\ found'[c].tree = canonical /\ found'[c].served = packages
  BY <1>2, <1>3, EnterAtFacts
<1>5. WorldOK' /\ Agreed' /\ previous' \in [Clients -> Trees \cup {NoTree, Stub}]
  BY <1>1, <1>3 DEF WorldOK, CallsOK, Agreed, Served, memory, trees, pool, bounds
<1>6. Owned(c)'
  BY <1>1, <1>2, <1>3, <1>4, TreeFacts DEF Owned, trees
<1>7. Phase(c)'
  BY <1>1, <1>3, <1>4, <1>5
     DEF Phase, DiskPhase, HandlePhase, FoundPhase, Served, memory, trees, pool, bounds, Busy
<1>8. where \in Section
  BY DEF Section
<1> QED BY <1>1, <1>3, <1>4, <1>5, <1>6, <1>7, <1>8, StayerKeeps DEF trees

LEMMA EnterDeleteKeeps ==
  ASSUME PackagesInv, NEW c \in Clients, EnterDelete(c)
  PROVE  PackagesInv'
<1>1. Enter(c) /\ op[c] = "delete" /\ failed' = FALSE /\ stale' = FALSE
      /\ UNCHANGED <<packages, canonical, staging, litter, cleaning, handles, bounds>>
  BY DEF EnterDelete, Clear
<1>2. /\ queue # <<>> /\ c = Head(queue) /\ pc[c] = "wait"
      /\ WorldOK /\ CallsOK /\ Owned(c) /\ Agreed
      /\ handles = Count(Served) + draining
      /\ disk = "sound" => litter = 0 /\ (Served => canonical # NoTree)
  BY <1>1, EntryFacts
<1>3. staging[c] = NoTree
  BY <1>1, <1>2 DEF Owned
<1>4. CASE Served
  <2>1. /\ status' = IF status = "SERVING" THEN "UNLOADING" ELSE status
        /\ draining' = draining + 1 /\ EnterAt(c, "remove") /\ previous' = previous
    BY <1>4 DEF EnterDelete, Retire
  <2>2. /\ Go(c, "remove") /\ queue' = queue /\ op' = op /\ forgotten' \in BOOLEAN
        /\ pc'[c] = "remove" /\ found' \in [Clients -> FoundType]
    BY <1>2, <2>1, EnterAtFacts
  <2>a. draining' \in Nat /\ handles' = draining'
    <3>1. Count(Served) = 1 /\ draining \in Nat
      BY <1>2, <1>4 DEF Count, WorldOK
    <3> QED BY <1>1, <1>2, <2>1, <3>1
  <2>3. WorldOK'
    BY <1>1, <1>2, <2>1, <2>a DEF WorldOK, bounds
  <2>4. Owned(c)'
    BY <1>1, <1>3, <2>2 DEF Owned
  <2>6. Phase(c)'
    BY <1>1, <1>2, <1>4, <2>2, <2>a
       DEF Phase, DiskPhase, HandlePhase, FoundPhase, Served, bounds, Busy
  <2>7. previous' \in [Clients -> Trees \cup {NoTree, Stub}] /\ "remove" \in Section
    BY <1>2, <2>1 DEF CallsOK, Section
  <2> QED BY <1>1, <1>2, <2>2, <2>3, <2>4, <2>6, <2>7, StayerKeeps
<1>5. CASE ~Served
  <2>1. Leave(c, "idle") /\ UNCHANGED <<status, draining>>
    BY <1>5 DEF EnterDelete
  <2>2. WorldOK' /\ Agreed' /\ Served' = Served
    BY <1>1, <1>2, <1>5, <2>1 DEF WorldOK, Agreed, Served, bounds
  <2> QED BY <1>1, <1>2, <1>3, <2>1, <2>2, LeaverKeeps DEF bounds
<1> QED BY <1>4, <1>5

LEMMA EnterUnloadKeeps ==
  ASSUME PackagesInv, NEW c \in Clients, EnterUnload(c)
  PROVE  PackagesInv'
<1>1. Enter(c) /\ op[c] = "unload" /\ Leave(c, "idle")
      /\ UNCHANGED <<canonical, staging, litter, cleaning, handles, bounds>>
  BY DEF EnterUnload
<1>2. /\ queue # <<>> /\ c = Head(queue) /\ pc[c] = "wait"
      /\ WorldOK /\ CallsOK /\ Owned(c) /\ Agreed
      /\ handles = Count(Served) + draining
      /\ disk = "sound" => litter = 0 /\ (Served => canonical # NoTree)
  BY <1>1, EntryFacts
<1>3. staging[c] = NoTree
  BY <1>1, <1>2 DEF Owned
<1>4. CASE Served
  <2>1. /\ draining' = draining + 1 /\ failed' = FALSE /\ stale' = FALSE
        /\ packages' = NoTree /\ status' = "none"
    BY <1>4 DEF EnterUnload, Retire, Clear
  <2>2. ~Served' /\ Agreed'
    BY <2>1 DEF Served, Agreed
  <2>3. draining' \in Nat /\ handles' = Count(Served') + draining'
    <3>1. Count(Served) = 1 /\ Count(Served') = 0 /\ draining \in Nat
      BY <1>2, <1>4, <2>2 DEF Count, WorldOK
    <3> QED BY <1>1, <1>2, <2>1, <3>1
  <2>4. WorldOK'
    BY <1>1, <1>2, <2>1, <2>3 DEF WorldOK, bounds
  <2> QED BY <1>1, <1>2, <1>3, <2>1, <2>2, <2>3, <2>4, LeaverKeeps DEF bounds
<1>5. CASE ~Served
  <2>1. UNCHANGED <<memory, draining>>
    BY <1>5 DEF EnterUnload
  <2>2. WorldOK' /\ Agreed' /\ Served' = Served
    BY <1>1, <1>2, <2>1 DEF WorldOK, Agreed, Served, bounds, memory
  <2> QED BY <1>1, <1>2, <1>3, <2>1, <2>2, LeaverKeeps DEF bounds
<1> QED BY <1>4, <1>5

-----------------------------------------------------------------------------
(* Loading *)

\* A load, however it ends, leaves the package as it may be between calls: the tree
\* on disk, or what was served, reported stale.
LEMMA LoadEnds ==
  ASSUME WorldOK, handles = Count(Served) + draining, canonical' = canonical,
         LoadSucceeds \/ LoadFails
  PROVE  /\ packages' \in Trees \cup {NoTree} /\ status' \in {"none", "SERVING"}
         /\ failed' \in BOOLEAN /\ stale' \in BOOLEAN
         /\ handles' \in Nat /\ draining' \in Nat
         /\ Agreed' /\ handles' = Count(Served') + draining'
         /\ packages' = packages \/ canonical \in Trees
<1>0. packages \in Trees \cup {NoTree} /\ handles \in Nat /\ draining \in Nat
      /\ failed \in BOOLEAN /\ stale \in BOOLEAN
  BY DEF WorldOK
<1>1. CASE LoadSucceeds
  <2>1. /\ canonical \in Trees /\ packages' = canonical /\ status' = "SERVING"
        /\ failed' = FALSE /\ stale' = FALSE
        /\ draining' = draining + Count(Served) /\ handles' = handles + 1
    BY <1>1 DEF LoadSucceeds, Clear, Retire
  <2>2. Served' /\ Agreed'
    BY <2>1, TreeFacts DEF Served, Agreed
  <2>3. Count(Served') = 1 /\ Count(Served) \in Nat
    BY <2>2 DEF Count
  <2>4. handles' \in Nat /\ draining' \in Nat /\ handles' = Count(Served') + draining'
    BY <1>0, <2>1, <2>3
  <2> QED BY <2>1, <2>2, <2>4
<1>2. CASE LoadFails
  <2>1. /\ packages' = packages /\ failed' = failed /\ handles' = handles
        /\ draining' = draining
        /\ IF Served THEN status' = "SERVING" /\ stale' = TRUE
           ELSE status' = "none" /\ stale' = stale
    BY <1>2 DEF LoadFails, pool
  <2>2. Served' = Served /\ Agreed'
    BY <2>1 DEF Served, Agreed
  <2> QED BY <1>0, <2>1, <2>2
<1> QED BY <1>1, <1>2

LEMMA LoadReturnsKeeps ==
  ASSUME PackagesInv, NEW c \in Clients, LoadReturns(c)
  PROVE  PackagesInv'
<1>1. /\ pc[c] = "load" /\ op[c] # "save"
      /\ UNCHANGED <<canonical, staging, litter, cleaning, bounds>>
      /\ LoadSucceeds \/ LoadFails
  BY DEF LoadReturns, At
<1>2. PICK where \in {"idle", "record", "validate"} : Leave(c, where)
  BY DEF LoadReturns
<1>3. queue # <<>> /\ c = Head(queue)
  BY <1>1, SectionFacts DEF Section
<1>4. /\ WorldOK /\ Owned(c) /\ HandlePhase(c)
      /\ disk = "sound" => litter = 0 /\ FoundPhase(c)
  BY <1>3, HolderFacts
<1>5. handles = Count(Served) + draining /\ staging[c] = NoTree
      /\ (disk = "sound" => litter = 0 /\ (Served => canonical # NoTree))
  BY <1>1, <1>4 DEF HandlePhase, Owned, FoundPhase
<1>6. /\ packages' \in Trees \cup {NoTree} /\ status' \in {"none", "SERVING"}
      /\ failed' \in BOOLEAN /\ stale' \in BOOLEAN
      /\ handles' \in Nat /\ draining' \in Nat
      /\ Agreed' /\ handles' = Count(Served') + draining'
      /\ packages' = packages \/ canonical \in Trees
  BY <1>1, <1>4, <1>5, LoadEnds
<1>7. WorldOK'
  BY <1>1, <1>4, <1>6 DEF WorldOK, bounds
<1>8. disk' = "sound" => litter' = 0 /\ (Served' => canonical' # NoTree)
  BY <1>1, <1>5, <1>6, TreeFacts DEF Served, bounds
<1> QED BY <1>1, <1>2, <1>3, <1>5, <1>6, <1>7, <1>8, LeaverKeeps

LEMMA RemoveKeeps ==
  ASSUME PackagesInv, NEW c \in Clients, Remove(c)
  PROVE  PackagesInv'
<1>1. /\ pc[c] = "remove" /\ Leave(c, "idle")
      /\ packages' = NoTree /\ status' = "none"
      /\ UNCHANGED <<failed, stale, staging, litter, pool, bounds>>
  BY DEF Remove, At
<1>2. queue # <<>> /\ c = Head(queue)
  BY <1>1, SectionFacts DEF Section
<1>3. /\ WorldOK /\ Owned(c) /\ HandlePhase(c) /\ (disk = "sound" => litter = 0)
  BY <1>2, HolderFacts
<1>4. handles = draining /\ staging[c] = NoTree /\ draining \in Nat
  BY <1>1, <1>3 DEF HandlePhase, Owned, WorldOK
<1>5. ~Served' /\ Agreed'
  BY <1>1 DEF Served, Agreed
<1>6. handles' = Count(Served') + draining'
  <2>1. Count(Served') = 0
    BY <1>5 DEF Count
  <2> QED BY <1>1, <1>4, <2>1 DEF pool
<1>7. canonical' \in Trees \cup {NoTree, Stub} /\ cleaning' \in Nat
  BY <1>3 DEF Remove, WorldOK
<1>8. WorldOK'
  BY <1>1, <1>3, <1>7 DEF WorldOK, bounds, pool
<1> QED BY <1>1, <1>2, <1>3, <1>4, <1>5, <1>6, <1>8, LeaverKeeps DEF bounds

-----------------------------------------------------------------------------
(* Installing *)

LEMMA StepFacts ==
  ASSUME CallsOK, NEW c \in Clients, NEW where, Step(c, where)
  PROVE  /\ Go(c, where) /\ pc'[c] = where /\ queue' = queue /\ op' = op
         /\ found' = found /\ found' \in [Clients -> FoundType]
         /\ forgotten' \in BOOLEAN
  BY DEF Step, Go, CallsOK

LEMMA RetireOldKeeps ==
  ASSUME PackagesInv, NEW c \in Clients, RetireOld(c)
  PROVE  PackagesInv'
<1>1. pc[c] = "retire" /\ UNCHANGED <<memory, cleaning, pool, bounds>>
  BY DEF RetireOld, At
<1>2. queue # <<>> /\ c = Head(queue)
  BY <1>1, SectionFacts DEF Section
<1>3. /\ WorldOK /\ CallsOK /\ Owned(c) /\ DiskPhase(c) /\ HandlePhase(c)
      /\ disk = "sound" => litter = 0 /\ FoundPhase(c)
  BY <1>2, HolderFacts
<1>4. Agreed /\ handles = Count(Served) + draining /\ op[c] = "install" /\ staging[c] \in Trees
      /\ (disk = "sound" => /\ found[c].tree = canonical /\ found[c].served = packages
                            /\ Served => canonical # NoTree)
  BY <1>1, <1>3 DEF DiskPhase, HandlePhase, FoundPhase, Owned, Busy
<1>5. CASE /\ canonical' = NoTree
           /\ previous' = [previous EXCEPT ![c] = canonical]
           /\ Step(c, "swap")
           /\ UNCHANGED <<staging, litter>>
  <2>1. /\ Go(c, "swap") /\ pc'[c] = "swap" /\ queue' = queue /\ op' = op
        /\ found' = found /\ found' \in [Clients -> FoundType] /\ forgotten' \in BOOLEAN
    BY <1>3, <1>5, StepFacts
  <2>2. previous' \in [Clients -> Trees \cup {NoTree, Stub}] /\ previous'[c] = canonical
    BY <1>3, <1>5 DEF CallsOK, WorldOK
  <2>3. WorldOK'
    BY <1>1, <1>3, <1>5 DEF WorldOK, memory, pool, bounds
  <2>4. Owned(c)'
    BY <1>4, <1>5, <2>1 DEF Owned
  <2>5. DiskPhase(c)' /\ HandlePhase(c)'
    BY <1>1, <1>4, <2>1, <2>2 DEF DiskPhase, HandlePhase, Agreed, Served, Busy, memory, pool
  <2>6. disk' = "sound" => litter' = 0 /\ FoundPhase(c)'
    BY <1>1, <1>3, <1>4, <1>5, <2>1, <2>2 DEF FoundPhase, Served, memory, bounds
  <2>7. Phase(c)' /\ "swap" \in Section
    BY <2>5, <2>6 DEF Phase, Section
  <2> QED BY <1>2, <1>5, <2>1, <2>2, <2>3, <2>4, <2>7, StayerKeeps
<1>6. CASE /\ DiskFault
           /\ staging' = [staging EXCEPT ![c] = NoTree] /\ litter' = litter + 1
           /\ Leave(c, "idle")
           /\ UNCHANGED canonical
  <2>1. staging' \in [Clients -> Trees \cup {NoTree}] /\ staging'[c] = NoTree
        /\ \A d \in Clients \ {c} : staging'[d] = staging[d]
    BY <1>3, <1>6 DEF WorldOK
  <2>2. litter' \in Nat
    BY <1>3, <1>6 DEF WorldOK
  <2>3. WorldOK'
    BY <1>1, <1>3, <1>6, <2>1, <2>2 DEF WorldOK, memory, pool, bounds
  <2>4. Agreed' /\ Served' = Served /\ disk' # "sound" /\ UNCHANGED <<handles, draining>>
    BY <1>1, <1>4, <1>6 DEF Agreed, Served, memory, pool, bounds, DiskFault
  <2> QED BY <1>2, <1>4, <1>6, <2>1, <2>3, <2>4, LeaverKeeps
<1> QED BY <1>5, <1>6 DEF RetireOld

LEMMA SwapKeeps ==
  ASSUME PackagesInv, NEW c \in Clients, Swap(c)
  PROVE  PackagesInv'
<1>1. pc[c] = "swap"
      /\ UNCHANGED <<packages, failed, stale, previous, litter, cleaning, pool, bounds>>
  BY DEF Swap, At
<1>2. queue # <<>> /\ c = Head(queue)
  BY <1>1, SectionFacts DEF Section
<1>3. /\ WorldOK /\ CallsOK /\ Owned(c) /\ DiskPhase(c) /\ HandlePhase(c)
      /\ disk = "sound" => litter = 0 /\ FoundPhase(c)
  BY <1>2, HolderFacts
<1>4. handles = Count(Served) + draining /\ op[c] = "install" /\ staging[c] \in Trees
      /\ (Served /\ ~stale => previous[c] = packages)
      /\ (disk = "sound" => /\ found[c].tree = previous[c] /\ found[c].served = packages
                            /\ Served => previous[c] # NoTree)
  BY <1>1, <1>3 DEF DiskPhase, HandlePhase, FoundPhase, Owned
<1>5. previous' \in [Clients -> Trees \cup {NoTree, Stub}]
  BY <1>1, <1>3 DEF CallsOK
<1>6. CASE /\ canonical' = staging[c] /\ staging' = [staging EXCEPT ![c] = NoTree]
           /\ status' = "LOADING"
           /\ Step(c, "create")
  <2>1. /\ Go(c, "create") /\ pc'[c] = "create" /\ queue' = queue /\ op' = op
        /\ found' = found /\ found' \in [Clients -> FoundType] /\ forgotten' \in BOOLEAN
    BY <1>3, <1>6, StepFacts
  <2>2. staging' \in [Clients -> Trees \cup {NoTree}] /\ staging'[c] = NoTree
        /\ \A d \in Clients \ {c} : staging'[d] = staging[d]
    BY <1>3, <1>6 DEF WorldOK
  <2>3. WorldOK'
    BY <1>1, <1>3, <1>4, <1>6, <2>2 DEF WorldOK, pool, bounds
  <2>4. Owned(c)'
    BY <1>4, <2>1, <2>2 DEF Owned
  <2>5. DiskPhase(c)' /\ HandlePhase(c)'
    BY <1>1, <1>4, <1>6, <2>1 DEF DiskPhase, HandlePhase, Served, Busy, pool
  <2>6. disk' = "sound" => litter' = 0 /\ FoundPhase(c)'
    BY <1>1, <1>3, <1>4, <2>1 DEF FoundPhase, Served, bounds
  <2>7. Phase(c)' /\ "create" \in Section
    BY <2>5, <2>6 DEF Phase, Section
  <2> QED BY <1>2, <1>5, <2>1, <2>2, <2>3, <2>4, <2>7, StayerKeeps
<1>7. CASE DiskFault /\ Step(c, "rollback") /\ UNCHANGED <<canonical, staging, status>>
  <2>1. /\ Go(c, "rollback") /\ pc'[c] = "rollback" /\ queue' = queue /\ op' = op
        /\ found' = found /\ found' \in [Clients -> FoundType] /\ forgotten' \in BOOLEAN
    BY <1>3, <1>7, StepFacts
  <2>2. WorldOK'
    BY <1>1, <1>3, <1>7 DEF WorldOK, pool, bounds
  <2>3. Owned(c)'
    BY <1>4, <1>7, <2>1 DEF Owned
  <2>4. Phase(c)' /\ "rollback" \in Section
    BY <1>1, <1>4, <1>7, <2>1
       DEF Phase, DiskPhase, HandlePhase, DiskFault, Served, Busy, pool, bounds, Section
  <2> QED BY <1>2, <1>5, <1>7, <2>1, <2>2, <2>3, <2>4, StayerKeeps
<1> QED BY <1>6, <1>7 DEF Swap

LEMMA CreateKeeps ==
  ASSUME PackagesInv, NEW c \in Clients, Create(c)
  PROVE  PackagesInv'
<1>1. pc[c] = "create"
      /\ UNCHANGED <<memory, staging, previous, litter, cleaning, pool, bounds>>
  BY DEF Create, At
<1>2. queue # <<>> /\ c = Head(queue)
  BY <1>1, SectionFacts DEF Section
<1>3. /\ WorldOK /\ CallsOK /\ Owned(c) /\ DiskPhase(c) /\ HandlePhase(c)
      /\ disk = "sound" => litter = 0 /\ FoundPhase(c)
  BY <1>2, HolderFacts
<1>4. handles = Count(Served) + draining /\ op[c] = "install" /\ staging[c] = NoTree
      /\ canonical \in Trees /\ (Served /\ ~stale => previous[c] = packages)
      /\ (disk = "sound" => /\ found[c].tree = previous[c] /\ found[c].served = packages
                            /\ Served => previous[c] # NoTree)
  BY <1>1, <1>3 DEF DiskPhase, HandlePhase, FoundPhase, Owned
<1>a. \/ Step(c, "bind") /\ canonical' = canonical
      \/ Step(c, "rollback") /\ canonical' \in {canonical, NoTree}
  BY DEF Create
<1>5. PICK where \in {"bind", "rollback"} :
        /\ Step(c, where)
        /\ canonical' \in {canonical, NoTree} /\ (where = "bind" => canonical' = canonical)
  BY <1>a DEF Step
<1>6. /\ Go(c, where) /\ pc'[c] = where /\ queue' = queue /\ op' = op
      /\ found' = found /\ found' \in [Clients -> FoundType] /\ forgotten' \in BOOLEAN
  BY <1>3, <1>5, StepFacts
<1>7. WorldOK' /\ previous' \in [Clients -> Trees \cup {NoTree, Stub}]
  BY <1>1, <1>3, <1>5 DEF WorldOK, CallsOK, memory, pool, bounds
<1>8. Owned(c)'
  BY <1>1, <1>4, <1>6 DEF Owned
<1>9. DiskPhase(c)' /\ HandlePhase(c)'
  BY <1>1, <1>4, <1>5, <1>6 DEF DiskPhase, HandlePhase, Served, Busy, memory, pool
<1>10. disk' = "sound" => litter' = 0 /\ FoundPhase(c)'
  BY <1>1, <1>3, <1>4, <1>5, <1>6, TreeFacts DEF FoundPhase, Served, memory, bounds
<1>11. Phase(c)' /\ where \in Section
  BY <1>9, <1>10 DEF Phase, Section
<1> QED BY <1>1, <1>2, <1>6, <1>7, <1>8, <1>11, StayerKeeps

\* What the catch of an install leaves: the old tree at its place and the package
\* served from it, or nothing served.
LEMMA RollbackFacts ==
  ASSUME NEW c \in Clients, WorldOK, CallsOK, handles = Count(Served) + draining,
         Served /\ ~stale => previous[c] = packages, Rollback(c)
  PROVE  /\ canonical' \in Trees \cup {NoTree, Stub} /\ litter' \in Nat /\ draining' \in Nat
         /\ packages' \in Trees \cup {NoTree} /\ status' \in {"none", "SERVING"}
         /\ Agreed' /\ handles' = Count(Served') + draining'
         /\ Served' => canonical' = previous[c] /\ canonical' # NoTree
         /\ disk = "sound" => /\ litter' = litter /\ canonical' = previous[c]
                              /\ (Served => previous[c] # NoTree) => packages' = packages
<1>0. /\ canonical \in Trees \cup {NoTree, Stub} /\ litter \in Nat /\ draining \in Nat
      /\ packages \in Trees \cup {NoTree} /\ previous[c] \in Trees \cup {NoTree, Stub}
      /\ stale' = stale /\ handles' = handles
  BY DEF WorldOK, CallsOK, Rollback
<1> DEFINE after(wiped) == IF wiped THEN NoTree ELSE canonical
           restored(wiped, renamed) ==
             previous[c] # NoTree /\ after(wiped) = NoTree /\ renamed
           abandoned(wiped, renamed, swept) ==
             Count(previous[c] # NoTree /\ ~restored(wiped, renamed))
               + Count(staging[c] # NoTree /\ ~swept)
<1>1. PICK wiped \in {TRUE} \cup IF DiskFault THEN {FALSE} ELSE {},
           renamed \in {TRUE} \cup IF DiskFault THEN {FALSE} ELSE {},
           swept \in {TRUE} \cup IF DiskFault THEN {FALSE} ELSE {} :
        /\ canonical' = IF restored(wiped, renamed) THEN previous[c] ELSE after(wiped)
        /\ litter' = litter + abandoned(wiped, renamed, swept)
        /\ IF Served /\ restored(wiped, renamed)
           THEN status' = "SERVING" /\ packages' = packages /\ draining' = draining
           ELSE status' = "none" /\ packages' = NoTree /\ draining' = draining + Count(Served)
  BY DEF Rollback, Retire
<1>2. canonical' \in Trees \cup {NoTree, Stub}
  BY <1>0, <1>1
<1>3. abandoned(wiped, renamed, swept) \in Nat
  BY DEF Count
<1>4. litter' \in Nat
  BY <1>0, <1>1, <1>3
<1>5. CASE Served /\ restored(wiped, renamed)
  <2>1. packages' = packages /\ status' = "SERVING" /\ canonical' = previous[c]
        /\ previous[c] # NoTree /\ draining' = draining
    BY <1>1, <1>5
  <2>2. Served' = Served /\ Agreed'
    BY <1>0, <1>5, <2>1 DEF Served, Agreed
  <2>3. disk = "sound" => abandoned(wiped, renamed, swept) = 0
    BY <1>1, <1>5 DEF DiskFault, Count
  <2>4. disk = "sound" => litter' = litter
    BY <1>0, <1>1, <2>3
  <2> QED BY <1>0, <1>2, <1>4, <2>1, <2>2, <2>4
<1>6. CASE ~(Served /\ restored(wiped, renamed))
  <2>1. packages' = NoTree /\ status' = "none" /\ draining' = draining + Count(Served)
    BY <1>1, <1>6
  <2>2. ~Served' /\ Agreed'
    BY <2>1 DEF Served, Agreed
  <2>3. Count(Served') = 0 /\ Count(Served) \in Nat
    BY <2>2 DEF Count
  <2>4. draining' \in Nat /\ handles' = Count(Served') + draining'
    BY <1>0, <2>1, <2>3
  <2>5. disk = "sound" => wiped /\ renamed /\ swept
    BY <1>1 DEF DiskFault
  <2>6. disk = "sound" => abandoned(wiped, renamed, swept) = 0 /\ canonical' = previous[c]
    BY <1>1, <2>5 DEF Count
  <2>7. disk = "sound" => litter' = litter
    BY <1>0, <1>1, <2>6
  <2>8. disk = "sound" /\ (Served => previous[c] # NoTree) => packages' = packages
    BY <1>6, <2>1, <2>5 DEF Served
  <2> QED BY <1>2, <1>4, <2>1, <2>2, <2>4, <2>6, <2>7, <2>8
<1> QED BY <1>5, <1>6

LEMMA RollbackKeeps ==
  ASSUME PackagesInv, NEW c \in Clients, Rollback(c)
  PROVE  PackagesInv'
<1>1. pc[c] = "rollback" /\ Leave(c, "idle") /\ staging' = [staging EXCEPT ![c] = NoTree]
      /\ UNCHANGED <<failed, stale, cleaning, handles, bounds>>
  BY DEF Rollback, At
<1>2. queue # <<>> /\ c = Head(queue)
  BY <1>1, SectionFacts DEF Section
<1>3. /\ WorldOK /\ CallsOK /\ Owned(c) /\ DiskPhase(c) /\ HandlePhase(c)
      /\ disk = "sound" => litter = 0
  BY <1>2, HolderFacts
<1>4. handles = Count(Served) + draining /\ (Served /\ ~stale => previous[c] = packages)
  BY <1>1, <1>3 DEF DiskPhase, HandlePhase
<1>5. /\ canonical' \in Trees \cup {NoTree, Stub} /\ litter' \in Nat /\ draining' \in Nat
      /\ packages' \in Trees \cup {NoTree} /\ status' \in {"none", "SERVING"}
      /\ Agreed' /\ handles' = Count(Served') + draining'
      /\ Served' => canonical' # NoTree
      /\ disk = "sound" => litter' = litter
  BY <1>3, <1>4, RollbackFacts
<1>6. staging' \in [Clients -> Trees \cup {NoTree}] /\ staging'[c] = NoTree
      /\ \A d \in Clients \ {c} : staging'[d] = staging[d]
  BY <1>1, <1>3 DEF WorldOK
<1>7. WorldOK'
  BY <1>1, <1>3, <1>5, <1>6 DEF WorldOK, bounds
<1>8. disk' = disk
  BY <1>1 DEF bounds
<1> QED BY <1>1, <1>2, <1>3, <1>5, <1>6, <1>7, <1>8, LeaverKeeps

LEMMA CommitKeeps ==
  ASSUME PackagesInv, NEW c \in Clients, Commit(c)
  PROVE  PackagesInv'
<1>1. /\ pc[c] = "bind" /\ Leave(c, "idle")
      /\ packages' = canonical /\ status' = "SERVING" /\ failed' = FALSE /\ stale' = FALSE
      /\ draining' = draining + Count(Served) /\ handles' = handles + 1
      /\ cleaning' = cleaning + Count(previous[c] # NoTree)
      /\ UNCHANGED <<canonical, staging, litter, bounds>>
  BY DEF Commit, At, Clear, Retire
<1>2. queue # <<>> /\ c = Head(queue)
  BY <1>1, SectionFacts DEF Section
<1>3. /\ WorldOK /\ Owned(c) /\ DiskPhase(c) /\ HandlePhase(c)
      /\ disk = "sound" => litter = 0
  BY <1>2, HolderFacts
<1>4. handles = Count(Served) + draining /\ canonical \in Trees /\ staging[c] = NoTree
  BY <1>1, <1>3 DEF DiskPhase, HandlePhase, Owned
<1>5. Served' /\ Agreed'
  BY <1>1, <1>4, TreeFacts DEF Served, Agreed
<1>6. handles' \in Nat /\ draining' \in Nat /\ cleaning' \in Nat
      /\ handles' = Count(Served') + draining'
  <2>1. Count(Served') = 1 /\ Count(Served) \in Nat /\ Count(previous[c] # NoTree) \in Nat
    BY <1>5 DEF Count
  <2>2. handles \in Nat /\ draining \in Nat /\ cleaning \in Nat
    BY <1>3 DEF WorldOK
  <2> QED BY <1>1, <1>4, <2>1, <2>2
<1>7. WorldOK'
  BY <1>1, <1>3, <1>4, <1>6 DEF WorldOK, bounds
<1>8. disk' = disk /\ canonical' # NoTree
  BY <1>1, <1>4, TreeFacts DEF bounds
<1> QED BY <1>1, <1>2, <1>3, <1>4, <1>5, <1>6, <1>7, <1>8, LeaverKeeps

-----------------------------------------------------------------------------
(* Saving *)

LEMMA WriteKeeps ==
  ASSUME PackagesInv, NEW c \in Clients, Write(c)
  PROVE  PackagesInv'
<1>1. pc[c] = "write"
      /\ UNCHANGED <<packages, failed, stale, staging, litter, cleaning, pool, disk, calls>>
  BY DEF Write, At
<1>2. queue # <<>> /\ c = Head(queue)
  BY <1>1, SectionFacts DEF Section
<1>3. /\ WorldOK /\ CallsOK /\ Owned(c) /\ DiskPhase(c) /\ HandlePhase(c)
      /\ disk = "sound" => litter = 0 /\ FoundPhase(c)
  BY <1>2, HolderFacts
<1>4. Agreed /\ handles = Count(Served) + draining /\ op[c] = "save" /\ staging[c] = NoTree
      /\ (disk = "sound" => found[c].tree = canonical /\ (Served => canonical # NoTree))
  BY <1>1, <1>3 DEF DiskPhase, HandlePhase, FoundPhase, Owned, Busy
<1>5. CASE /\ canonical' = canonical \/ (DiskFault /\ canonical = NoTree /\ canonical' = Stub)
           /\ Leave(c, "idle") /\ UNCHANGED <<status, made>>
  <2>1. WorldOK'
    BY <1>1, <1>3, <1>5 DEF WorldOK, pool
  <2>2. Agreed' /\ Served' = Served
    BY <1>1, <1>4, <1>5 DEF Agreed, Served
  <2>3. disk' = "sound" => litter' = 0 /\ (Served' => canonical' # NoTree)
    BY <1>1, <1>3, <1>4, <1>5, <2>2 DEF DiskFault
  <2> QED BY <1>1, <1>2, <1>4, <1>5, <2>1, <2>2, <2>3, LeaverKeeps DEF pool
<1>6. CASE /\ made < MaxTrees
           /\ canonical' = IF canonical \in Trees THEN made + 1 ELSE Stub
           /\ made' = made + 1
           /\ previous' = [previous EXCEPT ![c] = canonical]
           /\ status' = "LOADING"
           /\ Step(c, "load")
  <2>1. /\ Go(c, "load") /\ pc'[c] = "load" /\ queue' = queue /\ op' = op
        /\ found' = found /\ found' \in [Clients -> FoundType] /\ forgotten' \in BOOLEAN
    BY <1>3, <1>6, StepFacts
  <2>2. made' \in Trees /\ canonical' \in Trees \cup {Stub} /\ canonical' # NoTree
    BY <1>3, <1>6, TreeFacts DEF WorldOK
  <2>3. WorldOK'
    BY <1>1, <1>3, <1>6, <2>2 DEF WorldOK, pool
  <2>4. previous' \in [Clients -> Trees \cup {NoTree, Stub}] /\ previous'[c] = canonical
    BY <1>3, <1>6 DEF CallsOK, WorldOK
  <2>5. Owned(c)'
    BY <1>1, <1>4, <2>1 DEF Owned
  <2>6. DiskPhase(c)' /\ HandlePhase(c)'
    BY <1>1, <1>4, <2>1 DEF DiskPhase, HandlePhase, Served, Busy, pool
  <2>7. disk' = "sound" => litter' = 0 /\ FoundPhase(c)'
    BY <1>1, <1>3, <1>4, <2>1, <2>2, <2>4 DEF FoundPhase
  <2>8. Phase(c)' /\ "load" \in Section
    BY <2>6, <2>7 DEF Phase, Section
  <2> QED BY <1>1, <1>2, <2>1, <2>3, <2>4, <2>5, <2>8, StayerKeeps
<1> QED BY <1>5, <1>6 DEF Write

LEMMA SaveLoadedKeeps ==
  ASSUME PackagesInv, NEW c \in Clients, SaveLoaded(c)
  PROVE  PackagesInv'
<1>1. pc[c] = "load" /\ op[c] = "save" /\ UNCHANGED <<trees, bounds>>
      /\ (LoadSucceeds \/ LoadFails)
  BY DEF SaveLoaded, At
<1>2. PICK where \in {"verify", "restore"} : Step(c, where)
  BY DEF SaveLoaded
<1>3. queue # <<>> /\ c = Head(queue)
  BY <1>1, SectionFacts DEF Section
<1>4. /\ WorldOK /\ CallsOK /\ Owned(c) /\ HandlePhase(c)
      /\ disk = "sound" => litter = 0 /\ FoundPhase(c)
  BY <1>3, HolderFacts
<1>5. handles = Count(Served) + draining /\ staging[c] = NoTree
      /\ (disk = "sound" => found[c].tree = previous[c] /\ (Served => canonical # NoTree))
  BY <1>1, <1>4 DEF HandlePhase, FoundPhase, Owned
<1>6. /\ packages' \in Trees \cup {NoTree} /\ status' \in {"none", "SERVING"}
      /\ failed' \in BOOLEAN /\ stale' \in BOOLEAN
      /\ handles' \in Nat /\ draining' \in Nat
      /\ Agreed' /\ handles' = Count(Served') + draining'
      /\ packages' = packages \/ canonical \in Trees
  BY <1>1, <1>4, <1>5, LoadEnds DEF trees
<1>7. /\ Go(c, where) /\ pc'[c] = where /\ queue' = queue /\ op' = op
      /\ found' = found /\ found' \in [Clients -> FoundType] /\ forgotten' \in BOOLEAN
  BY <1>2, <1>4, StepFacts
<1>8. WorldOK' /\ previous' \in [Clients -> Trees \cup {NoTree, Stub}]
  BY <1>1, <1>4, <1>6 DEF WorldOK, CallsOK, bounds, trees
<1>9. Owned(c)'
  BY <1>1, <1>5, <1>7 DEF Owned, trees
<1>10. DiskPhase(c)' /\ HandlePhase(c)'
  BY <1>6, <1>7 DEF DiskPhase, HandlePhase
<1>11. disk' = "sound" => litter' = 0 /\ FoundPhase(c)'
  BY <1>1, <1>4, <1>5, <1>6, <1>7, TreeFacts DEF FoundPhase, Served, bounds, trees
<1>12. Phase(c)' /\ where \in Section
  BY <1>10, <1>11 DEF Phase, Section
<1> QED BY <1>1, <1>3, <1>7, <1>8, <1>9, <1>12, StayerKeeps DEF trees

LEMMA VerifyKeeps ==
  ASSUME PackagesInv, NEW c \in Clients, Verify(c)
  PROVE  PackagesInv'
<1>1. pc[c] = "verify"
      /\ UNCHANGED <<memory, canonical, staging, litter, cleaning, pool, bounds>>
  BY DEF Verify, At
<1>2. queue # <<>> /\ c = Head(queue)
  BY <1>1, SectionFacts DEF Section
<1>3. /\ WorldOK /\ CallsOK /\ Owned(c) /\ DiskPhase(c) /\ HandlePhase(c)
      /\ disk = "sound" => litter = 0 /\ FoundPhase(c)
  BY <1>2, HolderFacts
<1>4. Agreed /\ handles = Count(Served) + draining /\ op[c] = "save" /\ staging[c] = NoTree
      /\ (disk = "sound" => found[c].tree = previous[c] /\ (Served => canonical # NoTree))
  BY <1>1, <1>3 DEF DiskPhase, HandlePhase, FoundPhase, Owned, Busy
<1>5. WorldOK' /\ Agreed' /\ Served' = Served /\ disk' = disk /\ handles' = handles
      /\ draining' = draining
  BY <1>1, <1>3, <1>4 DEF WorldOK, Agreed, Served, memory, pool, bounds
<1>6. CASE Leave(c, "idle")
  BY <1>1, <1>2, <1>3, <1>4, <1>5, <1>6, LeaverKeeps
<1>7. CASE Step(c, "restore") /\ UNCHANGED previous
  <2>1. /\ Go(c, "restore") /\ pc'[c] = "restore" /\ queue' = queue /\ op' = op
        /\ found' = found /\ found' \in [Clients -> FoundType] /\ forgotten' \in BOOLEAN
    BY <1>3, <1>7, StepFacts
  <2>2. Owned(c)' /\ previous' \in [Clients -> Trees \cup {NoTree, Stub}]
    BY <1>1, <1>3, <1>4, <1>7, <2>1 DEF Owned, CallsOK
  <2>3. DiskPhase(c)' /\ HandlePhase(c)'
    BY <1>4, <1>5, <2>1 DEF DiskPhase, HandlePhase
  <2>4. disk' = "sound" => litter' = 0 /\ FoundPhase(c)'
    BY <1>1, <1>3, <1>4, <1>5, <1>7, <2>1 DEF FoundPhase
  <2>5. Phase(c)' /\ "restore" \in Section
    BY <2>3, <2>4 DEF Phase, Section
  <2> QED BY <1>1, <1>2, <1>5, <2>1, <2>2, <2>5, StayerKeeps
<1> QED BY <1>6, <1>7 DEF Verify

LEMMA RestoreKeeps ==
  ASSUME PackagesInv, NEW c \in Clients, Restore(c)
  PROVE  PackagesInv'
<1>1. pc[c] = "restore"
      /\ UNCHANGED <<packages, failed, stale, staging, litter, cleaning, pool, bounds>>
  BY DEF Restore, At
<1>2. queue # <<>> /\ c = Head(queue)
  BY <1>1, SectionFacts DEF Section
<1>3. /\ WorldOK /\ CallsOK /\ Owned(c) /\ DiskPhase(c) /\ HandlePhase(c)
      /\ disk = "sound" => litter = 0 /\ FoundPhase(c)
  BY <1>2, HolderFacts
<1>4. Agreed /\ handles = Count(Served) + draining /\ op[c] = "save" /\ staging[c] = NoTree
      /\ (disk = "sound" => found[c].tree = previous[c] /\ (Served => canonical # NoTree))
  BY <1>1, <1>3 DEF DiskPhase, HandlePhase, FoundPhase, Owned, Busy
<1>5. CASE /\ canonical' = IF previous[c] = NoTree THEN Stub ELSE previous[c]
           /\ status' = "LOADING"
           /\ Step(c, "reload") /\ UNCHANGED previous
  <2>1. /\ Go(c, "reload") /\ pc'[c] = "reload" /\ queue' = queue /\ op' = op
        /\ found' = found /\ found' \in [Clients -> FoundType] /\ forgotten' \in BOOLEAN
    BY <1>3, <1>5, StepFacts
  <2>2. canonical' \in Trees \cup {NoTree, Stub} /\ canonical' # NoTree
    BY <1>3, <1>5, TreeFacts DEF CallsOK
  <2>3. WorldOK' /\ previous' \in [Clients -> Trees \cup {NoTree, Stub}]
    BY <1>1, <1>3, <1>5, <2>2 DEF WorldOK, CallsOK, pool, bounds
  <2>4. Owned(c)'
    BY <1>1, <1>4, <2>1 DEF Owned
  <2>5. DiskPhase(c)' /\ HandlePhase(c)'
    BY <1>1, <1>4, <2>1 DEF DiskPhase, HandlePhase, Served, Busy, pool
  <2>6. disk' = "sound" => litter' = 0 /\ FoundPhase(c)'
    BY <1>1, <1>3, <1>4, <1>5, <2>1, <2>2 DEF FoundPhase, bounds
  <2>7. Phase(c)' /\ "reload" \in Section
    BY <2>5, <2>6 DEF Phase, Section
  <2> QED BY <1>1, <1>2, <2>1, <2>3, <2>4, <2>7, StayerKeeps
<1>6. CASE DiskFault /\ Leave(c, "idle") /\ UNCHANGED <<canonical, status>>
  <2>1. /\ WorldOK' /\ Agreed' /\ Served' = Served /\ disk' # "sound"
        /\ UNCHANGED <<handles, draining>>
    BY <1>1, <1>3, <1>4, <1>6 DEF WorldOK, Agreed, Served, DiskFault, pool, bounds
  <2> QED BY <1>1, <1>2, <1>4, <1>6, <2>1, LeaverKeeps
<1> QED BY <1>5, <1>6 DEF Restore

LEMMA RevertedKeeps ==
  ASSUME PackagesInv, NEW c \in Clients, Reverted(c)
  PROVE  PackagesInv'
<1>1. /\ pc[c] = "reload" /\ Leave(c, "idle") /\ (LoadSucceeds \/ LoadFails)
      /\ UNCHANGED <<canonical, staging, litter, cleaning, bounds>>
  BY DEF Reverted, At
<1>2. queue # <<>> /\ c = Head(queue)
  BY <1>1, SectionFacts DEF Section
<1>3. /\ WorldOK /\ Owned(c) /\ HandlePhase(c)
      /\ disk = "sound" => litter = 0 /\ FoundPhase(c)
  BY <1>2, HolderFacts
<1>4. handles = Count(Served) + draining /\ staging[c] = NoTree
      /\ (disk = "sound" => litter = 0 /\ (Served => canonical # NoTree))
  BY <1>1, <1>3 DEF HandlePhase, FoundPhase, Owned
<1>5. /\ packages' \in Trees \cup {NoTree} /\ status' \in {"none", "SERVING"}
      /\ failed' \in BOOLEAN /\ stale' \in BOOLEAN
      /\ handles' \in Nat /\ draining' \in Nat
      /\ Agreed' /\ handles' = Count(Served') + draining'
      /\ packages' = packages \/ canonical \in Trees
  BY <1>1, <1>3, <1>4, LoadEnds
<1>6. WorldOK'
  BY <1>1, <1>3, <1>5 DEF WorldOK, bounds
<1>7. disk' = "sound" => litter' = 0 /\ (Served' => canonical' # NoTree)
  BY <1>1, <1>4, <1>5, TreeFacts DEF Served, bounds
<1> QED BY <1>1, <1>2, <1>4, <1>5, <1>6, <1>7, LeaverKeeps

-----------------------------------------------------------------------------
(* Outside the mutex *)

LEMMA GoFacts ==
  ASSUME CallsOK, NEW c \in Clients, NEW where \in Pcs, Go(c, where)
  PROVE  /\ pc' \in [Clients -> Pcs] /\ pc'[c] = where
         /\ \A d \in Clients \ {c} : pc'[d] = pc[d]
  BY DEF Go, CallsOK

LEMMA InvParts ==
  ASSUME PackagesInv, NEW c \in Clients
  PROVE  WorldOK /\ CallsOK /\ Owned(c)
  BY TypeParts DEF PackagesInv

LEMMA CallKeeps ==
  ASSUME PackagesInv, NEW c \in Clients, NEW o \in Ops, Call(c, o)
  PROVE  PackagesInv'
<1>1. /\ pc[c] = "idle" /\ o # "none" /\ calls < MaxCalls
      /\ op' = [op EXCEPT ![c] = o] /\ calls' = calls + 1 /\ forgotten' = FALSE
      /\ UNCHANGED <<memory, trees, pool, found, disk, made>>
  BY DEF Call
<1>2. PICK where \in {"download", "wait"} :
        /\ Go(c, where) /\ (where = "download" <=> o = "install")
        /\ queue' = IF where = "wait" THEN Append(queue, c) ELSE queue
  BY DEF Call, Acquire, Go
<1>3. WorldOK /\ CallsOK /\ Owned(c)
  BY InvParts
<1>4. pc' \in [Clients -> Pcs] /\ pc'[c] = where /\ \A d \in Clients \ {c} : pc'[d] = pc[d]
  BY <1>2, <1>3, GoFacts DEF Pcs
<1>5. op' \in [Clients -> Ops] /\ op'[c] = o /\ \A d \in Clients \ {c} : op'[d] = op[d]
  BY <1>1, <1>3 DEF CallsOK
<1>6. queue' \in Seq(Clients)
  BY <1>2, <1>3, QueueFacts DEF CallsOK
<1>7. calls' \in 0 .. MaxCalls
  BY <1>1, <1>3, BoundsAssumption DEF WorldOK
<1>8. WorldOK'
  BY <1>1, <1>3, <1>7 DEF WorldOK, memory, trees, pool
<1>9. CallsOK'
  BY <1>1, <1>3, <1>4, <1>5, <1>6 DEF CallsOK, trees
<1>10. TypeOK'
  BY <1>8, <1>9 DEF TypeOK, WorldOK, CallsOK, FoundType
<1>11. Owned(c)'
  BY <1>1, <1>2, <1>3, <1>4, <1>5 DEF Owned, trees
<1>12. pc[c] \notin Section /\ pc'[c] \notin Section
  BY <1>1, <1>4 DEF Section
<1>13. UNCHANGED <<packages, status, stale, canonical, previous, handles, draining, disk, litter,
                   staging, found>>
  BY <1>1 DEF memory, trees, pool
<1> QED BY <1>2, <1>4, <1>5, <1>10, <1>11, <1>12, <1>13, OutsiderKeeps

LEMMA DownloadKeeps ==
  ASSUME PackagesInv, NEW c \in Clients, Download(c)
  PROVE  PackagesInv'
<1>1. pc[c] = "download" /\ UNCHANGED <<memory, canonical, previous, cleaning, pool, disk, calls>>
  BY DEF Download, At
<1>2. WorldOK /\ CallsOK /\ Owned(c)
  BY InvParts
<1>3. op[c] = "install" /\ staging[c] = NoTree /\ pc[c] \notin Section
  BY <1>1, <1>2 DEF Owned, Section
<1>4. CASE /\ made < MaxTrees
           /\ made' = made + 1
           /\ staging' = [staging EXCEPT ![c] = made + 1]
           /\ Go(c, "wait") /\ Acquire(c)
           /\ UNCHANGED <<litter, op, found, forgotten>>
  <2>1. pc' \in [Clients -> Pcs] /\ pc'[c] = "wait" /\ \A d \in Clients \ {c} : pc'[d] = pc[d]
    BY <1>2, <1>4, GoFacts DEF Pcs
  <2>2. queue' = Append(queue, c) /\ queue' \in Seq(Clients)
    BY <1>2, <1>4, QueueFacts DEF CallsOK, Acquire
  <2>3. made + 1 \in Trees
    BY <1>2, <1>4, TreeFacts DEF WorldOK
  <2>4. staging' \in [Clients -> Trees \cup {NoTree}] /\ staging'[c] = made + 1
        /\ \A d \in Clients \ {c} : staging'[d] = staging[d]
    BY <1>2, <1>4, <2>3 DEF WorldOK
  <2>5. WorldOK'
    BY <1>1, <1>2, <1>4, <2>3, <2>4 DEF WorldOK, memory, pool
  <2>6. CallsOK'
    BY <1>1, <1>2, <1>4, <2>1, <2>2 DEF CallsOK
  <2>7. TypeOK'
    BY <2>5, <2>6 DEF TypeOK, WorldOK, CallsOK, FoundType
  <2>8. Owned(c)' /\ pc'[c] \notin Section
    BY <1>3, <1>4, <2>1, <2>3, <2>4 DEF Owned, Section
  <2> QED BY <1>1, <1>3, <1>4, <2>1, <2>2, <2>4, <2>7, <2>8, OutsiderKeeps DEF memory, pool
<1>5. CASE /\ litter' \in {litter} \cup IF DiskFault THEN {litter + 1} ELSE {}
           /\ Go(c, "idle") /\ Finish(c, "idle") /\ forgotten' = FALSE
           /\ UNCHANGED <<staging, queue, made>>
  <2>1. pc' \in [Clients -> Pcs] /\ pc'[c] = "idle" /\ \A d \in Clients \ {c} : pc'[d] = pc[d]
    BY <1>2, <1>5, GoFacts DEF Pcs
  <2>2. /\ op' \in [Clients -> Ops] /\ found' \in [Clients -> FoundType]
        /\ \A d \in Clients \ {c} : op'[d] = op[d] /\ found'[d] = found[d]
    BY <1>2, <1>5, FinishFacts
  <2>3. litter' \in Nat /\ (disk = "sound" => litter' = litter)
    BY <1>2, <1>5 DEF WorldOK, DiskFault
  <2>4. WorldOK'
    BY <1>1, <1>2, <1>5, <2>3 DEF WorldOK, memory, pool
  <2>5. CallsOK'
    BY <1>1, <1>2, <1>5, <2>1, <2>2 DEF CallsOK
  <2>6. TypeOK'
    BY <2>4, <2>5 DEF TypeOK, WorldOK, CallsOK, FoundType
  <2>7. Owned(c)' /\ pc'[c] \notin Section
    BY <1>3, <1>5, <2>1 DEF Owned, Section
  <2> QED BY <1>1, <1>3, <1>5, <2>1, <2>2, <2>3, <2>6, <2>7, OutsiderKeeps DEF memory, pool
<1> QED BY <1>4, <1>5 DEF Download

LEMMA RecordOrValidateKeeps ==
  ASSUME PackagesInv, NEW c \in Clients, Record(c) \/ Validate(c)
  PROVE  PackagesInv'
<1>1. /\ pc[c] \in {"record", "validate"} /\ failed' \in {failed, TRUE}
      /\ UNCHANGED <<packages, status, stale, trees, pool, forgotten, bounds>>
  BY DEF Record, Validate, At, memory
<1>2. WorldOK /\ CallsOK /\ Owned(c)
  BY InvParts
<1>3. staging[c] = NoTree /\ pc[c] \notin Section
  BY <1>1, <1>2 DEF Owned, Section
<1>4. WorldOK' /\ UNCHANGED <<canonical, previous, handles, draining, disk, litter, staging>>
  BY <1>1, <1>2 DEF WorldOK, trees, pool, bounds
<1>5. CASE Go(c, "idle") /\ Finish(c, "idle") /\ queue' = queue
  <2>1. pc' \in [Clients -> Pcs] /\ pc'[c] = "idle" /\ \A d \in Clients \ {c} : pc'[d] = pc[d]
    BY <1>2, <1>5, GoFacts DEF Pcs
  <2>2. /\ op' \in [Clients -> Ops] /\ found' \in [Clients -> FoundType]
        /\ \A d \in Clients \ {c} : op'[d] = op[d] /\ found'[d] = found[d]
    BY <1>2, <1>5, FinishFacts
  <2>3. CallsOK'
    BY <1>1, <1>2, <1>4, <1>5, <2>1, <2>2 DEF CallsOK
  <2>4. TypeOK'
    BY <1>4, <2>3 DEF TypeOK, WorldOK, CallsOK, FoundType
  <2>5. Owned(c)' /\ pc'[c] \notin Section
    BY <1>3, <1>4, <2>1 DEF Owned, Section
  <2> QED BY <1>1, <1>3, <1>4, <1>5, <2>1, <2>2, <2>4, <2>5, OutsiderKeeps
<1>6. CASE Go(c, "wait") /\ Acquire(c) /\ op' = [op EXCEPT ![c] = "unload"] /\ found' = found
  <2>1. pc' \in [Clients -> Pcs] /\ pc'[c] = "wait" /\ \A d \in Clients \ {c} : pc'[d] = pc[d]
    BY <1>2, <1>6, GoFacts DEF Pcs
  <2>2. op' \in [Clients -> Ops] /\ op'[c] = "unload" /\ \A d \in Clients \ {c} : op'[d] = op[d]
    BY <1>2, <1>6 DEF CallsOK, Ops
  <2>3. queue' = Append(queue, c) /\ queue' \in Seq(Clients)
    BY <1>2, <1>6, QueueFacts DEF CallsOK, Acquire
  <2>4. CallsOK'
    BY <1>1, <1>2, <1>4, <1>6, <2>1, <2>2, <2>3 DEF CallsOK
  <2>5. TypeOK'
    BY <1>4, <2>4 DEF TypeOK, WorldOK, CallsOK, FoundType
  <2>6. Owned(c)' /\ pc'[c] \notin Section
    BY <1>3, <1>4, <2>1, <2>2 DEF Owned, Section
  <2> QED BY <1>1, <1>3, <1>4, <1>6, <2>1, <2>2, <2>3, <2>5, <2>6, OutsiderKeeps
<1> QED BY <1>5, <1>6 DEF Record, Validate

\* The timers change no call, and what they close or remove is counted.
LEMMA TimersKeep ==
  ASSUME PackagesInv, Drain \/ Clean
  PROVE  PackagesInv'
<1>1. /\ UNCHANGED <<memory, canonical, staging, previous, queue, op, pc, found, forgotten, bounds>>
  BY DEF Drain, Clean, trees
<1>2. WorldOK /\ CallsOK /\ Exclusive /\ \A c \in Clients : Owned(c)
  BY TypeParts DEF PackagesInv
<1>3. PICK k \in Clients : \A d \in Clients \ {k} : pc[d] \notin Section
  BY <1>2, ClientsAssumption DEF Exclusive
<1>4. Phase(k)
  BY <1>3 DEF PackagesInv, Alone
<1>5. handles = Count(Served) + draining \/ handles = draining
  BY <1>4 DEF Phase, HandlePhase
<1>6. \/ /\ draining > 0 /\ draining' = draining - 1 /\ handles' = handles - 1
         /\ UNCHANGED <<litter, cleaning>>
      \/ /\ UNCHANGED <<handles, draining>> /\ cleaning > 0 /\ cleaning' = cleaning - 1
         /\ litter' \in Nat /\ (disk = "sound" => litter' = litter)
  BY <1>2 DEF Drain, Clean, trees, pool, DiskFault, WorldOK
<1>7. /\ handles' \in Nat /\ draining' \in Nat /\ cleaning' \in Nat /\ litter' \in Nat
      /\ handles = draining => handles' = draining'
      /\ handles = Count(Served) + draining => handles' = Count(Served) + draining'
      /\ (disk = "sound" => litter' = litter)
  <2>1. handles \in Nat /\ draining \in Nat /\ cleaning \in Nat /\ litter \in Nat
        /\ Count(Served) \in Nat
    BY <1>2 DEF WorldOK, Count
  <2> QED BY <1>5, <1>6, <2>1
<1>8. WorldOK' /\ CallsOK'
  BY <1>1, <1>2, <1>7 DEF WorldOK, CallsOK, memory, bounds
<1>9. TypeOK'
  BY <1>8 DEF TypeOK, WorldOK, CallsOK, FoundType
<1>10. Exclusive' /\ \A c \in Clients : Owned(c)'
  BY <1>1, <1>2 DEF Exclusive, Owned
<1>11. ASSUME NEW c \in Clients, Alone(c)' PROVE Phase(c)'
  <2>1. Phase(c)
    BY <1>1, <1>11 DEF PackagesInv, Alone
  <2>2. DiskPhase(c)'
    BY <1>1, <2>1 DEF Phase, DiskPhase, Agreed, Served, memory
  <2>3. HandlePhase(c)'
    <3>1. handles \in Nat /\ draining \in Nat /\ Count(Served) \in Nat /\ Served' = Served
          /\ pc'[c] = pc[c]
      BY <1>1, <1>2 DEF WorldOK, Count, Served, memory
    <3>2. CASE pc[c] = "remove"
      <4>1. Served /\ handles = draining
        BY <2>1, <3>2 DEF Phase, HandlePhase
      <4>2. handles' = draining'
        BY <1>7, <4>1
      <4> QED BY <3>1, <3>2, <4>1, <4>2 DEF HandlePhase
    <3>3. CASE pc[c] # "remove"
      <4>1. handles = Count(Served) + draining
        BY <2>1, <3>3 DEF Phase, HandlePhase
      <4>2. handles' = Count(Served) + draining'
        BY <1>7, <4>1
      <4> QED BY <3>1, <3>3, <4>2 DEF HandlePhase
    <3> QED BY <3>2, <3>3
  <2>4. disk' = "sound" => litter' = 0 /\ FoundPhase(c)'
    BY <1>1, <1>7, <2>1 DEF Phase, FoundPhase, Served, memory, bounds
  <2> QED BY <2>2, <2>3, <2>4 DEF Phase
<1> QED BY <1>9, <1>10, <1>11 DEF PackagesInv

-----------------------------------------------------------------------------
(* The invariant *)

LEMMA PackagesInit == Init => PackagesInv
<1> SUFFICES ASSUME Init PROVE PackagesInv
  OBVIOUS
<1>1. WorldOK
  <2>1. packages \in Trees \cup {NoTree} /\ canonical \in Trees \cup {NoTree, Stub}
        /\ made \in Trees
    BY TreeFacts DEF Init
  <2>2. calls \in 0 .. MaxCalls
    BY BoundsAssumption DEF Init
  <2>3. litter \in Nat /\ cleaning \in Nat /\ handles \in Nat /\ draining \in Nat
    BY DEF Init
  <2> QED BY <2>1, <2>2, <2>3 DEF Init, WorldOK
<1>2. CallsOK
  <2>1. found \in [Clients -> FoundType]
    BY NothingFound DEF Init
  <2>2. op \in [Clients -> Ops] /\ pc \in [Clients -> Pcs] /\ queue \in Seq(Clients)
    BY DEF Init, Ops, Pcs
  <2> QED BY <2>1, <2>2 DEF Init, CallsOK
<1>3. \A c \in Clients : pc[c] = "idle" /\ staging[c] = NoTree
  BY DEF Init
<1>4. Exclusive /\ \A c \in Clients : Owned(c)
  BY <1>3 DEF Exclusive, Owned, Section
<1>5. ~Served /\ Agreed /\ handles = Count(Served) + draining /\ litter = 0
  BY DEF Init, Served, Agreed, Count
<1>6. \A c \in Clients : Phase(c)
  BY <1>3, <1>5 DEF Phase, DiskPhase, HandlePhase, FoundPhase
<1> QED BY <1>1, <1>2, <1>4, <1>6, TypeParts DEF PackagesInv

LEMMA PackagesStep == PackagesInv /\ [Next]_vars => PackagesInv'
<1> SUFFICES ASSUME PackagesInv, [Next]_vars PROVE PackagesInv'
  OBVIOUS
<1>1. ASSUME NEW c \in Clients, Proceed(c) PROVE PackagesInv'
  BY <1>1, DownloadKeeps, EnterLoadKeeps, EnterInstallOrSaveKeeps, EnterDeleteKeeps,
     EnterUnloadKeeps, LoadReturnsKeeps, RecordOrValidateKeeps, RemoveKeeps, RetireOldKeeps,
     SwapKeeps, CreateKeeps, RollbackKeeps, CommitKeeps, WriteKeeps, SaveLoadedKeeps,
     VerifyKeeps, RestoreKeeps, RevertedKeeps DEF Proceed
<1>2. ASSUME NEW c \in Clients, NEW o \in Ops, Call(c, o) PROVE PackagesInv'
  BY <1>2, CallKeeps
<1>3. CASE Drain \/ Clean
  BY <1>3, TimersKeep
<1>4. CASE UNCHANGED vars
  <2>1. WorldOK /\ CallsOK
    BY TypeParts DEF PackagesInv
  <2>2. WorldOK' /\ CallsOK'
    BY <1>4, <2>1 DEF WorldOK, CallsOK, vars, memory, trees, pool, bounds
  <2>3. TypeOK'
    BY <2>2 DEF TypeOK, WorldOK, CallsOK, FoundType
  <2>4. Exclusive' /\ \A c \in Clients : Owned(c)'
    BY <1>4 DEF PackagesInv, Exclusive, Owned, vars, trees
  <2>5. ASSUME NEW c \in Clients, Alone(c)' PROVE Phase(c)'
    <3>1. Phase(c)
      BY <1>4, <2>5 DEF PackagesInv, Alone, vars
    <3> QED BY <1>4, <3>1 DEF Phase, DiskPhase, HandlePhase, FoundPhase, Agreed, Served, vars,
                              memory, trees, pool, bounds
  <2> QED BY <2>3, <2>4, <2>5 DEF PackagesInv
<1> QED BY <1>1, <1>2, <1>3, <1>4 DEF Next

LEMMA PackagesInvariant == Spec => []PackagesInv
  BY PackagesInit, PackagesStep, PTL DEF Spec

-----------------------------------------------------------------------------
(* Theorems *)

\* Nobody is inside a mutex that is free, nor when every call is done.
LEMMA FreeIsAgreed ==
  ASSUME PackagesInv, Free
  PROVE  Agreed /\ (disk = "sound" => litter = 0)
<1>1. PICK c \in Clients : TRUE
  BY ClientsAssumption
<1>2. \A d \in Clients : pc[d] \notin Section
  BY DEF PackagesInv, Exclusive, Free
<1>3. Phase(c)
  BY <1>2 DEF PackagesInv, Alone
<1> QED BY <1>2, <1>3 DEF Phase, DiskPhase, Section, Busy

\* Every variable keeps its type; in particular no connection is closed that was
\* not opened (closing retired generations never brings the count below zero).
THEOREM PackagesTypes == Spec => []TypeOK
<1>1. PackagesInv => TypeOK
  BY DEF PackagesInv
<1> QED BY <1>1, PackagesInvariant, PTL

\* With the mutex free, the package served is the tree on disk or is reported
\* stale, whatever failed on the way (reload, save, install and its rollback).
THEOREM AlwaysServesDisk == Spec => []ServesDisk
<1>1. PackagesInv => ServesDisk
  BY FreeIsAgreed DEF ServesDisk, Agreed, Served
<1> QED BY <1>1, PackagesInvariant, PTL

\* With the mutex free, a loaded package has the status SERVING and no status is
\* left in a passing state (packages and packageStatuses).
THEOREM AlwaysMapsAgree == Spec => []MapsAgree
<1>1. PackagesInv => MapsAgree
  BY FreeIsAgreed DEF MapsAgree, Agreed, Served
<1> QED BY <1>1, PackagesInvariant, PTL

\* The open connections are those of the package served and of the retired
\* generations whose timer is still to come (retireConnectionGeneration): none
\* leaks and none is closed twice.
THEOREM AlwaysHandlesAccounted == Spec => []HandlesAccountedFor
<1>1. PackagesInv => HandlesAccountedFor
  <2> SUFFICES ASSUME PackagesInv, ~(\E c \in Clients : pc[c] = "remove")
               PROVE  handles = Count(packages # NoTree) + draining
    BY DEF HandlesAccountedFor
  <2>1. PICK k \in Clients : \A d \in Clients \ {k} : pc[d] \notin Section
    BY ClientsAssumption DEF PackagesInv, Exclusive
  <2>2. HandlePhase(k)
    BY <2>1 DEF PackagesInv, Alone, Phase
  <2> QED BY <2>2 DEF HandlePhase, Served
<1> QED BY <1>1, PackagesInvariant, PTL

\* When every call is done and no file operation failed, nothing is left under
\* .staging and .retired.
THEOREM AlwaysNothingLeft == Spec => []NothingLeftBehind
<1>1. PackagesInv => NothingLeftBehind
  <2> SUFFICES ASSUME PackagesInv, disk = "sound", Quiet
               PROVE  litter = 0 /\ \A c \in Clients : staging[c] = NoTree
    BY DEF NothingLeftBehind
  <2>1. litter = 0
    BY FreeIsAgreed DEF Quiet
  <2>2. \A c \in Clients : staging[c] = NoTree
    BY DEF Quiet, PackagesInv, Owned
  <2> QED BY <2>1, <2>2
<1> QED BY <1>1, PackagesInvariant, PTL

\* A step moves one call.
LEMMA MovesItself ==
  ASSUME PackagesInv, NEW d \in Clients, Proceed(d)
  PROVE  \A c \in Clients \ {d} : pc'[c] = pc[c]
<1>0. pc \in [Clients -> Pcs]
  BY DEF PackagesInv, TypeOK
<1>1. \E where : Go(d, where)
  <2>1. CASE Download(d) \/ Record(d) \/ Validate(d)
    BY <2>1 DEF Download, Record, Validate
  <2>2. CASE EnterLoad(d) \/ EnterInstall(d) \/ EnterSave(d) \/ EnterDelete(d) \/ EnterUnload(d)
    BY <2>2 DEF EnterLoad, EnterInstall, EnterSave, EnterDelete, EnterUnload, Leave, EnterAt
  <2>3. CASE LoadReturns(d) \/ Remove(d) \/ Rollback(d) \/ Commit(d) \/ Reverted(d)
    BY <2>3 DEF LoadReturns, Remove, Rollback, Commit, Reverted, Leave
  <2>4. CASE RetireOld(d) \/ Swap(d) \/ Create(d) \/ Write(d)
    BY <2>4 DEF RetireOld, Swap, Create, Write, Leave, Step
  <2>5. CASE SaveLoaded(d) \/ Verify(d) \/ Restore(d)
    BY <2>5 DEF SaveLoaded, Verify, Restore, Leave, Step
  <2> QED BY <2>1, <2>2, <2>3, <2>4, <2>5 DEF Proceed
<1> QED BY <1>0, <1>1 DEF Go

\* On a disk that does not fail, an install that rolls back leaves the directory and
\* the package served as it found them, and a save that is reverted the directory,
\* but for the empty one it makes where there was none (installPackage's catch,
\* writeModelFileTransactional).
THEOREM AlwaysRefusedChangesNothing == Spec => RefusedChangesNothing
<1> DEFINE P(c) == /\ \/ canonical' = found[c].tree
                      \/ op[c] = "save" /\ found[c].tree = NoTree /\ canonical' = Stub
                   /\ op[c] = "install" => packages' = found[c].served
           A == \A c \in Clients :
                  disk = "sound" /\ pc[c] \in {"rollback", "reload"} /\ pc'[c] = "idle" => P(c)
<1>1. ASSUME PackagesInv, Next PROVE A
  <2> SUFFICES ASSUME NEW c \in Clients, disk = "sound", pc[c] \in {"rollback", "reload"},
                      pc'[c] = "idle"
               PROVE  P(c)
    OBVIOUS
  <2>1. pc \in [Clients -> Pcs]
    BY <1>1 DEF PackagesInv, TypeOK
  <2>2. Proceed(c)
    <3>1. ASSUME NEW d \in Clients, Proceed(d) PROVE d = c
      BY <1>1, <3>1, MovesItself
    <3>2. ASSUME NEW d \in Clients, NEW o \in Ops, Call(d, o) PROVE FALSE
      BY <2>1, <3>2 DEF Call, Go
    <3>3. ~Drain /\ ~Clean
      BY DEF Drain, Clean
    <3> QED BY <1>1, <3>1, <3>2, <3>3 DEF Next
  <2>3. queue # <<>> /\ c = Head(queue)
    BY <1>1, SectionFacts DEF Section
  <2>4. WorldOK /\ CallsOK /\ Owned(c) /\ DiskPhase(c) /\ HandlePhase(c) /\ FoundPhase(c)
    BY <1>1, <2>3, HolderFacts
  <2>5. CASE pc[c] = "rollback"
    <3>1. Rollback(c)
      BY <2>2, <2>5 DEF Proceed, Download, EnterLoad, EnterInstall, EnterSave, EnterDelete,
         EnterUnload, LoadReturns, Record, Validate, Remove, RetireOld, Swap, Create, Commit,
         Write, SaveLoaded, Verify, Restore, Reverted, At, Enter
    <3>2. /\ handles = Count(Served) + draining /\ (Served /\ ~stale => previous[c] = packages)
          /\ found[c].tree = previous[c] /\ found[c].served = packages
          /\ Served => previous[c] # NoTree
      BY <2>4, <2>5 DEF DiskPhase, HandlePhase, FoundPhase
    <3>3. canonical' = previous[c] /\ packages' = packages
      BY <2>4, <3>1, <3>2, RollbackFacts
    <3> QED BY <3>2, <3>3
  <2>6. CASE pc[c] = "reload"
    <3>1. Reverted(c)
      BY <2>2, <2>6 DEF Proceed, Download, EnterLoad, EnterInstall, EnterSave, EnterDelete,
         EnterUnload, LoadReturns, Record, Validate, Remove, RetireOld, Swap, Create, Commit,
         Write, SaveLoaded, Verify, Restore, Rollback, At, Enter
    <3>2. canonical' = canonical /\ op[c] = "save"
          /\ canonical = IF found[c].tree = NoTree THEN Stub ELSE found[c].tree
      BY <2>4, <2>6, <3>1 DEF Reverted, Owned, FoundPhase
    <3> QED BY <3>2
  <2> QED BY <2>5, <2>6
<1>2. PackagesInv /\ [Next]_vars =>
        [\A c \in Clients :
           /\ disk = "sound" /\ pc[c] \in {"rollback", "reload"} /\ pc'[c] = "idle"
           => /\ \/ canonical' = found[c].tree
                 \/ op[c] = "save" /\ found[c].tree = NoTree /\ canonical' = Stub
              /\ op[c] = "install" => packages' = found[c].served]_vars
  BY <1>1
<1> QED BY <1>2, PackagesInvariant, PTL DEF Spec, RefusedChangesNothing
=============================================================================

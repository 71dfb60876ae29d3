---------------------------- MODULE EmbeddingIndex ----------------------------
(* The semantic index of one package: the entity_embeddings rows in            *)
(* publisher.db, the per-name sync meta (mutex, generation, cool-down, purge   *)
(* window), the per-instance memo of a finished sync, and the three jobs that  *)
(* meet there: background syncs, searches with their heal, and the clean-up    *)
(* after a package or its environment is deleted.                              *)
(*                                                                             *)
(* A step is one database statement or one answer of the embedding provider    *)
(* with the synchronous code that follows it. A mutex is handed to a waiter by *)
(* the release itself; which waiter is left open.                              *)
EXTENDS Naturals, FiniteSets

CONSTANTS
  Instances, \* Package objects loaded under the name, a reload makes another
  Facets,    \* (entity, facet) keys of rows
  Texts,     \* prepared input texts, a content hash stands for its text
  Models,    \* values of EMBEDDING_MODEL
  Dims,      \* lengths of vector the endpoint may answer with
  Desired,   \* the text each instance wants embedded for each facet
  NoText,    \* the instance has no such facet
  Syncs,     \* background syncs in progress at the same time
  Calls,     \* searches and deletions in progress at the same time
  Metas,     \* PackageSyncMeta objects ever minted
  NoMeta, NoJob,
  Faults,    \* BOOLEAN: the provider and the database may fail
  MaxCalls   \* bound on the calls of a behaviour

Jobs == Syncs \cup Calls
Row == [text : Texts, model : Models, dims : Dims]
NoRow == [text |-> NoText]

ASSUME DesiredAssumption == Desired \in [Instances -> [Facets -> Texts \cup {NoText}]]
ASSUME NamesAssumption ==
  /\ Instances # {}
  /\ NoText \notin Texts
  /\ NoMeta \notin Metas
  /\ NoJob \notin Jobs
  /\ Syncs \cap Calls = {}
  /\ Faults \in BOOLEAN
  /\ MaxCalls \in Nat

VARIABLES
  rows,       \* entity_embeddings of the package, by facet
  model,      \* EMBEDDING_MODEL of this process
  endpoint,   \* the length of the vectors the provider returns now
  counter,    \* generationCounter
  live,       \* the entry of syncMeta
  minted,     \* the metas that have been entries of it
  gen,        \* meta.generation
  holder,     \* who holds meta.mutex
  waiting,    \* who waits for it
  cooling,    \* the metas inside their provider cool-down
  suppressed, \* the metas inside their purge window
  memo,       \* syncState, by instance
  sync,       \* where each background sync is
  call,       \* where each search or deletion is
  calls       \* how many calls have been made

metaVars == <<counter, live, minted, gen>>
mutexVars == <<holder, waiting>>
vars == <<rows, model, endpoint, counter, live, minted, gen, holder, waiting,
          cooling, suppressed, memo, sync, call, calls>>

NoMemo == [sync |-> NoJob, done |-> FALSE, gen |-> 0]
Memo == [sync : Syncs \cup {NoJob}, done : BOOLEAN, gen : Nat]
Sync == [pc : {"idle", "queued", "embed", "write"}, inst : Instances,
         meta : Metas \cup {NoMeta}, todo : SUBSET Facets, gone : SUBSET Facets,
         changed : BOOLEAN, dims : Dims]
Call == [pc : {"idle", "embed", "scan", "stale", "heal", "purge", "hits",
               "delete", "loop"},
         inst : Instances, meta : Metas \cup {NoMeta}, gen : Nat, dims : Dims,
         seen : [Facets -> Texts \cup {NoText}], skipped : BOOLEAN,
         whole : BOOLEAN]

TypeOK ==
  /\ rows \in [Facets -> Row \cup {NoRow}]
  /\ model \in Models
  /\ endpoint \in Dims
  /\ counter \in Nat
  /\ live \in Metas \cup {NoMeta}
  /\ minted \subseteq Metas
  /\ gen \in [Metas -> Nat]
  /\ holder \in [Metas -> Jobs \cup {NoJob}]
  /\ waiting \in [Metas -> SUBSET Jobs]
  /\ cooling \subseteq Metas
  /\ suppressed \subseteq Metas
  /\ memo \in [Instances -> Memo]
  /\ sync \in [Syncs -> Sync]
  /\ call \in [Calls -> Call]
  /\ calls \in 0 .. MaxCalls

\* What a fresh process holds in memory; rows are in the database.
FreshProcess ==
  [counter |-> 0, live |-> NoMeta, minted |-> {},
   gen |-> [m \in Metas |-> 0],
   holder |-> [m \in Metas |-> NoJob], waiting |-> [m \in Metas |-> {}],
   memo |-> [p \in Instances |-> NoMemo],
   sync |-> [s \in Syncs |->
               [pc |-> "idle", inst |-> CHOOSE p \in Instances : TRUE, meta |-> NoMeta,
                todo |-> {}, gone |-> {}, changed |-> FALSE,
                dims |-> CHOOSE d \in Dims : TRUE]],
   call |-> [c \in Calls |->
               [pc |-> "idle", inst |-> CHOOSE p \in Instances : TRUE, meta |-> NoMeta,
                gen |-> 0, dims |-> CHOOSE d \in Dims : TRUE,
                seen |-> [f \in Facets |-> NoText], skipped |-> FALSE,
                whole |-> FALSE]]]

Init ==
  /\ rows = [f \in Facets |-> NoRow]
  /\ model \in Models
  /\ endpoint \in Dims
  /\ counter = FreshProcess.counter
  /\ live = FreshProcess.live
  /\ minted = FreshProcess.minted
  /\ gen = FreshProcess.gen
  /\ holder = FreshProcess.holder
  /\ waiting = FreshProcess.waiting
  /\ cooling = {}
  /\ suppressed = {}
  /\ memo = FreshProcess.memo
  /\ sync = FreshProcess.sync
  /\ call = FreshProcess.call
  /\ calls = 0

-----------------------------------------------------------------------------
(* Metas and their mutexes *)

\* Variant: generations are numbered per meta.
MetaForNumberedLocally(m) ==
  IF live = NoMeta
  THEN /\ m \notin minted
       /\ minted' = minted \cup {m}
       /\ live' = m
       /\ gen' = [gen EXCEPT ![m] = 1]
       /\ UNCHANGED counter
  ELSE /\ m = live
       /\ UNCHANGED metaVars

\* metaFor: the entry of the map, minted with a generation of its own.
MetaFor(m) ==
  IF live = NoMeta
  THEN /\ m \notin minted
       /\ minted' = minted \cup {m}
       /\ live' = m
       /\ counter' = counter + 1
       /\ gen' = [gen EXCEPT ![m] = counter + 1]
  ELSE /\ m = live
       /\ UNCHANGED metaVars

Bump(m) ==
  /\ counter' = counter + 1
  /\ gen' = [gen EXCEPT ![m] = counter + 1]

Acquire(j, m) ==
  IF holder[m] = NoJob
  THEN holder' = [holder EXCEPT ![m] = j] /\ UNCHANGED waiting
  ELSE waiting' = [waiting EXCEPT ![m] = @ \cup {j}] /\ UNCHANGED holder

Release(m) ==
  \/ /\ waiting[m] = {}
     /\ holder' = [holder EXCEPT ![m] = NoJob]
     /\ UNCHANGED waiting
  \/ \E j \in waiting[m] :
       /\ holder' = [holder EXCEPT ![m] = j]
       /\ waiting' = [waiting EXCEPT ![m] = @ \ {j}]

-----------------------------------------------------------------------------
(* The background sync *)

Wants(p, f) == Desired[p][f] # NoText

\* A row is current when its text and model match; its length is not looked at.
NeedsEmbedding(p, f) ==
  /\ Wants(p, f)
  /\ ~(rows[f] # NoRow /\ rows[f].text = Desired[p][f] /\ rows[f].model = model)

\* The memo of a sync that runs, or that ended in this generation.
IsTrusted(p, g) == memo[p] # NoMemo /\ (memo[p].done => memo[p].gen = g)

\* A search whose memo cannot be trusted replaces it, starts a sync and answers
\* "indexing".
KickSync(p) ==
  /\ calls < MaxCalls
  /\ \E m \in Metas, s \in Syncs :
       /\ MetaFor(m)
       /\ m \notin cooling
       /\ ~IsTrusted(p, gen'[m])
       /\ sync[s].pc = "idle"
       /\ sync' = [sync EXCEPT ![s] = [@ EXCEPT !.pc = "queued", !.inst = p, !.meta = m,
                                                !.changed = FALSE]]
       /\ memo' = [memo EXCEPT ![p] = [sync |-> s, done |-> FALSE, gen |-> gen'[m]]]
       /\ Acquire(s, m)
  /\ calls' = calls + 1
  /\ UNCHANGED <<rows, model, endpoint, cooling, suppressed, call>>

\* A search while the sync of its instance runs answers "indexing": it has only
\* made sure that the map has an entry.
FindIndexing(p) ==
  /\ calls < MaxCalls
  /\ live = NoMeta
  /\ memo[p] # NoMemo /\ ~memo[p].done
  /\ \E m \in Metas : MetaFor(m)
  /\ calls' = calls + 1
  /\ UNCHANGED <<rows, model, endpoint, mutexVars, cooling, suppressed, memo, sync, call>>

SyncEnds(s) == sync' = [sync EXCEPT ![s] = [@ EXCEPT !.pc = "idle", !.todo = {}, !.gone = {},
                                                     !.changed = FALSE]]
OwnsMemo(s) == memo[sync[s].inst].sync = s /\ ~memo[sync[s].inst].done

\* The memo records the generation the sync returned, if it still is its own.
Remember(s, g) ==
  memo' = IF OwnsMemo(s)
          THEN [memo EXCEPT ![sync[s].inst] = [@ EXCEPT !.done = TRUE, !.gen = g]]
          ELSE memo

\* What follows a statement of the sync: the next one, or, with nothing left, the
\* finally that bumps the generation if a row changed, and the return.
SyncStep(s, todo, gone, changed) ==
  IF todo = {} /\ gone = {}
  THEN /\ IF changed THEN Bump(sync[s].meta) ELSE UNCHANGED <<counter, gen>>
       /\ Remember(s, gen'[sync[s].meta])
       /\ SyncEnds(s)
       /\ Release(sync[s].meta)
  ELSE /\ sync' = [sync EXCEPT ![s] = [@ EXCEPT !.pc = "write", !.todo = todo, !.gone = gone,
                                                !.changed = changed]]
       /\ UNCHANGED <<counter, gen, memo, mutexVars>>

\* The mutex is ours. A meta that is no longer the entry of the map must not be
\* written under; otherwise read the rows and work out the difference.
SyncEnter(s) ==
  /\ sync[s].pc = "queued"
  /\ holder[sync[s].meta] = s
  /\ LET todo == {f \in Facets : NeedsEmbedding(sync[s].inst, f)}
         gone == {f \in Facets : rows[f] # NoRow /\ ~Wants(sync[s].inst, f)}
     IN IF live = sync[s].meta /\ todo # {}
        THEN /\ sync' = [sync EXCEPT ![s] = [@ EXCEPT !.pc = "embed", !.todo = todo,
                                                      !.gone = gone]]
             /\ UNCHANGED <<counter, gen, memo, mutexVars>>
        ELSE SyncStep(s, {}, IF live = sync[s].meta THEN gone ELSE {}, FALSE)
  /\ UNCHANGED <<rows, model, endpoint, live, minted, cooling, suppressed, call, calls>>

SyncEmbed(s) ==
  /\ sync[s].pc = "embed"
  /\ sync' = [sync EXCEPT ![s] = [@ EXCEPT !.pc = "write", !.dims = endpoint]]
  /\ UNCHANGED <<rows, model, endpoint, metaVars, mutexVars, cooling, suppressed, memo,
                 call, calls>>

\* One upsert.
SyncWrite(s) ==
  /\ sync[s].pc = "write"
  /\ \E f \in sync[s].todo :
       /\ rows' = [rows EXCEPT ![f] = [text |-> Desired[sync[s].inst][f], model |-> model,
                                       dims |-> sync[s].dims]]
       /\ SyncStep(s, sync[s].todo \ {f}, sync[s].gone, TRUE)
  /\ UNCHANGED <<model, endpoint, live, minted, cooling, suppressed, call, calls>>

\* One delete of a row whose entity or facet is gone, after the upserts.
SyncDrop(s) ==
  /\ sync[s].pc = "write"
  /\ sync[s].todo = {}
  /\ \E f \in sync[s].gone :
       /\ rows' = [rows EXCEPT ![f] = NoRow]
       /\ SyncStep(s, {}, sync[s].gone \ {f}, TRUE)
  /\ UNCHANGED <<model, endpoint, live, minted, cooling, suppressed, call, calls>>

\* The provider or a statement throws: rows already written invalidate what others
\* saw, the memo goes if it is still ours, and the package cools down.
SyncFails(s) ==
  /\ Faults
  /\ \/ sync[s].pc = "queued" /\ holder[sync[s].meta] = s /\ live = sync[s].meta
     \/ sync[s].pc \in {"embed", "write"}
  /\ IF sync[s].changed THEN Bump(sync[s].meta) ELSE UNCHANGED <<counter, gen>>
  /\ memo' = IF OwnsMemo(s) THEN [memo EXCEPT ![sync[s].inst] = NoMemo] ELSE memo
  /\ cooling' = cooling \cup {sync[s].meta}
  /\ SyncEnds(s)
  /\ Release(sync[s].meta)
  /\ UNCHANGED <<rows, model, endpoint, live, minted, suppressed, call, calls>>

-----------------------------------------------------------------------------
(* The search and its heal *)

Search(c, next) == call' = [call EXCEPT ![c] = next]
Goto(c, pc) == Search(c, [call[c] EXCEPT !.pc = pc])
\* A finished call keeps nothing.
Return(c) == Search(c, FreshProcess.call[c])

IsCurrent(f, d) == rows[f] # NoRow /\ rows[f].model = model /\ rows[f].dims = d
StaleRows(d) == {f \in Facets : rows[f] # NoRow /\ ~IsCurrent(f, d)}

\* A search of an instance whose finished sync is of this generation.
SearchEnter(c, p) ==
  /\ call[c].pc = "idle"
  /\ calls < MaxCalls
  /\ live # NoMeta
  /\ live \notin cooling
  /\ memo[p].done
  /\ memo[p].gen = gen[live]
  /\ Search(c, [call[c] EXCEPT !.pc = "embed", !.inst = p, !.meta = live, !.gen = gen[live]])
  /\ calls' = calls + 1
  /\ UNCHANGED <<rows, model, endpoint, metaVars, mutexVars, cooling, suppressed, memo, sync>>

SearchEmbed(c) ==
  /\ call[c].pc = "embed"
  /\ Search(c, [call[c] EXCEPT !.pc = "scan", !.dims = endpoint])
  /\ UNCHANGED <<rows, model, endpoint, metaVars, mutexVars, cooling, suppressed, memo, sync,
                 calls>>

SearchEmbedFails(c) ==
  /\ Faults
  /\ call[c].pc = "embed"
  /\ cooling' = cooling \cup {call[c].meta}
  /\ Return(c)
  /\ UNCHANGED <<rows, model, endpoint, metaVars, mutexVars, suppressed, memo, sync, calls>>

\* What the scan of the rows of this model and length reads.
Scanned(c) ==
  [call[c] EXCEPT !.pc = "stale",
                  !.seen = [f \in Facets |-> IF IsCurrent(f, call[c].dims) THEN rows[f].text
                                             ELSE NoText],
                  !.skipped = StaleRows(call[c].dims) # {}]

\* The scan, void if somebody holds the mutex when it returns.
SearchScan(c) ==
  /\ call[c].pc = "scan"
  /\ IF holder[call[c].meta] # NoJob THEN Return(c) ELSE Search(c, Scanned(c))
  /\ UNCHANGED <<rows, model, endpoint, metaVars, mutexVars, cooling, suppressed, memo, sync,
                 calls>>

\* Variant: the generation is not compared again.
ConcludeUnchecked(c) == Goto(c, "hits")

\* The answer, void if the generation moved since the call began.
Conclude(c) ==
  IF gen[call[c].meta] # call[c].gen THEN Return(c) ELSE Goto(c, "hits")

\* Rows of another model or length are looked for on every call; the heal takes the
\* mutex without waiting, and does nothing under a meta that left the map.
SearchStale(c) ==
  LET m == call[c].meta
      stale == StaleRows(call[c].dims) # {}
  IN /\ call[c].pc = "stale"
     /\ \/ (~stale \/ (holder[m] = NoJob /\ live # m)) /\ Conclude(c) /\ UNCHANGED holder
        \/ stale /\ holder[m] # NoJob /\ Return(c) /\ UNCHANGED holder
        \/ /\ stale /\ holder[m] = NoJob /\ live = m
           /\ holder' = [holder EXCEPT ![m] = c]
           /\ Goto(c, "heal")
     /\ UNCHANGED <<rows, model, endpoint, metaVars, waiting, cooling, suppressed, memo, sync,
                    calls>>

\* Under the mutex: the rows are counted again, and one purge is made per window.
HealCheck(c) ==
  LET m == call[c].meta
      stale == StaleRows(call[c].dims) # {}
  IN /\ call[c].pc = "heal"
     /\ \/ ~stale /\ Conclude(c) /\ Release(m) /\ UNCHANGED cooling
        \/ /\ stale /\ m \in suppressed
           /\ cooling' = cooling \cup {m}
           /\ Return(c)
           /\ Release(m)
        \/ /\ stale /\ m \notin suppressed
           /\ Goto(c, "purge")
           /\ UNCHANGED <<mutexVars, cooling>>
     /\ UNCHANGED <<rows, model, endpoint, metaVars, suppressed, memo, sync, calls>>

HealPurge(c) ==
  LET m == call[c].meta
  IN /\ call[c].pc = "purge"
     /\ rows' = [f \in Facets |-> IF f \in StaleRows(call[c].dims) THEN NoRow ELSE rows[f]]
     /\ suppressed' = suppressed \cup {m}
     /\ Bump(m)
     /\ memo' = [memo EXCEPT ![call[c].inst] = NoMemo]
     /\ Return(c)
     /\ Release(m)
     /\ UNCHANGED <<model, endpoint, live, minted, cooling, sync, calls>>

HoldsMutex(c) == call[c].pc \in {"heal", "purge"}

\* Variant: a statement that throws inside the heal leaves the mutex taken.
SearchFaultUnreleased(c) ==
  /\ Faults
  /\ call[c].pc \in {"scan", "stale"} \/ HoldsMutex(c)
  /\ Return(c)
  /\ UNCHANGED <<rows, model, endpoint, metaVars, mutexVars, cooling, suppressed, memo, sync,
                 calls>>

\* A statement of the search throws; runExclusive gives the mutex back.
SearchFault(c) ==
  /\ Faults
  /\ call[c].pc \in {"scan", "stale"} \/ HoldsMutex(c)
  /\ Return(c)
  /\ IF HoldsMutex(c) THEN Release(call[c].meta) ELSE UNCHANGED mutexVars
  /\ UNCHANGED <<rows, model, endpoint, metaVars, cooling, suppressed, memo, sync, calls>>

SearchReturn(c) ==
  /\ call[c].pc = "hits"
  /\ Return(c)
  /\ UNCHANGED <<rows, model, endpoint, metaVars, mutexVars, cooling, suppressed, memo, sync,
                 calls>>

-----------------------------------------------------------------------------
(* Clean-up after a deletion *)

\* deletePackageEmbeddings up to its wait for the mutex.
QueueDelete(c, m, whole) ==
  /\ MetaFor(m)
  /\ Acquire(c, m)
  /\ Search(c, [call[c] EXCEPT !.pc = "delete", !.meta = m, !.whole = whole])

DeletePackage(c) ==
  /\ call[c].pc = "idle"
  /\ calls < MaxCalls
  /\ \E m \in Metas : QueueDelete(c, m, FALSE)
  /\ calls' = calls + 1
  /\ UNCHANGED <<rows, model, endpoint, cooling, suppressed, memo, sync>>

DeleteEnvironment(c) ==
  /\ call[c].pc = "idle"
  /\ calls < MaxCalls
  /\ Search(c, [call[c] EXCEPT !.pc = "loop", !.whole = TRUE])
  /\ calls' = calls + 1
  /\ UNCHANGED <<rows, model, endpoint, metaVars, mutexVars, cooling, suppressed, memo, sync>>

Deleted(c) == IF call[c].whole
              THEN Search(c, [FreshProcess.call[c] EXCEPT !.pc = "loop", !.whole = TRUE])
              ELSE Return(c)

\* Variant: a second delete queued on a removed meta runs again.
DeleteRunUnguarded(c) ==
  LET m == call[c].meta
  IN /\ call[c].pc = "delete"
     /\ holder[m] = c
     /\ rows' = [f \in Facets |-> NoRow]
     /\ Bump(m)
     /\ live' = NoMeta
     /\ Release(m)
     /\ Deleted(c)
     /\ UNCHANGED <<model, endpoint, minted, cooling, suppressed, memo, sync, calls>>

\* The rows go, the generation moves and the entry leaves the map, all before the
\* next waiter; nothing is done under a meta that already left it.
DeleteRun(c) ==
  LET m == call[c].meta
  IN /\ call[c].pc = "delete"
     /\ holder[m] = c
     /\ IF live # m
        THEN UNCHANGED <<rows, counter, gen, live>>
        ELSE /\ rows' = [f \in Facets |-> NoRow]
             /\ Bump(m)
             /\ live' = NoMeta
     /\ Release(m)
     /\ Deleted(c)
     /\ UNCHANGED <<model, endpoint, minted, cooling, suppressed, memo, sync, calls>>

\* The iteration over the live map reaches an entry minted since it began; with
\* none left, one statement deletes what the environment still has. It takes no
\* mutex: the connection runs statements in the order they are issued.
Sweep(c) ==
  /\ call[c].pc = "loop"
  /\ IF live # NoMeta
     THEN QueueDelete(c, live, TRUE) /\ UNCHANGED rows
     ELSE /\ rows' = [f \in Facets |-> NoRow]
          /\ Return(c)
          /\ UNCHANGED <<metaVars, mutexVars>>
  /\ UNCHANGED <<model, endpoint, cooling, suppressed, memo, sync, calls>>

\* A delete statement throws: the clean-up is given up.
DeleteFails(c) ==
  /\ Faults
  /\ \/ /\ call[c].pc = "delete"
        /\ holder[call[c].meta] = c
        /\ live = call[c].meta
        /\ Release(call[c].meta)
     \/ /\ call[c].pc = "loop"
        /\ live = NoMeta
        /\ UNCHANGED mutexVars
  /\ Return(c)
  /\ UNCHANGED <<rows, model, endpoint, metaVars, cooling, suppressed, memo, sync, calls>>

-----------------------------------------------------------------------------
(* The world *)

EndpointChanges ==
  /\ endpoint' \in Dims \ {endpoint}
  /\ UNCHANGED <<rows, model, metaVars, mutexVars, cooling, suppressed, memo, sync, call,
                 calls>>

CooldownEnds ==
  /\ cooling # {}
  /\ cooling' = {}
  /\ UNCHANGED <<rows, model, endpoint, metaVars, mutexVars, suppressed, memo, sync, call,
                 calls>>

SuppressionEnds ==
  /\ suppressed # {}
  /\ suppressed' = {}
  /\ UNCHANGED <<rows, model, endpoint, metaVars, mutexVars, cooling, memo, sync, call, calls>>

\* A crash at any moment: only the rows survive, EMBEDDING_MODEL may be another.
Restart ==
  /\ model' \in Models
  /\ counter' = FreshProcess.counter
  /\ live' = FreshProcess.live
  /\ minted' = FreshProcess.minted
  /\ gen' = FreshProcess.gen
  /\ holder' = FreshProcess.holder
  /\ waiting' = FreshProcess.waiting
  /\ cooling' = {}
  /\ suppressed' = {}
  /\ memo' = FreshProcess.memo
  /\ sync' = FreshProcess.sync
  /\ call' = FreshProcess.call
  /\ UNCHANGED <<rows, endpoint, calls>>

SyncNext(s) == SyncEnter(s) \/ SyncEmbed(s) \/ SyncWrite(s) \/ SyncDrop(s)
CallNext(c) ==
  \/ SearchEmbed(c) \/ SearchScan(c) \/ SearchStale(c) \/ HealCheck(c) \/ HealPurge(c)
  \/ SearchReturn(c) \/ DeleteRun(c) \/ Sweep(c)

Next ==
  \/ \E p \in Instances : KickSync(p) \/ FindIndexing(p) \/ \E c \in Calls : SearchEnter(c, p)
  \/ \E s \in Syncs : SyncNext(s) \/ SyncFails(s)
  \/ \E c \in Calls :
       \/ CallNext(c) \/ SearchEmbedFails(c) \/ SearchFault(c)
       \/ DeletePackage(c) \/ DeleteEnvironment(c) \/ DeleteFails(c)
  \/ EndpointChanges \/ CooldownEnds \/ SuppressionEnds \/ Restart

Spec == Init /\ [][Next]_vars

-----------------------------------------------------------------------------
(* Properties *)

\* A search whose scan met no stale row answers from exactly the texts its package
\* instance wants embedded, whatever syncs, heals, deletions of the package or its
\* environment, reloads and restarts happened while it ran: never from a table it
\* saw half written or emptied (trySemanticSearch: isLocked, the generation).
AnswersAreWhole ==
  \A c \in Calls :
    call[c].pc = "hits" /\ ~call[c].skipped => call[c].seen = Desired[call[c].inst]

\* The same for every answer: rows the scan skipped as stale are healed before a
\* search is answered, so none is answered without them.
SkippedRowsAreHealed ==
  \A c \in Calls : call[c].pc = "hits" => call[c].seen = Desired[call[c].inst]

\* A finished sync of the current generation means what it says: with the mutex
\* free, the rows are the ones the instance wants, embedded by this model, so a
\* purge, a deletion and another instance's sync each invalidate every memo.
MemoTellsTruth ==
  \A p \in Instances :
    live # NoMeta /\ memo[p].done /\ memo[p].gen = gen[live] /\ holder[live] = NoJob
    => \A f \in Facets :
         IF Wants(p, f)
         THEN rows[f] # NoRow /\ rows[f].text = Desired[p][f] /\ rows[f].model = model
         ELSE rows[f] = NoRow

\* Who is between two statements of a read-diff-write section, and under which meta.
Writers == {<<s, sync[s].meta>> : s \in {t \in Syncs : sync[t].pc \in {"embed", "write"}}}
           \cup {<<c, call[c].meta>> : c \in {d \in Calls : HoldsMutex(d)}}

\* At most one job is inside a read-diff-write section of the package, and it is
\* under the meta that is the entry of the map: deleting the entry never lets a
\* second writer in beside one that waited on the old mutex.
OneWriter ==
  /\ \A v, w \in Writers : v = w
  /\ \A w \in Writers : w[2] = live

\* The meta whose mutex a job asked for and has not given back.
Claims(j) ==
  IF j \in Syncs
  THEN IF sync[j].pc = "idle" THEN {} ELSE {sync[j].meta}
  ELSE IF call[j].pc = "delete" \/ HoldsMutex(j) THEN {call[j].meta} ELSE {}

\* A mutex is held by a job that is still inside its section and awaited only
\* while it is held, and a job in a section holds or awaits its mutex: a failed
\* sync, heal or delete never leaves the package waiting for ever.
MutexIsOwned ==
  \A m \in Metas :
    /\ holder[m] # NoJob => m \in Claims(holder[m])
    /\ waiting[m] # {} => holder[m] \notin waiting[m] \cup {NoJob}
    /\ \A j \in Jobs : m \in Claims(j) => j \in waiting[m] \cup {holder[m]}
=============================================================================

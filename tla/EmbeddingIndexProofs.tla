------------------------- MODULE EmbeddingIndexProofs -------------------------
(* The semantic index for any instances, texts, jobs and number of calls: the   *)
(* mutex of a package is owned, one job writes at a time and under the live     *)
(* entry, a finished sync of the current generation tells the truth, and a      *)
(* search answers from the whole index or not at all.                           *)
EXTENDS EmbeddingIndex, TLAPS

-----------------------------------------------------------------------------
(* The inductive invariant *)

\* Job j is inside the read-diff-write section under meta m.
In(j, m) ==
  \/ j \in Syncs /\ sync[j].pc \in {"embed", "write"} /\ sync[j].meta = m
  \/ j \in Calls /\ call[j].pc \in {"heal", "purge"} /\ call[j].meta = m

\* Job j has asked for the mutex of meta m and does not know whether it has it.
Ask(j, m) ==
  \/ j \in Syncs /\ sync[j].pc = "queued" /\ sync[j].meta = m
  \/ j \in Calls /\ call[j].pc = "delete" /\ call[j].meta = m

\* Where a search or a deletion works under a meta.
Bound == {"embed", "scan", "stale", "heal", "purge", "delete"}

\* The entry of the map has been minted, and no two metas share a generation.
MetaInv ==
  /\ live \in minted \cup {NoMeta}
  /\ \A m \in Metas : gen[m] <= counter
  /\ \A m, n \in minted : gen[m] = gen[n] => m = n

\* Holders and waiters are exactly the jobs whose program counters say so.
MutexInv ==
  \A j \in Jobs, m \in Metas :
    /\ In(j, m) => holder[m] = j
    /\ Ask(j, m) => j \in waiting[m] \/ holder[m] = j
    /\ holder[m] = j => In(j, m) \/ Ask(j, m)
    /\ j \in waiting[m] => Ask(j, m) /\ holder[m] # j /\ holder[m] # NoJob

\* The section is only ever entered, and stayed in, under the entry of the map.
WriterInv == \A j \in Jobs, m \in Metas : In(j, m) => m = live

\* Facet f is stored the way instance p wants it.
Match(p, f) ==
  IF Wants(p, f)
  THEN rows[f] # NoRow /\ rows[f].text = Desired[p][f] /\ rows[f].model = model
  ELSE rows[f] = NoRow

Whole(p) == \A f \in Facets : Match(p, f)

\* A sync has changed a row and not yet moved the generation.
Dirty == \E s \in Syncs : sync[s].pc = "write" /\ sync[s].changed

\* What generation g still promises instance p.
Valid(p, g) == live # NoMeta /\ gen[live] = g => Dirty \/ Whole(p)

\* A sync inside its section has put right every facet it has not on its lists.
SyncPhase(s) ==
  /\ sync[s].pc # "idle" => sync[s].meta \in minted
  /\ sync[s].pc \in {"queued", "embed"} => ~sync[s].changed
  /\ sync[s].pc \in {"embed", "write"} =>
       \A f \in Facets :
         /\ f \in sync[s].todo => Wants(sync[s].inst, f)
         /\ f \in sync[s].gone => ~Wants(sync[s].inst, f)
         /\ f \notin sync[s].todo \cup sync[s].gone => Match(sync[s].inst, f)

MemoPhase(p) ==
  /\ memo[p].gen <= counter
  /\ memo[p].done => Valid(p, memo[p].gen)

\* A search carries the generation it began in: until its scan that generation
\* vouches for the table, after it for what the scan read.
CallPhase(c) ==
  /\ call[c].pc \in Bound => call[c].meta \in minted
  /\ call[c].pc \in {"embed", "scan", "stale", "heal", "purge"} => call[c].gen <= counter
  /\ call[c].pc \in {"embed", "scan"} =>
       /\ Valid(call[c].inst, call[c].gen)
       /\ gen[call[c].meta] = call[c].gen => live = call[c].meta
  /\ call[c].pc \in {"stale", "heal", "purge"} =>
       (~call[c].skipped /\ gen[call[c].meta] = call[c].gen
        => call[c].seen = Desired[call[c].inst])
  /\ call[c].pc = "hits" => (~call[c].skipped => call[c].seen = Desired[call[c].inst])

IndexInv ==
  /\ TypeOK
  /\ MetaInv
  /\ MutexInv
  /\ WriterInv
  /\ \A s \in Syncs : SyncPhase(s)
  /\ \A p \in Instances : MemoPhase(p)
  /\ \A c \in Calls : CallPhase(c)

-----------------------------------------------------------------------------
(* Steps of the mutex. Every step of the index moves at most one job j.        *)

Others(j) ==
  \A k \in Jobs \ {j}, n \in Metas : (In(k, n)' <=> In(k, n)) /\ (Ask(k, n)' <=> Ask(k, n))

\* A step of one background sync leaves the sections of all other jobs alone.
LEMMA SyncMoves ==
  ASSUME NEW s \in Syncs, NEW r, sync \in [Syncs -> Sync], sync' = [sync EXCEPT ![s] = r],
         call' = call
  PROVE  /\ Others(s)
         /\ \A n \in Metas : (In(s, n)' <=> r.pc \in {"embed", "write"} /\ r.meta = n)
                             /\ (Ask(s, n)' <=> r.pc = "queued" /\ r.meta = n)
  BY NamesAssumption DEF Others, In, Ask, Jobs

\* A step of one search or deletion does the same.
LEMMA CallMoves ==
  ASSUME NEW c \in Calls, NEW r, call \in [Calls -> Call], call' = [call EXCEPT ![c] = r],
         sync' = sync
  PROVE  /\ Others(c)
         /\ \A n \in Metas : (In(c, n)' <=> r.pc \in {"heal", "purge"} /\ r.meta = n)
                             /\ (Ask(c, n)' <=> r.pc = "delete" /\ r.meta = n)
  BY NamesAssumption DEF Others, In, Ask, Jobs

\* A job is inside or asks under one meta only.
LEMMA OneSeat ==
  ASSUME NEW j \in Jobs, NEW m \in Metas, NEW n \in Metas, In(j, m) \/ Ask(j, m),
         In(j, n) \/ Ask(j, n)
  PROVE  m = n /\ ~(In(j, m) /\ Ask(j, m))
  BY NamesAssumption DEF In, Ask, Jobs

\* A step that neither moves a section nor the mutexes.
LEMMA StaysPut ==
  ASSUME NEW j \in Jobs, MutexInv, Others(j), UNCHANGED mutexVars,
         \A n \in Metas : (In(j, n)' <=> In(j, n)) /\ (Ask(j, n)' <=> Ask(j, n))
  PROVE  MutexInv'
  BY DEF MutexInv, Others, mutexVars

\* The holder enters its section, or goes on inside it.
LEMMA GoesIn ==
  ASSUME NEW j \in Jobs, NEW m \in Metas, MutexInv, Others(j), UNCHANGED mutexVars,
         holder[m] = j,
         \A n \in Metas : (In(j, n)' <=> n = m) /\ ~Ask(j, n)'
  PROVE  MutexInv'
  BY OneSeat DEF MutexInv, Others, mutexVars

\* A job asks for a mutex.
LEMMA AcquireKeeps ==
  ASSUME NEW j \in Jobs, NEW m \in Metas, TypeOK, MutexInv, Others(j), Acquire(j, m),
         \A n \in Metas : ~In(j, n) /\ ~Ask(j, n),
         \A n \in Metas : (Ask(j, n)' <=> n = m) /\ ~In(j, n)'
  PROVE  MutexInv'
  <1>1. NoJob \notin Jobs
    BY NamesAssumption
  <1>2. CASE holder[m] = NoJob
    <2>1. \A k \in Jobs : ~In(k, m) /\ ~Ask(k, m) /\ k \notin waiting[m]
      BY <1>1, <1>2 DEF MutexInv
    <2> QED BY <1>1, <1>2, <2>1 DEF MutexInv, Others, Acquire, TypeOK
  <1>3. CASE holder[m] # NoJob
    BY <1>1, <1>3 DEF MutexInv, Others, Acquire, TypeOK
  <1> QED BY <1>2, <1>3

\* A job takes a free mutex without waiting.
LEMMA TakeKeeps ==
  ASSUME NEW j \in Jobs, NEW m \in Metas, TypeOK, MutexInv, Others(j), holder[m] = NoJob,
         holder' = [holder EXCEPT ![m] = j], waiting' = waiting,
         \A n \in Metas : ~In(j, n) /\ ~Ask(j, n),
         \A n \in Metas : (In(j, n)' <=> n = m) /\ ~Ask(j, n)'
  PROVE  MutexInv'
  <1>1. NoJob \notin Jobs
    BY NamesAssumption
  <1>2. \A k \in Jobs : ~In(k, m) /\ ~Ask(k, m) /\ k \notin waiting[m]
    BY <1>1 DEF MutexInv
  <1> QED BY <1>1, <1>2 DEF MutexInv, Others, TypeOK

\* The holder leaves and the mutex goes to a waiter, if there is one.
LEMMA ReleaseKeeps ==
  ASSUME NEW j \in Jobs, NEW m \in Metas, TypeOK, MutexInv, Others(j), holder[m] = j,
         Release(m), \A n \in Metas : ~In(j, n)' /\ ~Ask(j, n)'
  PROVE  MutexInv'
  <1>0. \A n \in Metas : In(j, n) \/ Ask(j, n) => n = m
    BY OneSeat DEF MutexInv
  <1>1. NoJob \notin Jobs
    BY NamesAssumption
  <1>2. CASE waiting[m] = {} /\ holder' = [holder EXCEPT ![m] = NoJob] /\ waiting' = waiting
    BY <1>0, <1>1, <1>2 DEF MutexInv, Others, TypeOK
  <1>3. ASSUME NEW k \in waiting[m], holder' = [holder EXCEPT ![m] = k],
               waiting' = [waiting EXCEPT ![m] = @ \ {k}]
        PROVE  MutexInv'
    <2>1. k \in Jobs /\ Ask(k, m) /\ k # j
      BY <1>3 DEF MutexInv, TypeOK
    <2>2. \A n \in Metas : Ask(k, n) \/ In(k, n) => n = m
      BY <2>1, OneSeat
    <2> QED BY <1>0, <1>1, <1>3, <2>1, <2>2 DEF MutexInv, Others, TypeOK
  <1> QED BY <1>2, <1>3 DEF Release

-----------------------------------------------------------------------------
(* Steps of the metas, and what every step leaves valid *)

\* The generation of a meta moves past every number given out, an entry leaves the
\* map only with its generation, and the rows under an entry that keeps its
\* generation are only changed by a sync that is going to move it.
Moves ==
  /\ counter' >= counter
  /\ minted \subseteq minted'
  /\ model' = model
  /\ \A m \in Metas : gen'[m] = gen[m] \/ gen'[m] > counter
  /\ \A m \in Metas : live = m /\ gen'[m] = gen[m] => live' = m
  /\ \/ live' = NoMeta
     \/ gen'[live'] > counter
     \/ Dirty'
     \/ live' = live /\ rows' = rows /\ (Dirty => Dirty')

\* What a generation already given out promises an instance, it still promises.
LEMMA ValidStays ==
  ASSUME NEW p \in Instances, NEW g \in Nat, TypeOK, TypeOK', Moves, MetaInv', g <= counter,
         Valid(p, g)
  PROVE  Valid(p, g)'
  <1> SUFFICES ASSUME live' # NoMeta, gen'[live'] = g, ~Dirty'
               PROVE  Whole(p)'
    BY DEF Valid
  <1>1. live' \in Metas
    BY DEF TypeOK
  <1>2. ~(gen'[live'] > counter)
    BY DEF TypeOK
  <1>3. live' = live /\ rows' = rows /\ ~Dirty
    BY <1>2 DEF Moves
  <1>4. gen'[live'] = gen[live]
    BY <1>1, <1>2, <1>3 DEF Moves
  <1>5. Whole(p)
    BY <1>3, <1>4 DEF Valid
  <1> QED BY <1>3, <1>5 DEF Whole, Match, Moves

\* The memo of an instance that a step leaves alone.
LEMMA MemoStays ==
  ASSUME NEW p \in Instances, TypeOK, TypeOK', Moves, MetaInv', MemoPhase(p),
         memo'[p] = memo[p]
  PROVE  MemoPhase(p)'
  <1>1. memo[p].gen \in Nat
    BY DEF TypeOK, Memo
  <1>2. memo[p].gen <= counter'
    BY <1>1 DEF MemoPhase, Moves, TypeOK
  <1>3. \A g \in Nat : g <= counter /\ Valid(p, g) => Valid(p, g)'
    BY ValidStays
  <1>4. memo[p].done => Valid(p, memo[p].gen)'
    BY <1>1, <1>3 DEF MemoPhase, Valid
  <1> QED BY <1>2, <1>4 DEF MemoPhase

\* A search or a deletion that a step leaves alone.
LEMMA CallStays ==
  ASSUME NEW c \in Calls, TypeOK, TypeOK', Moves, MetaInv, MetaInv', CallPhase(c),
         call'[c] = call[c]
  PROVE  CallPhase(c)'
  <1> DEFINE r == call[c]
  <1>1. r.gen \in Nat /\ r.inst \in Instances /\ call'[c] = r
    BY DEF TypeOK, Call
  <1>2. \A g \in Nat : g <= counter /\ Valid(r.inst, g) => Valid(r.inst, g)'
    <2> DEFINE q == r.inst
    <2>1. \A p \in Instances, g \in Nat : g <= counter /\ Valid(p, g) => Valid(p, g)'
      BY ValidStays
    <2> QED BY <1>1, <2>1 DEF Valid, Whole, Match, Wants
  <1>3. r.pc \in Bound => r.meta \in minted'
    BY DEF CallPhase, Moves
  <1>4. r.pc \in {"embed", "scan", "stale", "heal", "purge"} => r.gen <= counter /\ r.gen <= counter'
    BY <1>1 DEF CallPhase, Moves, TypeOK
  <1>5. r.pc \in {"embed", "scan"} => Valid(r.inst, r.gen)'
    BY <1>1, <1>2, <1>4 DEF CallPhase, Valid, Whole, Match, Wants
  <1>6. r.pc \in Bound => r.meta \in Metas
    BY DEF CallPhase, TypeOK
  <1>7. ASSUME r.pc \in {"embed", "scan", "stale", "heal", "purge"}, gen'[r.meta] = r.gen
        PROVE  gen'[r.meta] = gen[r.meta]
    BY <1>1, <1>4, <1>6, <1>7 DEF Bound, Moves, TypeOK
  <1>8. r.pc \in {"embed", "scan"} => (gen'[r.meta] = r.gen => live' = r.meta)
    BY <1>6, <1>7 DEF CallPhase, Bound, Moves
  <1>9. r.pc \in {"stale", "heal", "purge"}
        => (~r.skipped /\ gen'[r.meta] = r.gen => r.seen = Desired[r.inst])
    BY <1>7 DEF CallPhase
  <1>10. r.pc = "hits" => (~r.skipped => r.seen = Desired[r.inst])
    BY DEF CallPhase
  <1> QED BY <1>1, <1>3, <1>4, <1>5, <1>8, <1>9, <1>10 DEF CallPhase, Valid

\* A background sync that a step leaves alone: nobody else writes while it is inside.
LEMMA SyncStays ==
  ASSUME NEW s \in Syncs, SyncPhase(s), sync'[s] = sync[s], model' = model,
         minted \subseteq minted',
         rows' = rows \/ sync[s].pc \notin {"embed", "write"}
  PROVE  SyncPhase(s)'
  <1>1. CASE rows' = rows
    BY <1>1 DEF SyncPhase, Match
  <1>2. CASE sync[s].pc \notin {"embed", "write"}
    BY <1>2 DEF SyncPhase
  <1> QED BY <1>1, <1>2

\* A sync that has written nothing since it entered can leave without notice.
LEMMA DirtyStays ==
  ASSUME NEW s \in Syncs, NEW r, sync \in [Syncs -> Sync], sync' = [sync EXCEPT ![s] = r],
         ~(sync[s].pc = "write" /\ sync[s].changed) \/ (r.pc = "write" /\ r.changed)
  PROVE  Dirty => Dirty'
  BY DEF Dirty

\* An entry that is there stays the entry while others move.
LEMMA WriterStays ==
  ASSUME NEW j \in Jobs, WriterInv, Others(j), live' = live \/ live = NoMeta,
         \A n \in Metas : In(j, n)' => n = live'
  PROVE  WriterInv'
  <1>1. NoMeta \notin Metas
    BY NamesAssumption
  <1> QED BY <1>1 DEF WriterInv, Others

\* metaFor answers with the entry, minted with the next number if there was none.
LEMMA MetaForKeeps ==
  ASSUME NEW m \in Metas, TypeOK, MetaInv, MetaFor(m)
  PROVE  /\ counter' \in Nat /\ live' = m /\ minted' \subseteq Metas /\ gen' \in [Metas -> Nat]
         /\ m \in minted'
         /\ MetaInv'
         /\ live' = live \/ live = NoMeta
         /\ minted \subseteq minted'
         /\ counter' >= counter
         /\ \A n \in Metas : gen'[n] = gen[n] \/ gen'[n] > counter
         /\ gen'[m] <= counter'
         /\ live' = live \/ gen'[live'] > counter
  <1>0. m # NoMeta
    BY NamesAssumption
  <1>1. CASE live = NoMeta
    <2>1. /\ counter' = counter + 1 /\ live' = m /\ minted' = minted \cup {m}
          /\ gen' = [gen EXCEPT ![m] = counter + 1] /\ m \notin minted
      BY <1>1 DEF MetaFor
    <2>2. counter + 1 \in Nat /\ counter + 1 > counter /\ gen'[m] = counter + 1
      BY <2>1 DEF TypeOK
    <2>3. \A n \in Metas : n # m => gen'[n] = gen[n]
      BY <2>1 DEF TypeOK
    <2>4. gen' \in [Metas -> Nat]
      BY <2>1, <2>2 DEF TypeOK
    <2>5. \A n \in Metas : gen[n] \in Nat /\ gen[n] <= counter /\ gen[n] # counter + 1
      BY DEF TypeOK, MetaInv
    <2>6. \A n \in Metas : gen'[n] <= counter'
      BY <2>1, <2>2, <2>3, <2>5 DEF TypeOK
    <2>7. \A k, n \in minted' : gen'[k] = gen'[n] => k = n
      BY <2>1, <2>2, <2>3, <2>5 DEF TypeOK, MetaInv
    <2>8. MetaInv'
      BY <2>1, <2>6, <2>7 DEF MetaInv
    <2> QED BY <1>1, <2>1, <2>2, <2>3, <2>4, <2>6, <2>8 DEF TypeOK
  <1>2. CASE live # NoMeta
    <2>1. m = live /\ UNCHANGED metaVars
      BY <1>2 DEF MetaFor
    <2> QED BY <1>0, <2>1 DEF TypeOK, MetaInv, metaVars
  <1> QED BY <1>1, <1>2

\* A bump gives a meta the next number.
LEMMA BumpKeeps ==
  ASSUME NEW m \in Metas, TypeOK, MetaInv, Bump(m), minted' = minted,
         live' = live \/ live' = NoMeta
  PROVE  /\ counter' \in Nat /\ gen' \in [Metas -> Nat]
         /\ MetaInv'
         /\ counter' >= counter
         /\ \A n \in Metas : gen'[n] = gen[n] \/ gen'[n] > counter
         /\ gen'[m] > counter
         /\ gen'[m] <= counter'
  <1>1. counter' = counter + 1 /\ gen' = [gen EXCEPT ![m] = counter + 1]
    BY DEF Bump
  <1>2. counter + 1 \in Nat /\ counter + 1 > counter /\ gen'[m] = counter + 1
    BY <1>1 DEF TypeOK
  <1>3. \A n \in Metas : n # m => gen'[n] = gen[n]
    BY <1>1 DEF TypeOK
  <1>4. gen' \in [Metas -> Nat]
    BY <1>1, <1>2 DEF TypeOK
  <1>5. \A n \in Metas : gen[n] \in Nat /\ gen[n] <= counter /\ gen[n] # counter + 1
    BY DEF TypeOK, MetaInv
  <1>6. \A n \in Metas : gen'[n] <= counter'
    BY <1>1, <1>2, <1>3, <1>5 DEF TypeOK
  <1>7. \A k, n \in minted' : gen'[k] = gen'[n] => k = n
    BY <1>1, <1>2, <1>3, <1>5 DEF TypeOK, MetaInv
  <1>8. MetaInv'
    BY <1>6, <1>7 DEF MetaInv
  <1> QED BY <1>1, <1>2, <1>3, <1>4, <1>6, <1>8 DEF TypeOK

\* Acquire and Release keep the mutexes within their types.
LEMMA MutexTypes ==
  ASSUME NEW m \in Metas, TypeOK, (\E j \in Jobs : Acquire(j, m)) \/ Release(m)
  PROVE  holder' \in [Metas -> Jobs \cup {NoJob}] /\ waiting' \in [Metas -> SUBSET Jobs]
  <1>1. ASSUME NEW j \in Jobs, Acquire(j, m)
        PROVE  holder' \in [Metas -> Jobs \cup {NoJob}] /\ waiting' \in [Metas -> SUBSET Jobs]
    BY <1>1 DEF TypeOK, Acquire
  <1>2. ASSUME Release(m)
        PROVE  holder' \in [Metas -> Jobs \cup {NoJob}] /\ waiting' \in [Metas -> SUBSET Jobs]
    BY <1>2 DEF TypeOK, Release
  <1> QED BY <1>1, <1>2

\* A job inside a section is inside alone.
LEMMA Alone ==
  ASSUME TypeOK, MutexInv, WriterInv, NEW j \in Jobs, NEW m \in Metas,
         In(j, m) \/ (holder[m] = j /\ live = m)
  PROVE  \A k \in Jobs \ {j}, n \in Metas : ~In(k, n)
  BY DEF MutexInv, WriterInv

\* A sync that is inside or waits works under a meta of its own accord.
LEMMA SyncAt ==
  ASSUME NEW s \in Syncs, TypeOK, SyncPhase(s), sync[s].pc # "idle"
  PROVE  /\ sync[s].meta \in Metas /\ sync[s].meta \in minted
         /\ sync[s].inst \in Instances
         /\ sync[s] \in Sync
  BY DEF TypeOK, SyncPhase, Sync

\* What is left to show of a step of one background sync.
LEMMA SyncKeeps ==
  ASSUME IndexInv, NEW s \in Syncs, NEW r, sync' = [sync EXCEPT ![s] = r], call' = call,
         TypeOK', MetaInv', MutexInv', WriterInv', Moves, SyncPhase(s)',
         rows' = rows \/ \A t \in Syncs \ {s} : sync[t].pc \notin {"embed", "write"},
         \A p \in Instances : memo'[p] = memo[p] \/ MemoPhase(p)'
  PROVE  IndexInv'
  <1>1. ASSUME NEW t \in Syncs PROVE SyncPhase(t)'
    <2>1. CASE t = s
      BY <2>1
    <2>2. CASE t # s
      <3>1. sync'[t] = sync[t]
        BY <2>2 DEF IndexInv, TypeOK
      <3> QED BY <2>2, <3>1, SyncStays DEF IndexInv, Moves
    <2> QED BY <2>1, <2>2
  <1>2. ASSUME NEW p \in Instances PROVE MemoPhase(p)'
    BY MemoStays DEF IndexInv
  <1>3. ASSUME NEW c \in Calls PROVE CallPhase(c)'
    BY CallStays DEF IndexInv
  <1> QED BY <1>1, <1>2, <1>3 DEF IndexInv

\* What is left to show of a step of one search or deletion.
LEMMA CallKeeps ==
  ASSUME IndexInv, NEW c \in Calls, NEW r, call' = [call EXCEPT ![c] = r], sync' = sync,
         TypeOK', MetaInv', MutexInv', WriterInv', Moves, CallPhase(c)',
         rows' = rows \/ \A t \in Syncs : sync[t].pc \notin {"embed", "write"},
         \A p \in Instances : memo'[p] = memo[p] \/ MemoPhase(p)'
  PROVE  IndexInv'
  <1>1. ASSUME NEW t \in Syncs PROVE SyncPhase(t)'
    BY SyncStays DEF IndexInv, Moves
  <1>2. ASSUME NEW p \in Instances PROVE MemoPhase(p)'
    BY MemoStays DEF IndexInv
  <1>3. ASSUME NEW d \in Calls PROVE CallPhase(d)'
    <2>1. CASE d = c
      BY <2>1
    <2>2. CASE d # c
      <3>1. call'[d] = call[d]
        BY <2>2 DEF IndexInv, TypeOK
      <3> QED BY <3>1, CallStays DEF IndexInv
    <2> QED BY <2>1, <2>2
  <1> QED BY <1>1, <1>2, <1>3 DEF IndexInv

\* A sync that goes gives its mutex back and leaves nothing behind.
LEMMA SyncLeaves ==
  ASSUME IndexInv, NEW s \in Syncs, NEW m \in Metas, sync[s].pc # "idle",
         sync[s].meta = m, holder[m] = s, SyncEnds(s), Release(m), call' = call,
         live' = live
  PROVE  /\ sync' \in [Syncs -> Sync]
         /\ holder' \in [Metas -> Jobs \cup {NoJob}] /\ waiting' \in [Metas -> SUBSET Jobs]
         /\ MutexInv' /\ WriterInv' /\ SyncPhase(s)'
         /\ sync' = [sync EXCEPT ![s] = [@ EXCEPT !.pc = "idle", !.todo = {}, !.gone = {},
                                                  !.changed = FALSE]]
         /\ ~sync[s].changed => (Dirty => Dirty')
  <1> DEFINE r == [sync[s] EXCEPT !.pc = "idle", !.todo = {}, !.gone = {}, !.changed = FALSE]
  <1>0. s \in Jobs /\ sync \in [Syncs -> Sync] /\ sync[s] \in Sync
    BY DEF Jobs, IndexInv, TypeOK
  <1>1. sync' = [sync EXCEPT ![s] = r]
    BY DEF SyncEnds
  <1>2. r \in Sync /\ r.pc = "idle"
    BY <1>0 DEF Sync
  <1>3. Others(s) /\ \A n \in Metas : ~In(s, n)' /\ ~Ask(s, n)'
    <2> HIDE DEF r
    <2>1. r.pc # "embed" /\ r.pc # "write" /\ r.pc # "queued"
      BY <1>2
    <2> QED BY <1>0, <1>1, <2>1, SyncMoves
  <1>4. holder' \in [Metas -> Jobs \cup {NoJob}] /\ waiting' \in [Metas -> SUBSET Jobs]
    BY MutexTypes DEF IndexInv
  <1>5. MutexInv'
    BY <1>0, <1>3, ReleaseKeeps DEF IndexInv
  <1>6. WriterInv'
    BY <1>0, <1>3, WriterStays DEF IndexInv
  <1>7. sync'[s] = r
    BY <1>0, <1>1
  <1>8. SyncPhase(s)'
    BY <1>2, <1>7 DEF SyncPhase
  <1>9. sync' \in [Syncs -> Sync]
    <2> HIDE DEF r
    <2> QED BY <1>0, <1>1, <1>2
  <1>10. ~sync[s].changed => (Dirty => Dirty')
    <2> HIDE DEF r
    <2> QED BY <1>0, <1>1, DirtyStays
  <1> QED BY <1>1, <1>4, <1>5, <1>6, <1>8, <1>9, <1>10

-----------------------------------------------------------------------------
(* The background sync *)

\* The memo a sync leaves is of a generation given out, for a table that is whole.
LEMMA RememberKeeps ==
  ASSUME TypeOK, NEW s \in Syncs, NEW g \in Nat, NEW q \in Instances, sync[s].inst = q,
         g <= counter', Remember(s, g), Valid(q, g)'
  PROVE  /\ memo' \in [Instances -> Memo]
         /\ \A p \in Instances : memo'[p] = memo[p] \/ MemoPhase(p)'
  <1> DEFINE r == [memo[q] EXCEPT !.done = TRUE, !.gen = g]
  <1>1. memo \in [Instances -> Memo] /\ memo[q] \in Memo
    BY DEF TypeOK
  <1>2. r \in Memo /\ r.gen = g
    BY <1>1 DEF Memo
  <1>3. CASE OwnsMemo(s)
    <2>1. memo' = [memo EXCEPT ![q] = r]
      BY <1>3 DEF Remember
    <2> HIDE DEF r
    <2>2. memo' \in [Instances -> Memo] /\ memo'[q] = r
      BY <1>1, <1>2, <2>1
    <2>3. MemoPhase(q)'
      BY <1>2, <2>2 DEF MemoPhase, Valid
    <2>4. \A p \in Instances : p # q => memo'[p] = memo[p]
      BY <1>1, <2>1
    <2> QED BY <2>2, <2>3, <2>4
  <1>4. CASE ~OwnsMemo(s)
    BY <1>1, <1>4 DEF Remember
  <1> QED BY <1>3, <1>4

\* While a sync has the mutex of the live entry no other is inside its section.
LEMMA SyncAlone ==
  ASSUME IndexInv, NEW s \in Jobs, NEW m \in Metas, holder[m] = s, live = m
  PROVE  \A t \in Syncs \ {s} : sync[t].pc \notin {"embed", "write"}
  <1>1. \A k \in Jobs \ {s}, n \in Metas : ~In(k, n)
    BY Alone DEF IndexInv
  <1>2. ASSUME NEW t \in Syncs \ {s}, sync[t].pc \in {"embed", "write"} PROVE FALSE
    <2>1. sync[t].meta \in Metas
      BY <1>2, SyncAt DEF IndexInv
    <2> QED BY <1>1, <1>2, <2>1 DEF In, Jobs
  <1> QED BY <1>2

\* A sync that holds the mutex of the live entry enters its section or goes on in it.
LEMMA SyncGoesOn ==
  ASSUME IndexInv, NEW s \in Syncs, NEW m \in Metas, NEW q \in Instances, NEW r \in Sync,
         sync[s].pc # "idle", sync[s].meta = m, holder[m] = s, live = m,
         sync' = [sync EXCEPT ![s] = r],
         r.pc \in {"embed", "write"}, r.meta = m, r.inst = q,
         r.pc = "embed" => ~r.changed,
         ~sync[s].changed \/ (r.pc = "write" /\ r.changed),
         rows' \in [Facets -> Row \cup {NoRow}],
         rows' = rows \/ (r.pc = "write" /\ r.changed),
         UNCHANGED <<model, endpoint, metaVars, mutexVars, cooling, suppressed, memo, call, calls>>,
         \A f \in Facets : /\ f \in r.todo => Wants(q, f)
                           /\ f \in r.gone => ~Wants(q, f)
                           /\ f \notin r.todo \cup r.gone => Match(q, f)'
  PROVE  IndexInv'
  <1>0. /\ s \in Jobs /\ sync \in [Syncs -> Sync] /\ m \in minted /\ minted' = minted
        /\ m # NoMeta /\ counter \in Nat /\ gen \in [Metas -> Nat] /\ live' = live
        /\ counter' = counter /\ gen' = gen /\ model' = model
    BY SyncAt, NamesAssumption DEF Jobs, IndexInv, TypeOK, metaVars
  <1>1. \A t \in Syncs \ {s} : sync[t].pc \notin {"embed", "write"}
    BY <1>0, SyncAlone
  <1>2. sync'[s] = r /\ sync' \in [Syncs -> Sync]
    BY <1>0
  <1>3. TypeOK'
    BY <1>2 DEF IndexInv, TypeOK, mutexVars, metaVars
  <1>4. MetaInv'
    BY <1>0 DEF IndexInv, MetaInv
  <1>5. Others(s) /\ \A n \in Metas : (In(s, n)' <=> n = m) /\ ~Ask(s, n)'
    BY <1>0, SyncMoves
  <1>6. MutexInv'
    BY <1>0, <1>5, GoesIn DEF IndexInv
  <1>7. WriterInv'
    BY <1>0, <1>5, WriterStays DEF IndexInv
  <1>8. Moves
    <2>1. CASE r.pc = "write" /\ r.changed
      <3>1. Dirty'
        BY <1>2, <2>1 DEF Dirty
      <3> QED BY <1>0, <3>1 DEF Moves
    <2>2. CASE ~(r.pc = "write" /\ r.changed)
      <3>1. Dirty => Dirty'
        BY <1>0, <2>2, DirtyStays
      <3> QED BY <1>0, <2>2, <3>1 DEF Moves
    <2> QED BY <2>1, <2>2
  <1>9. SyncPhase(s)'
    BY <1>0, <1>2 DEF SyncPhase, Match, Wants
  <1> QED BY <1>1, <1>3, <1>4, <1>6, <1>7, <1>8, <1>9, SyncKeeps

\* What follows a statement of a sync: it goes on with the lists it has left, or
\* moves the generation if a row changed, remembers it and goes.
LEMMA SyncStepKeeps ==
  ASSUME IndexInv, NEW s \in Syncs, NEW m \in Metas, NEW q \in Instances,
         NEW todo \in SUBSET Facets, NEW gone \in SUBSET Facets, NEW changed \in BOOLEAN,
         sync[s].pc # "idle", sync[s].meta = m, sync[s].inst = q, holder[m] = s,
         SyncStep(s, todo, gone, changed),
         rows' \in [Facets -> Row \cup {NoRow}],
         UNCHANGED <<model, endpoint, live, minted, cooling, suppressed, call, calls>>,
         sync[s].changed => changed,
         rows' = rows \/ changed,
         \/ live = m
         \/ todo = {} /\ gone = {} /\ ~changed,
         live = m => \A f \in Facets : /\ f \in todo => Wants(q, f)
                                       /\ f \in gone => ~Wants(q, f)
                                       /\ f \notin todo \cup gone => Match(q, f)'
  PROVE  IndexInv'
  <1>0. /\ s \in Jobs /\ sync \in [Syncs -> Sync] /\ sync[s] \in Sync /\ m \in minted
        /\ m # NoMeta /\ counter \in Nat /\ gen \in [Metas -> Nat]
    BY SyncAt, NamesAssumption DEF Jobs, IndexInv, TypeOK
  <1>1. rows' = rows \/ \A t \in Syncs \ {s} : sync[t].pc \notin {"embed", "write"}
    <2>1. CASE live = m
      BY <1>0, <2>1, SyncAlone
    <2>2. CASE live # m
      BY <2>2
    <2> QED BY <2>1, <2>2
  <1>2. CASE todo = {} /\ gone = {}
    <2>1. /\ Remember(s, gen'[m]) /\ SyncEnds(s) /\ Release(m)
          /\ IF changed THEN Bump(m) ELSE UNCHANGED <<counter, gen>>
      BY <1>2 DEF SyncStep
    <2>2. /\ sync' \in [Syncs -> Sync]
          /\ holder' \in [Metas -> Jobs \cup {NoJob}] /\ waiting' \in [Metas -> SUBSET Jobs]
          /\ MutexInv' /\ WriterInv' /\ SyncPhase(s)'
          /\ sync' = [sync EXCEPT ![s] = [@ EXCEPT !.pc = "idle", !.todo = {}, !.gone = {},
                                                   !.changed = FALSE]]
          /\ ~sync[s].changed => (Dirty => Dirty')
      BY <2>1, SyncLeaves
    <2>3. live = m => Whole(q)'
      BY <1>2 DEF Whole
    <2>4. /\ counter' \in Nat /\ gen' \in [Metas -> Nat] /\ MetaInv'
          /\ gen'[m] <= counter'
          /\ Moves
          /\ Valid(q, gen[m])'
      <3>1. CASE changed
        <4>1. Bump(m) /\ live = m /\ live' = live /\ minted' = minted /\ model' = model
          BY <2>1, <3>1
        <4>2. /\ counter' \in Nat /\ gen' \in [Metas -> Nat] /\ MetaInv' /\ counter' >= counter
              /\ \A n \in Metas : gen'[n] = gen[n] \/ gen'[n] > counter
              /\ gen'[m] > counter /\ gen'[m] <= counter'
          BY <4>1, BumpKeeps DEF IndexInv
        <4>3. Moves
          BY <4>1, <4>2 DEF Moves
        <4> QED BY <2>3, <4>1, <4>2, <4>3 DEF Valid
      <3>2. CASE ~changed
        <4>1. /\ counter' = counter /\ gen' = gen /\ live' = live /\ minted' = minted
              /\ model' = model /\ rows' = rows
          BY <2>1, <3>2
        <4>2. MetaInv' /\ gen[m] <= counter
          BY <4>1 DEF MetaInv, IndexInv
        <4>3. Dirty => Dirty'
          BY <2>2, <3>2
        <4>4. Moves
          BY <1>0, <4>1, <4>3 DEF Moves
        <4>5. live # NoMeta /\ gen[live] = gen[m] => live = m
          BY <1>0 DEF IndexInv, MetaInv
        <4>6. Valid(q, gen[m])'
          BY <2>3, <4>1, <4>5 DEF Valid
        <4> QED BY <1>0, <4>1, <4>2, <4>4, <4>6 DEF Valid
      <3> QED BY <3>1, <3>2
    <2>5. /\ memo' \in [Instances -> Memo]
          /\ \A p \in Instances : memo'[p] = memo[p] \/ MemoPhase(p)'
      <3> DEFINE g == gen'[m]
      <3>1. g \in Nat /\ Remember(s, g) /\ g <= counter'
        BY <2>1, <2>4
      <3>2. \E h \in Nat : h = g
        BY <3>1
      <3>3. PICK h \in Nat : h = g
        BY <3>2
      <3>4. Remember(s, h) /\ h <= counter' /\ Valid(q, h)'
        BY <2>4, <3>1, <3>3 DEF Remember, Valid
      <3> QED BY <3>4, RememberKeeps DEF IndexInv
    <2>6. TypeOK'
      BY <2>2, <2>4, <2>5 DEF IndexInv, TypeOK
    <2> QED BY <1>1, <2>2, <2>4, <2>5, <2>6, SyncKeeps
  <1>3. CASE ~(todo = {} /\ gone = {})
    <2> DEFINE r == [sync[s] EXCEPT !.pc = "write", !.todo = todo, !.gone = gone,
                                    !.changed = changed]
    <2>1. sync' = [sync EXCEPT ![s] = r] /\ UNCHANGED <<counter, gen, memo, mutexVars>>
      BY <1>3 DEF SyncStep
    <2>2. /\ r \in Sync /\ r.pc = "write" /\ r.todo = todo /\ r.gone = gone
          /\ r.changed = changed /\ r.meta = m /\ r.inst = q
      BY <1>0 DEF Sync
    <2> HIDE DEF r
    <2>3. rows' = rows \/ (r.pc = "write" /\ r.changed)
      BY <2>2
    <2>4. live = m /\ UNCHANGED <<metaVars, mutexVars>>
      BY <1>3, <2>1 DEF metaVars, mutexVars
    <2> QED BY <1>3, <2>1, <2>2, <2>3, <2>4, SyncGoesOn
  <1> QED BY <1>2, <1>3

\* A sync that is inside holds the mutex of the live entry.
LEMMA InsideAt ==
  ASSUME IndexInv, NEW s \in Syncs, sync[s].pc \in {"embed", "write"}
  PROVE  holder[sync[s].meta] = s /\ live = sync[s].meta
  <1>1. sync[s].meta \in Metas /\ s \in Jobs
    BY SyncAt DEF IndexInv, Jobs
  <1>2. In(s, sync[s].meta)
    BY DEF In
  <1> QED BY <1>1, <1>2 DEF IndexInv, MutexInv, WriterInv

LEMMA SyncEnterKeeps ==
  ASSUME IndexInv, NEW s \in Syncs, SyncEnter(s)
  PROVE  IndexInv'
  <1>0. PICK m \in Metas, q \in Instances : sync[s].meta = m /\ sync[s].inst = q
    BY SyncAt DEF IndexInv, SyncEnter
  <1> DEFINE todo == {f \in Facets : NeedsEmbedding(q, f)}
             gone == {f \in Facets : rows[f] # NoRow /\ ~Wants(q, f)}
             r == [sync[s] EXCEPT !.pc = "embed", !.todo = todo, !.gone = gone]
  <1>1. /\ sync[s].pc = "queued" /\ holder[m] = s /\ rows' = rows /\ sync[s] \in Sync
        /\ UNCHANGED <<model, endpoint, live, minted, cooling, suppressed, call, calls>>
        /\ rows \in [Facets -> Row \cup {NoRow}] /\ ~sync[s].changed
    BY <1>0 DEF IndexInv, TypeOK, SyncEnter, SyncPhase
  <1>2. \/ live = m /\ todo # {} /\ sync' = [sync EXCEPT ![s] = r]
           /\ UNCHANGED <<counter, gen, memo, mutexVars>>
        \/ ~(live = m /\ todo # {}) /\ SyncStep(s, {}, IF live = m THEN gone ELSE {}, FALSE)
    BY <1>0 DEF SyncEnter
  <1>3. \A f \in Facets : /\ f \in todo => Wants(q, f)
                          /\ f \in gone => ~Wants(q, f)
                          /\ f \notin todo \cup gone => Match(q, f)'
    BY <1>1 DEF NeedsEmbedding, Match
  <1>4. CASE live = m /\ todo # {} /\ sync' = [sync EXCEPT ![s] = r]
             /\ UNCHANGED <<counter, gen, memo, mutexVars>>
    <2>1. todo \subseteq Facets /\ gone \subseteq Facets
      OBVIOUS
    <2> HIDE DEF todo, gone
    <2>2. /\ r \in Sync /\ r.pc = "embed" /\ r.meta = m /\ r.inst = q /\ r.todo = todo
          /\ r.gone = gone /\ r.changed = sync[s].changed
      BY <1>0, <1>1, <2>1 DEF Sync
    <2>3. UNCHANGED <<metaVars, mutexVars>>
      BY <1>1, <1>4 DEF metaVars, mutexVars
    <2>4. sync' = [sync EXCEPT ![s] = r] /\ memo' = memo /\ live = m
      BY <1>4
    <2> HIDE DEF r
    <2> QED BY <1>0, <1>1, <1>3, <2>2, <2>3, <2>4, SyncGoesOn
  <1>5. CASE ~(live = m /\ todo # {}) /\ SyncStep(s, {}, IF live = m THEN gone ELSE {}, FALSE)
    <2> DEFINE left == IF live = m THEN gone ELSE {}
    <2>1. left \subseteq Facets /\ (live = m => todo = {} /\ left = gone) /\ (live # m => left = {})
      BY <1>5
    <2>2. SyncStep(s, {}, left, FALSE)
      BY <1>5
    <2> HIDE DEF left, todo, gone
    <2>3. \E l \in SUBSET Facets : l = left
      BY <2>1
    <2>4. PICK l \in SUBSET Facets : l = left
      BY <2>3
    <2>5. SyncStep(s, {}, l, FALSE)
      BY <2>2, <2>4
    <2>6. live = m => \A f \in Facets : /\ f \in {} => Wants(q, f)
                                        /\ f \in l => ~Wants(q, f)
                                        /\ f \notin {} \cup l => Match(q, f)'
      BY <1>3, <2>1, <2>4
    <2>7. live = m \/ ({} = {} /\ l = {} /\ ~FALSE)
      BY <2>1, <2>4
    <2>8. {} \in SUBSET Facets /\ sync[s].pc # "idle"
      BY <1>1
    <2>10. PICK b \in BOOLEAN : b = FALSE
      OBVIOUS
    <2>11. SyncStep(s, {}, l, b) /\ ~b
      BY <2>5, <2>10
    <2>9. rows' \in [Facets -> Row \cup {NoRow}]
      BY <1>1
    <2> QED BY <1>0, <1>1, <2>6, <2>7, <2>8, <2>9, <2>11, SyncStepKeeps
  <1> QED BY <1>2, <1>4, <1>5

LEMMA SyncEmbedKeeps ==
  ASSUME IndexInv, NEW s \in Syncs, SyncEmbed(s)
  PROVE  IndexInv'
  <1>0. PICK m \in Metas, q \in Instances : sync[s].meta = m /\ sync[s].inst = q
    BY SyncAt DEF IndexInv, SyncEmbed
  <1> DEFINE r == [sync[s] EXCEPT !.pc = "write", !.dims = endpoint]
  <1>1. /\ sync[s].pc = "embed" /\ sync' = [sync EXCEPT ![s] = r]
        /\ sync[s] \in Sync /\ endpoint \in Dims /\ rows' = rows
        /\ rows \in [Facets -> Row \cup {NoRow}] /\ ~sync[s].changed
        /\ UNCHANGED <<model, endpoint, metaVars, mutexVars, cooling, suppressed, memo, call, calls>>
    BY <1>0 DEF IndexInv, TypeOK, SyncEmbed, SyncPhase
  <1>2. /\ r \in Sync /\ r.pc = "write" /\ r.meta = m /\ r.inst = q /\ r.todo = sync[s].todo
        /\ r.gone = sync[s].gone /\ r.changed = sync[s].changed
    BY <1>0, <1>1 DEF Sync
  <1>3. holder[m] = s /\ live = m
    BY <1>0, <1>1, InsideAt
  <1> HIDE DEF r
  <1>4. \A f \in Facets : /\ f \in r.todo => Wants(q, f)
                          /\ f \in r.gone => ~Wants(q, f)
                          /\ f \notin r.todo \cup r.gone => Match(q, f)'
    BY <1>0, <1>1, <1>2 DEF IndexInv, SyncPhase, Match
  <1> QED BY <1>0, <1>1, <1>2, <1>3, <1>4, SyncGoesOn

LEMMA SyncWriteKeeps ==
  ASSUME IndexInv, NEW s \in Syncs, SyncWrite(s)
  PROVE  IndexInv'
  <1>0. PICK m \in Metas, q \in Instances : sync[s].meta = m /\ sync[s].inst = q
    BY SyncAt DEF IndexInv, SyncWrite
  <1>1. PICK f \in sync[s].todo :
          /\ rows' = [rows EXCEPT ![f] = [text |-> Desired[q][f], model |-> model,
                                          dims |-> sync[s].dims]]
          /\ SyncStep(s, sync[s].todo \ {f}, sync[s].gone, TRUE)
    BY <1>0 DEF SyncWrite
  <1>2. /\ sync[s].pc = "write" /\ sync[s] \in Sync /\ model \in Models
        /\ rows \in [Facets -> Row \cup {NoRow}]
        /\ UNCHANGED <<model, endpoint, live, minted, cooling, suppressed, call, calls>>
    BY DEF SyncWrite, IndexInv, TypeOK
  <1>3. holder[m] = s /\ live = m
    BY <1>0, <1>2, InsideAt
  <1> DEFINE row == [text |-> Desired[q][f], model |-> model, dims |-> sync[s].dims]
             todo == sync[s].todo
             gone == sync[s].gone
  <1>4. todo \subseteq Facets /\ gone \subseteq Facets /\ f \in Facets /\ sync[s].dims \in Dims
    BY <1>1, <1>2 DEF Sync
  <1>5. \A g \in Facets : /\ g \in todo => Wants(q, g)
                          /\ g \in gone => ~Wants(q, g)
                          /\ g \notin todo \cup gone => Match(q, g)
    BY <1>0, <1>2 DEF IndexInv, SyncPhase
  <1>6. Desired[q][f] \in Texts /\ Desired[q][f] # NoText
    BY <1>1, <1>4, <1>5, DesiredAssumption DEF Wants
  <1>7. row \in Row /\ row.text = Desired[q][f] /\ row.model = model /\ row # NoRow
    BY <1>2, <1>4, <1>6 DEF Row, NoRow
  <1> HIDE DEF row
  <1>8. rows' = [rows EXCEPT ![f] = row] /\ SyncStep(s, todo \ {f}, gone, TRUE)
    BY <1>1 DEF row
  <1>9. rows' \in [Facets -> Row \cup {NoRow}] /\ rows'[f] = row
        /\ \A g \in Facets : g # f => rows'[g] = rows[g]
    BY <1>2, <1>4, <1>7, <1>8
  <1>10. Match(q, f)'
    BY <1>1, <1>2, <1>4, <1>5, <1>7, <1>9 DEF Match
  <1>11. \A g \in Facets : /\ g \in todo \ {f} => Wants(q, g)
                           /\ g \in gone => ~Wants(q, g)
                           /\ g \notin (todo \ {f}) \cup gone => Match(q, g)'
    <2> SUFFICES ASSUME NEW g \in Facets, g \notin (todo \ {f}) \cup gone
                 PROVE  Match(q, g)'
      BY <1>5
    <2>1. CASE g = f
      BY <1>10, <2>1
    <2>2. CASE g # f
      BY <1>2, <1>5, <1>9, <2>2 DEF Match
    <2> QED BY <2>1, <2>2
  <1> HIDE DEF todo, gone
  <1>12. PICK t \in SUBSET Facets, g \in SUBSET Facets : t = todo \ {f} /\ g = gone
    BY <1>4
  <1>13. SyncStep(s, t, g, TRUE)
    BY <1>8, <1>12
  <1>14. \A h \in Facets : /\ h \in t => Wants(q, h)
                           /\ h \in g => ~Wants(q, h)
                           /\ h \notin t \cup g => Match(q, h)'
    BY <1>11, <1>12
  <1>15. PICK b \in BOOLEAN : b = TRUE
    OBVIOUS
  <1>16. SyncStep(s, t, g, b) /\ sync[s].pc # "idle"
    BY <1>2, <1>13, <1>15
  <1>17. /\ sync[s].changed => b
         /\ rows' = rows \/ b
         /\ live = m \/ (t = {} /\ g = {} /\ ~b)
    BY <1>3, <1>15
  <1>18. rows' \in [Facets -> Row \cup {NoRow}]
    BY <1>9
  <1> QED BY <1>0, <1>2, <1>3, <1>14, <1>16, <1>17, <1>18, SyncStepKeeps

LEMMA SyncDropKeeps ==
  ASSUME IndexInv, NEW s \in Syncs, SyncDrop(s)
  PROVE  IndexInv'
  <1>0. PICK m \in Metas, q \in Instances : sync[s].meta = m /\ sync[s].inst = q
    BY SyncAt DEF IndexInv, SyncDrop
  <1>1. PICK f \in sync[s].gone :
          /\ rows' = [rows EXCEPT ![f] = NoRow]
          /\ SyncStep(s, {}, sync[s].gone \ {f}, TRUE)
    BY <1>0 DEF SyncDrop
  <1>2. /\ sync[s].pc = "write" /\ sync[s] \in Sync /\ sync[s].todo = {}
        /\ rows \in [Facets -> Row \cup {NoRow}]
        /\ UNCHANGED <<model, endpoint, live, minted, cooling, suppressed, call, calls>>
    BY DEF SyncDrop, IndexInv, TypeOK
  <1>3. holder[m] = s /\ live = m
    BY <1>0, <1>2, InsideAt
  <1> DEFINE gone == sync[s].gone
  <1>4. gone \subseteq Facets /\ f \in Facets
    BY <1>1, <1>2 DEF Sync
  <1>5. \A g \in Facets : /\ g \in gone => ~Wants(q, g)
                          /\ g \notin gone => Match(q, g)
    BY <1>0, <1>2 DEF IndexInv, SyncPhase
  <1>6. rows' \in [Facets -> Row \cup {NoRow}] /\ rows'[f] = NoRow
        /\ \A g \in Facets : g # f => rows'[g] = rows[g]
    BY <1>1, <1>2, <1>4
  <1>7. \A g \in Facets : /\ g \in gone \ {f} => ~Wants(q, g)
                          /\ g \notin gone \ {f} => Match(q, g)'
    <2> SUFFICES ASSUME NEW g \in Facets, g \notin gone \ {f}
                 PROVE  Match(q, g)'
      BY <1>5
    <2>1. CASE g = f
      BY <1>1, <1>4, <1>5, <1>6, <2>1 DEF Match
    <2>2. CASE g # f
      BY <1>2, <1>5, <1>6, <2>2 DEF Match
    <2> QED BY <2>1, <2>2
  <1> HIDE DEF gone
  <1>8. PICK g \in SUBSET Facets : g = gone \ {f}
    BY <1>4
  <1>9. SyncStep(s, {}, g, TRUE)
    BY <1>1, <1>8 DEF gone
  <1>10. \A h \in Facets : /\ h \in {} => Wants(q, h)
                           /\ h \in g => ~Wants(q, h)
                           /\ h \notin {} \cup g => Match(q, h)'
    BY <1>7, <1>8
  <1>11. PICK b \in BOOLEAN : b = TRUE
    OBVIOUS
  <1>12. SyncStep(s, {}, g, b) /\ sync[s].pc # "idle" /\ {} \in SUBSET Facets
    BY <1>2, <1>9, <1>11
  <1>13. /\ sync[s].changed => b
         /\ rows' = rows \/ b
         /\ live = m \/ ({} = {} /\ g = {} /\ ~b)
    BY <1>3, <1>11
  <1>14. rows' \in [Facets -> Row \cup {NoRow}]
    BY <1>6
  <1> QED BY <1>0, <1>2, <1>3, <1>10, <1>12, <1>13, <1>14, SyncStepKeeps

\* A memo that was dropped promises nothing.
LEMMA NoMemoKeeps ==
  ASSUME TypeOK, NEW q \in Instances, memo' = [memo EXCEPT ![q] = NoMemo], counter' \in Nat
  PROVE  /\ memo' \in [Instances -> Memo]
         /\ \A p \in Instances : memo'[p] = memo[p] \/ MemoPhase(p)'
  <1>1. NoMemo \in Memo /\ NoMemo.gen = 0 /\ ~NoMemo.done
    BY DEF NoMemo, Memo
  <1>2. memo' \in [Instances -> Memo] /\ memo'[q] = NoMemo
        /\ \A p \in Instances : p # q => memo'[p] = memo[p]
    BY <1>1 DEF TypeOK
  <1>3. MemoPhase(q)'
    BY <1>1, <1>2 DEF MemoPhase
  <1> QED BY <1>2, <1>3

LEMMA SyncFailsKeeps ==
  ASSUME IndexInv, NEW s \in Syncs, SyncFails(s)
  PROVE  IndexInv'
  <1>0. PICK m \in Metas, q \in Instances : sync[s].meta = m /\ sync[s].inst = q
    BY SyncAt DEF IndexInv, SyncFails
  <1>1. holder[m] = s /\ live = m /\ sync[s].pc # "idle"
    BY <1>0, InsideAt DEF SyncFails
  <1>2. /\ SyncEnds(s) /\ Release(m)
        /\ IF sync[s].changed THEN Bump(m) ELSE UNCHANGED <<counter, gen>>
        /\ memo' = IF OwnsMemo(s) THEN [memo EXCEPT ![q] = NoMemo] ELSE memo
        /\ cooling' = cooling \cup {m}
        /\ UNCHANGED <<rows, model, endpoint, live, minted, suppressed, call, calls>>
    BY <1>0 DEF SyncFails
  <1>3. /\ sync' \in [Syncs -> Sync]
        /\ holder' \in [Metas -> Jobs \cup {NoJob}] /\ waiting' \in [Metas -> SUBSET Jobs]
        /\ MutexInv' /\ WriterInv' /\ SyncPhase(s)'
        /\ sync' = [sync EXCEPT ![s] = [@ EXCEPT !.pc = "idle", !.todo = {}, !.gone = {},
                                                 !.changed = FALSE]]
        /\ ~sync[s].changed => (Dirty => Dirty')
    BY <1>0, <1>1, <1>2, SyncLeaves
  <1>4. /\ counter' \in Nat /\ gen' \in [Metas -> Nat] /\ MetaInv' /\ Moves
    <2>1. CASE sync[s].changed
      <3>1. /\ counter' \in Nat /\ gen' \in [Metas -> Nat] /\ MetaInv' /\ counter' >= counter
            /\ \A n \in Metas : gen'[n] = gen[n] \/ gen'[n] > counter
            /\ gen'[m] > counter
        BY <1>2, <2>1, BumpKeeps DEF IndexInv
      <3> QED BY <1>1, <1>2, <3>1 DEF Moves
    <2>2. CASE ~sync[s].changed
      <3>1. counter' = counter /\ gen' = gen
        BY <1>2, <2>2
      <3>2. MetaInv' /\ counter \in Nat /\ gen \in [Metas -> Nat]
        BY <1>2, <3>1 DEF IndexInv, TypeOK, MetaInv
      <3> QED BY <1>2, <1>3, <2>2, <3>1, <3>2 DEF Moves
    <2> QED BY <2>1, <2>2
  <1>5. /\ memo' \in [Instances -> Memo]
        /\ \A p \in Instances : memo'[p] = memo[p] \/ MemoPhase(p)'
    <2>1. CASE OwnsMemo(s)
      BY <1>2, <1>4, <2>1, NoMemoKeeps DEF IndexInv
    <2>2. CASE ~OwnsMemo(s)
      BY <1>2, <2>2 DEF IndexInv, TypeOK
    <2> QED BY <2>1, <2>2
  <1>6. TypeOK'
    BY <1>2, <1>3, <1>4, <1>5 DEF IndexInv, TypeOK
  <1> QED BY <1>2, <1>3, <1>4, <1>5, <1>6, SyncKeeps

LEMMA KickSyncKeeps ==
  ASSUME IndexInv, NEW q \in Instances, KickSync(q)
  PROVE  IndexInv'
  <1>1. PICK m \in Metas, s \in Syncs :
          /\ MetaFor(m)
          /\ sync[s].pc = "idle"
          /\ sync' = [sync EXCEPT ![s] = [@ EXCEPT !.pc = "queued", !.inst = q, !.meta = m,
                                                   !.changed = FALSE]]
          /\ memo' = [memo EXCEPT ![q] = [sync |-> s, done |-> FALSE, gen |-> gen'[m]]]
          /\ Acquire(s, m)
    BY DEF KickSync
  <1>2. calls' = calls + 1 /\ calls < MaxCalls
        /\ UNCHANGED <<rows, model, endpoint, cooling, suppressed, call>>
    BY DEF KickSync
  <1>3. /\ counter' \in Nat /\ live' = m /\ minted' \subseteq Metas /\ gen' \in [Metas -> Nat]
        /\ m \in minted' /\ MetaInv' /\ (live' = live \/ live = NoMeta)
        /\ minted \subseteq minted' /\ counter' >= counter
        /\ \A n \in Metas : gen'[n] = gen[n] \/ gen'[n] > counter
        /\ gen'[m] <= counter'
        /\ live' = live \/ gen'[live'] > counter
    BY <1>1, MetaForKeeps DEF IndexInv
  <1> DEFINE r == [sync[s] EXCEPT !.pc = "queued", !.inst = q, !.meta = m, !.changed = FALSE]
             e == [sync |-> s, done |-> FALSE, gen |-> gen'[m]]
  <1>4. sync \in [Syncs -> Sync] /\ sync[s] \in Sync /\ memo \in [Instances -> Memo] /\ s \in Jobs
    BY DEF IndexInv, TypeOK, Jobs
  <1>5. r \in Sync /\ r.pc = "queued" /\ r.meta = m /\ ~r.changed
    BY <1>4 DEF Sync
  <1>6. e \in Memo /\ e.gen = gen'[m] /\ ~e.done
    BY <1>3 DEF Memo
  <1>7. sync' = [sync EXCEPT ![s] = r] /\ memo' = [memo EXCEPT ![q] = e]
    BY <1>1
  <1> HIDE DEF r, e
  <1>8. sync' \in [Syncs -> Sync] /\ sync'[s] = r
    BY <1>4, <1>5, <1>7
  <1>9. memo' \in [Instances -> Memo] /\ memo'[q] = e
        /\ \A p \in Instances : p # q => memo'[p] = memo[p]
    BY <1>4, <1>6, <1>7
  <1>10. calls' \in 0 .. MaxCalls
    BY <1>2, NamesAssumption DEF IndexInv, TypeOK
  <1>11. holder' \in [Metas -> Jobs \cup {NoJob}] /\ waiting' \in [Metas -> SUBSET Jobs]
    BY <1>1, <1>4, MutexTypes DEF IndexInv
  <1>12. TypeOK'
    BY <1>2, <1>3, <1>8, <1>9, <1>10, <1>11 DEF IndexInv, TypeOK
  <1>13. Others(s) /\ \A n \in Metas : (Ask(s, n)' <=> n = m) /\ ~In(s, n)'
    BY <1>2, <1>4, <1>5, <1>7, SyncMoves
  <1>14. \A n \in Metas : ~In(s, n) /\ ~Ask(s, n)
    BY <1>1, NamesAssumption DEF In, Ask
  <1>15. MutexInv'
    BY <1>1, <1>4, <1>13, <1>14, AcquireKeeps DEF IndexInv
  <1>16. WriterInv'
    BY <1>3, <1>4, <1>13, WriterStays DEF IndexInv
  <1>17. Dirty => Dirty'
    BY <1>1, <1>4, <1>7, DirtyStays
  <1>18. Moves
    BY <1>2, <1>3, <1>17, NamesAssumption DEF Moves
  <1>19. SyncPhase(s)'
    BY <1>3, <1>5, <1>8 DEF SyncPhase
  <1>20. MemoPhase(q)'
    BY <1>3, <1>6, <1>9 DEF MemoPhase
  <1> QED BY <1>2, <1>3, <1>7, <1>9, <1>12, <1>15, <1>16, <1>18, <1>19, <1>20, SyncKeeps

-----------------------------------------------------------------------------
(* Steps that move no job *)

LEMMA StillKeeps ==
  ASSUME IndexInv, TypeOK', MetaInv', Moves, live' = live \/ live = NoMeta,
         UNCHANGED <<rows, mutexVars, memo, sync, call>>
  PROVE  IndexInv'
  <1>1. \A j \in Jobs, n \in Metas : (In(j, n)' <=> In(j, n)) /\ (Ask(j, n)' <=> Ask(j, n))
    BY DEF In, Ask
  <1>2. MutexInv'
    BY <1>1 DEF IndexInv, MutexInv, mutexVars
  <1>3. NoMeta \notin Metas
    BY NamesAssumption
  <1>4. WriterInv'
    BY <1>1, <1>3 DEF IndexInv, WriterInv
  <1>5. ASSUME NEW t \in Syncs PROVE SyncPhase(t)'
    BY SyncStays DEF IndexInv, Moves
  <1>6. ASSUME NEW p \in Instances PROVE MemoPhase(p)'
    BY MemoStays DEF IndexInv
  <1>7. ASSUME NEW c \in Calls PROVE CallPhase(c)'
    BY CallStays DEF IndexInv
  <1> QED BY <1>2, <1>4, <1>5, <1>6, <1>7 DEF IndexInv

LEMMA FindIndexingKeeps ==
  ASSUME IndexInv, NEW p \in Instances, FindIndexing(p)
  PROVE  IndexInv'
  <1>1. PICK m \in Metas : MetaFor(m)
    BY DEF FindIndexing
  <1>2. calls' = calls + 1 /\ calls < MaxCalls
        /\ UNCHANGED <<rows, model, endpoint, mutexVars, cooling, suppressed, memo, sync, call>>
    BY DEF FindIndexing
  <1>3. /\ counter' \in Nat /\ live' = m /\ minted' \subseteq Metas /\ gen' \in [Metas -> Nat]
        /\ MetaInv' /\ (live' = live \/ live = NoMeta)
        /\ minted \subseteq minted' /\ counter' >= counter
        /\ \A n \in Metas : gen'[n] = gen[n] \/ gen'[n] > counter
        /\ live' = live \/ gen'[live'] > counter
    BY <1>1, MetaForKeeps DEF IndexInv
  <1>4. calls' \in 0 .. MaxCalls
    BY <1>2, NamesAssumption DEF IndexInv, TypeOK
  <1>5. TypeOK'
    BY <1>2, <1>3, <1>4 DEF IndexInv, TypeOK, mutexVars
  <1>6. Dirty => Dirty'
    BY <1>2 DEF Dirty
  <1>7. Moves
    BY <1>2, <1>3, <1>6, NamesAssumption DEF Moves
  <1> QED BY <1>2, <1>3, <1>5, <1>7, StillKeeps

LEMMA WorldKeeps ==
  ASSUME IndexInv,
         \/ EndpointChanges \/ CooldownEnds \/ SuppressionEnds
         \/ UNCHANGED vars
  PROVE  IndexInv'
  <1>1. UNCHANGED <<rows, model, metaVars, mutexVars, memo, sync, call, calls>>
    BY DEF EndpointChanges, CooldownEnds, SuppressionEnds, vars, metaVars, mutexVars
  <1>2. endpoint' \in Dims /\ cooling' \subseteq Metas /\ suppressed' \subseteq Metas
    BY DEF EndpointChanges, CooldownEnds, SuppressionEnds, vars, IndexInv, TypeOK
  <1>3. TypeOK'
    BY <1>1, <1>2 DEF IndexInv, TypeOK, metaVars, mutexVars
  <1>4. MetaInv' /\ counter \in Nat
    BY <1>1 DEF IndexInv, TypeOK, MetaInv, metaVars
  <1>5. Dirty => Dirty'
    BY <1>1 DEF Dirty
  <1>6. Moves
    BY <1>1, <1>4, <1>5 DEF Moves, metaVars
  <1> QED BY <1>1, <1>3, <1>4, <1>6, StillKeeps DEF metaVars

-----------------------------------------------------------------------------
(* The search and its heal *)

\* What a fresh process holds for a call is a call, and an idle one.
LEMMA IdleCall ==
  ASSUME NEW c \in Calls, endpoint \in Dims
  PROVE  FreshProcess.call[c] \in Call /\ FreshProcess.call[c].pc = "idle"
  <1> DEFINE a == CHOOSE p \in Instances : TRUE
             b == CHOOSE d \in Dims : TRUE
  <1>1. a \in Instances
    BY NamesAssumption
  <1>2. b \in Dims
    OBVIOUS
  <1>3. [f \in Facets |-> NoText] \in [Facets -> Texts \cup {NoText}]
    OBVIOUS
  <1>4. FreshProcess.call[c] =
          [pc |-> "idle", inst |-> a, meta |-> NoMeta, gen |-> 0, dims |-> b,
           seen |-> [f \in Facets |-> NoText], skipped |-> FALSE, whole |-> FALSE]
    BY DEF FreshProcess
  <1> HIDE DEF a, b
  <1> QED BY <1>1, <1>2, <1>3, <1>4 DEF Call

\* A search or a deletion that works under a meta works under a minted one.
LEMMA CallAt ==
  ASSUME NEW c \in Calls, TypeOK, CallPhase(c)
  PROVE  /\ call[c] \in Call /\ call[c].inst \in Instances /\ call[c].gen \in Nat
         /\ call[c].pc \in Bound => call[c].meta \in Metas /\ call[c].meta \in minted
  BY DEF TypeOK, CallPhase, Call

\* A call that holds no mutex and asks for none, before or after its step.
LEMMA CallGoesOn ==
  ASSUME IndexInv, NEW c \in Calls, NEW r \in Call, call' = [call EXCEPT ![c] = r],
         call[c].pc \notin {"heal", "purge", "delete"}, r.pc \notin {"heal", "purge", "delete"},
         cooling' \subseteq Metas, calls' \in 0 .. MaxCalls,
         UNCHANGED <<rows, model, endpoint, metaVars, mutexVars, suppressed, memo, sync>>,
         CallPhase(c)'
  PROVE  IndexInv'
  <1>1. call \in [Calls -> Call] /\ c \in Jobs /\ counter \in Nat
    BY DEF IndexInv, TypeOK, Jobs
  <1>2. TypeOK'
    BY DEF IndexInv, TypeOK, metaVars, mutexVars
  <1>3. Others(c) /\ \A n \in Metas : ~In(c, n)' /\ ~Ask(c, n)'
    BY <1>1, CallMoves
  <1>4. \A n \in Metas : ~In(c, n) /\ ~Ask(c, n)
    BY NamesAssumption DEF In, Ask
  <1>5. MutexInv'
    BY <1>1, <1>3, <1>4, StaysPut DEF IndexInv
  <1>6. WriterInv'
    BY <1>1, <1>3, WriterStays DEF IndexInv, metaVars
  <1>7. MetaInv'
    BY DEF IndexInv, MetaInv, metaVars
  <1>8. Dirty => Dirty'
    BY DEF Dirty
  <1>9. Moves
    BY <1>1, <1>8 DEF Moves, metaVars
  <1> QED BY <1>2, <1>5, <1>6, <1>7, <1>9, CallKeeps

\* An idle call, or one between two entries of the map, has nothing to keep.
LEMMA CallRests ==
  ASSUME NEW c \in Calls, NEW r \in Call, call \in [Calls -> Call],
         call' = [call EXCEPT ![c] = r], r.pc \in {"idle", "loop"}
  PROVE  CallPhase(c)'
  <1>1. call'[c] = r
    OBVIOUS
  <1> QED BY <1>1 DEF CallPhase, Bound

\* A call that returns without having held a mutex.
LEMMA CallReturns ==
  ASSUME IndexInv, NEW c \in Calls, Return(c),
         call[c].pc \notin {"heal", "purge", "delete"},
         cooling' \subseteq Metas, calls' = calls,
         UNCHANGED <<rows, model, endpoint, metaVars, mutexVars, suppressed, memo, sync>>
  PROVE  IndexInv'
  <1> DEFINE r == FreshProcess.call[c]
  <1>1. r \in Call /\ r.pc = "idle"
    BY IdleCall DEF IndexInv, TypeOK
  <1>2. call' = [call EXCEPT ![c] = r]
    BY DEF Return, Search
  <1> HIDE DEF r
  <1>3. CallPhase(c)'
    BY <1>1, <1>2, CallRests DEF IndexInv, TypeOK
  <1>4. calls' \in 0 .. MaxCalls
    BY DEF IndexInv, TypeOK
  <1>5. r.pc \notin {"heal", "purge", "delete"}
    BY <1>1
  <1> QED BY <1>1, <1>2, <1>3, <1>4, <1>5, CallGoesOn

LEMMA SearchEnterKeeps ==
  ASSUME IndexInv, NEW c \in Calls, NEW p \in Instances, SearchEnter(c, p)
  PROVE  IndexInv'
  <1> DEFINE r == [call[c] EXCEPT !.pc = "embed", !.inst = p, !.meta = live, !.gen = gen[live]]
  <1>1. /\ live # NoMeta /\ memo[p].done /\ memo[p].gen = gen[live] /\ call[c].pc = "idle"
        /\ call' = [call EXCEPT ![c] = r]
        /\ UNCHANGED <<rows, model, endpoint, metaVars, mutexVars, cooling, suppressed, memo, sync>>
    BY DEF SearchEnter, Search
  <1>2. calls' \in 0 .. MaxCalls
    BY NamesAssumption DEF SearchEnter, IndexInv, TypeOK
  <1>3. call[c] \in Call /\ call \in [Calls -> Call] /\ live \in Metas /\ gen[live] \in Nat
        /\ live \in minted /\ gen[live] <= counter
    BY <1>1 DEF IndexInv, TypeOK, MetaInv
  <1>4. r \in Call /\ r.pc = "embed" /\ r.inst = p /\ r.meta = live /\ r.gen = gen[live]
    BY <1>3 DEF Call
  <1> HIDE DEF r
  <1>5. call'[c] = r
    BY <1>1, <1>3
  <1>6. Dirty \/ Whole(p)
    BY <1>1 DEF IndexInv, MemoPhase, Valid
  <1>7. Dirty' \/ Whole(p)'
    BY <1>1, <1>6 DEF Dirty, Whole, Match
  <1>8. CallPhase(c)'
    BY <1>1, <1>3, <1>4, <1>5, <1>7 DEF CallPhase, Valid, Whole, Match, Wants, metaVars
  <1>9. cooling' \subseteq Metas /\ call[c].pc \notin {"heal", "purge", "delete"}
        /\ r.pc \notin {"heal", "purge", "delete"}
    BY <1>1, <1>4 DEF IndexInv, TypeOK
  <1> QED BY <1>1, <1>2, <1>4, <1>8, <1>9, CallGoesOn

LEMMA SearchEmbedKeeps ==
  ASSUME IndexInv, NEW c \in Calls, SearchEmbed(c)
  PROVE  IndexInv'
  <1> DEFINE r == [call[c] EXCEPT !.pc = "scan", !.dims = endpoint]
  <1>1. /\ call[c].pc = "embed" /\ call' = [call EXCEPT ![c] = r]
        /\ UNCHANGED <<rows, model, endpoint, metaVars, mutexVars, cooling, suppressed, memo, sync,
                       calls>>
    BY DEF SearchEmbed, Search
  <1>2. call[c] \in Call /\ call \in [Calls -> Call] /\ endpoint \in Dims /\ cooling \subseteq Metas
        /\ calls \in 0 .. MaxCalls
    BY DEF IndexInv, TypeOK
  <1>3. r \in Call /\ r.pc = "scan" /\ r.inst = call[c].inst /\ r.meta = call[c].meta
        /\ r.gen = call[c].gen
    BY <1>2 DEF Call
  <1> HIDE DEF r
  <1>4. call'[c] = r
    BY <1>1, <1>2
  <1>5. PICK q \in Instances, g \in Nat : q = call[c].inst /\ g = call[c].gen
    BY CallAt DEF IndexInv
  <1>6. /\ g <= counter /\ Valid(q, g) /\ (gen[call[c].meta] = g => live = call[c].meta)
        /\ call[c].meta \in minted
    BY <1>1, <1>5 DEF IndexInv, CallPhase, Bound
  <1>7. Valid(q, g)'
    BY <1>1, <1>6 DEF Valid, Dirty, Whole, Match, metaVars
  <1>8. CallPhase(c)'
    BY <1>1, <1>3, <1>4, <1>5, <1>6, <1>7 DEF CallPhase, Valid, Whole, Match, Wants, metaVars
  <1>9. call[c].pc \notin {"heal", "purge", "delete"} /\ r.pc \notin {"heal", "purge", "delete"}
    BY <1>1, <1>3
  <1> QED BY <1>1, <1>2, <1>3, <1>8, <1>9, CallGoesOn

LEMMA SearchEmbedFailsKeeps ==
  ASSUME IndexInv, NEW c \in Calls, SearchEmbedFails(c)
  PROVE  IndexInv'
  <1>1. call[c].meta \in Metas
    BY CallAt DEF IndexInv, SearchEmbedFails, Bound
  <1>2. cooling' \subseteq Metas
    BY <1>1 DEF SearchEmbedFails, IndexInv, TypeOK
  <1> QED BY <1>2, CallReturns DEF SearchEmbedFails

\* The heart of the search: a scan nobody held the mutex over, in the generation
\* the call began in, has read a whole table.
LEMMA ScanIsWhole ==
  ASSUME IndexInv, NEW c \in Calls, call[c].pc = "scan", holder[call[c].meta] = NoJob,
         gen[call[c].meta] = call[c].gen, StaleRows(call[c].dims) = {}
  PROVE  [f \in Facets |-> IF IsCurrent(f, call[c].dims) THEN rows[f].text ELSE NoText]
           = Desired[call[c].inst]
  <1>1. PICK m \in Metas, q \in Instances, g \in Nat :
          call[c].meta = m /\ call[c].inst = q /\ call[c].gen = g
    BY CallAt DEF IndexInv, Bound
  <1>2. live = m
    BY <1>1 DEF IndexInv, CallPhase
  <1>3. ~Dirty
    <2> SUFFICES ASSUME NEW s \in Syncs, sync[s].pc = "write" PROVE FALSE
      BY DEF Dirty
    <2>1. holder[m] = s
      BY <1>2, InsideAt
    <2> QED BY <1>1, <2>1, NamesAssumption DEF Jobs
  <1>4. Valid(q, g)
    BY <1>1 DEF IndexInv, CallPhase
  <1>5. Whole(q)
    BY <1>1, <1>2, <1>3, <1>4, NamesAssumption DEF Valid
  <1>6. \A f \in Facets : rows[f] # NoRow => IsCurrent(f, call[c].dims)
    BY DEF StaleRows
  <1>7. \A f \in Facets :
          (IF IsCurrent(f, call[c].dims) THEN rows[f].text ELSE NoText) = Desired[q][f]
    <2> TAKE f \in Facets
    <2>1. CASE Wants(q, f)
      BY <1>5, <1>6, <2>1 DEF Whole, Match
    <2>2. CASE ~Wants(q, f)
      BY <1>5, <2>2 DEF Whole, Match, Wants, IsCurrent
    <2> QED BY <2>1, <2>2
  <1>8. Desired[q] \in [Facets -> Texts \cup {NoText}]
    BY DesiredAssumption
  <1> QED BY <1>1, <1>7, <1>8

LEMMA SearchScanKeeps ==
  ASSUME IndexInv, NEW c \in Calls, SearchScan(c)
  PROVE  IndexInv'
  <1>1. /\ call[c].pc = "scan"
        /\ UNCHANGED <<rows, model, endpoint, metaVars, mutexVars, cooling, suppressed, memo, sync,
                       calls>>
    BY DEF SearchScan
  <1>2. call[c] \in Call /\ call \in [Calls -> Call] /\ cooling \subseteq Metas
        /\ calls \in 0 .. MaxCalls /\ rows \in [Facets -> Row \cup {NoRow}]
    BY DEF IndexInv, TypeOK
  <1>3. CASE holder[call[c].meta] # NoJob
    <2>1. Return(c)
      BY <1>3 DEF SearchScan
    <2> QED BY <1>1, <1>2, <2>1, CallReturns
  <1>4. CASE holder[call[c].meta] = NoJob
    <2> DEFINE seen == [f \in Facets |-> IF IsCurrent(f, call[c].dims) THEN rows[f].text
                                         ELSE NoText]
               skipped == StaleRows(call[c].dims) # {}
               r == [call[c] EXCEPT !.pc = "stale", !.seen = seen, !.skipped = skipped]
    <2>1. call' = [call EXCEPT ![c] = r]
      BY <1>4 DEF SearchScan, Search, Scanned
    <2>2. seen \in [Facets -> Texts \cup {NoText}] /\ skipped \in BOOLEAN
      BY <1>2 DEF IsCurrent, Row
    <2>3. ~skipped /\ gen[call[c].meta] = call[c].gen => seen = Desired[call[c].inst]
      BY <1>1, <1>4, ScanIsWhole
    <2> HIDE DEF seen, skipped
    <2>4. r \in Call /\ r.pc = "stale" /\ r.inst = call[c].inst /\ r.meta = call[c].meta
          /\ r.gen = call[c].gen /\ r.seen = seen
      BY <1>2, <2>2 DEF Call
    <2>5. r.skipped = skipped
      BY <1>2 DEF Call
    <2> HIDE DEF r
    <2>6. call'[c] = r
      BY <1>2, <2>1
    <2>7. r.meta \in minted /\ r.gen <= counter
      BY <1>1, <2>4 DEF IndexInv, CallPhase, Bound
    <2>8. ~r.skipped /\ gen[r.meta] = r.gen => r.seen = Desired[r.inst]
      BY <2>3, <2>4, <2>5
    <2>9. CallPhase(c)'
      BY <1>1, <2>4, <2>6, <2>7, <2>8 DEF CallPhase, metaVars
    <2>10. call[c].pc \notin {"heal", "purge", "delete"} /\ r.pc \notin {"heal", "purge", "delete"}
      BY <1>1, <2>4
    <2> QED BY <1>1, <1>2, <2>1, <2>4, <2>9, <2>10, CallGoesOn
  <1> QED BY <1>3, <1>4

\* Conclude answers with what the scan read only in the generation of the call.
LEMMA ConcludeAnswers ==
  ASSUME IndexInv, NEW c \in Calls, call[c].pc \in {"stale", "heal"}, Conclude(c)
  PROVE  \E r \in Call : /\ call' = [call EXCEPT ![c] = r]
                         /\ r.pc \in {"idle", "hits"}
                         /\ CallPhase(c)'
  <1>0. call \in [Calls -> Call] /\ call[c] \in Call /\ endpoint \in Dims
    BY DEF IndexInv, TypeOK
  <1>1. CASE gen[call[c].meta] # call[c].gen
    <2>1. call' = [call EXCEPT ![c] = FreshProcess.call[c]]
      BY <1>1 DEF Conclude, Return, Search
    <2>2. FreshProcess.call[c] \in Call /\ FreshProcess.call[c].pc = "idle"
      BY <1>0, IdleCall
    <2> DEFINE r == FreshProcess.call[c]
    <2> HIDE DEF r
    <2>3. r \in Call /\ r.pc \in {"idle", "loop"} /\ call' = [call EXCEPT ![c] = r]
      BY <2>1, <2>2 DEF r
    <2>4. CallPhase(c)'
      BY <1>0, <2>3, CallRests
    <2>5. r.pc \in {"idle", "hits"}
      BY <2>2 DEF r
    <2> QED BY <2>3, <2>4, <2>5
  <1>2. CASE gen[call[c].meta] = call[c].gen
    <2> DEFINE r == [call[c] EXCEPT !.pc = "hits"]
    <2>1. call' = [call EXCEPT ![c] = r]
      BY <1>2 DEF Conclude, Goto, Search
    <2>2. r \in Call /\ r.pc = "hits" /\ r.inst = call[c].inst /\ r.seen = call[c].seen
      BY <1>0 DEF Call
    <2>3. r.skipped = call[c].skipped
      BY <1>0 DEF Call
    <2> HIDE DEF r
    <2>4. call'[c] = r
      BY <1>0, <2>1
    <2>5. ~call[c].skipped => call[c].seen = Desired[call[c].inst]
      BY <1>2 DEF IndexInv, CallPhase
    <2>6. CallPhase(c)'
      BY <2>2, <2>3, <2>4, <2>5 DEF CallPhase, Bound
    <2> QED BY <2>1, <2>2, <2>6
  <1> QED BY <1>1, <1>2

LEMMA SearchStaleKeeps ==
  ASSUME IndexInv, NEW c \in Calls, SearchStale(c)
  PROVE  IndexInv'
  <1>0. PICK m \in Metas : call[c].meta = m
    BY CallAt DEF IndexInv, SearchStale, Bound
  <1>1. /\ call[c].pc = "stale"
        /\ UNCHANGED <<rows, model, endpoint, metaVars, waiting, cooling, suppressed, memo, sync,
                       calls>>
    BY DEF SearchStale
  <1>2. call[c] \in Call /\ call \in [Calls -> Call] /\ cooling \subseteq Metas
        /\ calls \in 0 .. MaxCalls /\ c \in Jobs /\ counter \in Nat
    BY DEF IndexInv, TypeOK, Jobs
  <1>3. CASE Conclude(c) /\ UNCHANGED holder
    <2>1. PICK r \in Call : /\ call' = [call EXCEPT ![c] = r]
                            /\ r.pc \in {"idle", "hits"}
                            /\ CallPhase(c)'
      BY <1>1, <1>3, ConcludeAnswers
    <2>2. call[c].pc \notin {"heal", "purge", "delete"} /\ r.pc \notin {"heal", "purge", "delete"}
      BY <1>1, <2>1
    <2> QED BY <1>1, <1>2, <1>3, <2>1, <2>2, CallGoesOn DEF mutexVars
  <1>4. CASE Return(c) /\ UNCHANGED holder
    BY <1>1, <1>2, <1>4, CallReturns DEF mutexVars
  <1>5. CASE holder[m] = NoJob /\ live = m /\ holder' = [holder EXCEPT ![m] = c] /\ Goto(c, "heal")
    <2> DEFINE r == [call[c] EXCEPT !.pc = "heal"]
    <2>1. call' = [call EXCEPT ![c] = r]
      BY <1>5 DEF Goto, Search
    <2>2. r \in Call /\ r.pc = "heal" /\ r.inst = call[c].inst /\ r.meta = call[c].meta
          /\ r.gen = call[c].gen /\ r.seen = call[c].seen
      BY <1>2 DEF Call
    <2>3. r.skipped = call[c].skipped
      BY <1>2 DEF Call
    <2> HIDE DEF r
    <2>4. call'[c] = r /\ call' \in [Calls -> Call]
      BY <1>2, <2>1, <2>2
    <2>5. CallPhase(c)'
      BY <1>1, <2>2, <2>3, <2>4 DEF IndexInv, CallPhase, Bound, metaVars
    <2>6. Others(c) /\ \A n \in Metas : (In(c, n)' <=> n = m) /\ ~Ask(c, n)'
      BY <1>0, <1>1, <1>2, <2>1, <2>2, CallMoves
    <2>7. \A n \in Metas : ~In(c, n) /\ ~Ask(c, n)
      BY <1>1, NamesAssumption DEF In, Ask
    <2>8. MutexInv'
      BY <1>1, <1>2, <1>5, <2>6, <2>7, TakeKeeps DEF IndexInv
    <2>9. WriterInv'
      BY <1>1, <1>2, <1>5, <2>6, WriterStays DEF IndexInv, metaVars
    <2>10. holder' \in [Metas -> Jobs \cup {NoJob}]
      BY <1>2, <1>5 DEF IndexInv, TypeOK
    <2>11. TypeOK'
      BY <1>1, <2>4, <2>10 DEF IndexInv, TypeOK, metaVars
    <2>12. MetaInv'
      BY <1>1 DEF IndexInv, MetaInv, metaVars
    <2>13. Dirty => Dirty'
      BY <1>1 DEF Dirty
    <2>14. Moves
      BY <1>1, <1>2, <2>13 DEF Moves, metaVars
    <2> QED BY <1>1, <2>1, <2>5, <2>8, <2>9, <2>11, <2>12, <2>14, CallKeeps
  <1> QED BY <1>0, <1>3, <1>4, <1>5 DEF SearchStale

\* A heal or a deletion that goes gives its mutex back.
LEMMA CallLetsGo ==
  ASSUME IndexInv, NEW c \in Calls, NEW m \in Metas, NEW r \in Call,
         call' = [call EXCEPT ![c] = r], sync' = sync, holder[m] = c,
         r.pc \notin {"heal", "purge", "delete"}, Release(m)
  PROVE  /\ call' \in [Calls -> Call]
         /\ holder' \in [Metas -> Jobs \cup {NoJob}] /\ waiting' \in [Metas -> SUBSET Jobs]
         /\ MutexInv'
         /\ Others(c) /\ \A n \in Metas : ~In(c, n)'
  <1>1. call \in [Calls -> Call] /\ c \in Jobs
    BY DEF IndexInv, TypeOK, Jobs
  <1>2. Others(c) /\ \A n \in Metas : ~In(c, n)' /\ ~Ask(c, n)'
    BY <1>1, CallMoves
  <1>3. MutexInv'
    BY <1>1, <1>2, ReleaseKeeps DEF IndexInv
  <1>4. holder' \in [Metas -> Jobs \cup {NoJob}] /\ waiting' \in [Metas -> SUBSET Jobs]
    BY MutexTypes DEF IndexInv
  <1>5. call' \in [Calls -> Call]
    BY <1>1
  <1> QED BY <1>2, <1>3, <1>4, <1>5

\* A heal or a deletion that goes and has changed nothing.
LEMMA CallGivesUp ==
  ASSUME IndexInv, NEW c \in Calls, NEW m \in Metas, NEW r \in Call,
         call' = [call EXCEPT ![c] = r], holder[m] = c,
         r.pc \notin {"heal", "purge", "delete"}, Release(m),
         cooling' \subseteq Metas,
         UNCHANGED <<rows, model, endpoint, metaVars, suppressed, memo, sync, calls>>,
         CallPhase(c)'
  PROVE  IndexInv'
  <1>1. /\ call' \in [Calls -> Call]
        /\ holder' \in [Metas -> Jobs \cup {NoJob}] /\ waiting' \in [Metas -> SUBSET Jobs]
        /\ MutexInv'
        /\ Others(c) /\ \A n \in Metas : ~In(c, n)'
    BY CallLetsGo
  <1>2. TypeOK'
    BY <1>1 DEF IndexInv, TypeOK, metaVars
  <1>3. MetaInv' /\ counter \in Nat
    BY DEF IndexInv, MetaInv, TypeOK, metaVars
  <1>4. WriterInv'
    BY <1>1, WriterStays DEF IndexInv, metaVars, Jobs
  <1>5. Dirty => Dirty'
    BY DEF Dirty
  <1>6. Moves
    BY <1>3, <1>5 DEF Moves, metaVars
  <1> QED BY <1>1, <1>2, <1>3, <1>4, <1>6, CallKeeps

\* The same for a call that returns.
LEMMA CallAbandons ==
  ASSUME IndexInv, NEW c \in Calls, NEW m \in Metas, Return(c), holder[m] = c, Release(m),
         cooling' \subseteq Metas,
         UNCHANGED <<rows, model, endpoint, metaVars, suppressed, memo, sync, calls>>
  PROVE  IndexInv'
  <1> DEFINE r == FreshProcess.call[c]
  <1>1. r \in Call /\ r.pc = "idle"
    BY IdleCall DEF IndexInv, TypeOK
  <1>2. call' = [call EXCEPT ![c] = r]
    BY DEF Return, Search
  <1> HIDE DEF r
  <1>3. CallPhase(c)'
    BY <1>1, <1>2, CallRests DEF IndexInv, TypeOK
  <1>4. r.pc \notin {"heal", "purge", "delete"}
    BY <1>1
  <1> QED BY <1>1, <1>2, <1>3, <1>4, CallGivesUp

\* A heal that is inside holds the mutex of the live entry.
LEMMA HealAt ==
  ASSUME IndexInv, NEW c \in Calls, call[c].pc \in {"heal", "purge"}
  PROVE  call[c].meta \in Metas /\ holder[call[c].meta] = c /\ live = call[c].meta
  <1>1. call[c].meta \in Metas /\ c \in Jobs
    BY CallAt DEF IndexInv, Bound, Jobs
  <1>2. In(c, call[c].meta)
    BY DEF In
  <1> QED BY <1>1, <1>2 DEF IndexInv, MutexInv, WriterInv

LEMMA HealCheckKeeps ==
  ASSUME IndexInv, NEW c \in Calls, HealCheck(c)
  PROVE  IndexInv'
  <1>0. PICK m \in Metas : call[c].meta = m /\ holder[m] = c /\ live = m
    BY HealAt DEF HealCheck
  <1>1. /\ call[c].pc = "heal"
        /\ UNCHANGED <<rows, model, endpoint, metaVars, suppressed, memo, sync, calls>>
    BY DEF HealCheck
  <1>2. call[c] \in Call /\ call \in [Calls -> Call] /\ cooling \subseteq Metas /\ c \in Jobs
        /\ counter \in Nat
    BY DEF IndexInv, TypeOK, Jobs
  <1>3. CASE Conclude(c) /\ Release(m) /\ UNCHANGED cooling
    <2>1. PICK r \in Call : /\ call' = [call EXCEPT ![c] = r]
                            /\ r.pc \in {"idle", "hits"}
                            /\ CallPhase(c)'
      BY <1>1, <1>3, ConcludeAnswers
    <2>2. r.pc \notin {"heal", "purge", "delete"} /\ cooling' \subseteq Metas
      BY <1>2, <1>3, <2>1
    <2> QED BY <1>0, <1>1, <1>3, <2>1, <2>2, CallGivesUp
  <1>4. CASE cooling' = cooling \cup {m} /\ Return(c) /\ Release(m)
    <2>1. cooling' \subseteq Metas
      BY <1>2, <1>4
    <2> QED BY <1>0, <1>1, <1>4, <2>1, CallAbandons
  <1>5. CASE Goto(c, "purge") /\ UNCHANGED <<mutexVars, cooling>>
    <2> DEFINE r == [call[c] EXCEPT !.pc = "purge"]
    <2>1. call' = [call EXCEPT ![c] = r]
      BY <1>5 DEF Goto, Search
    <2>2. r \in Call /\ r.pc = "purge" /\ r.inst = call[c].inst /\ r.meta = call[c].meta
          /\ r.gen = call[c].gen /\ r.seen = call[c].seen
      BY <1>2 DEF Call
    <2>3. r.skipped = call[c].skipped
      BY <1>2 DEF Call
    <2> HIDE DEF r
    <2>4. call'[c] = r /\ call' \in [Calls -> Call]
      BY <1>2, <2>1, <2>2
    <2>5. CallPhase(c)'
      BY <1>1, <2>2, <2>3, <2>4 DEF IndexInv, CallPhase, Bound, metaVars
    <2>6. Others(c) /\ \A n \in Metas : (In(c, n)' <=> n = m) /\ ~Ask(c, n)'
      <3>1. r.meta = m /\ r.pc = "purge" /\ sync' = sync
        BY <1>0, <1>1, <2>2
      <3> QED BY <1>2, <2>1, <3>1, CallMoves
    <2>7. MutexInv'
      BY <1>0, <1>2, <1>5, <2>6, GoesIn DEF IndexInv
    <2>8. WriterInv'
      BY <1>0, <1>1, <1>2, <2>6, WriterStays DEF IndexInv, metaVars
    <2>9. TypeOK'
      BY <1>1, <1>5, <2>4 DEF IndexInv, TypeOK, metaVars, mutexVars
    <2>10. MetaInv'
      BY <1>1 DEF IndexInv, MetaInv, metaVars
    <2>11. Dirty => Dirty'
      BY <1>1 DEF Dirty
    <2>12. Moves
      BY <1>1, <1>2, <2>11 DEF Moves, metaVars
    <2> QED BY <1>1, <2>1, <2>5, <2>7, <2>8, <2>9, <2>10, <2>12, CallKeeps
  <1> QED BY <1>0, <1>3, <1>4, <1>5 DEF HealCheck

LEMMA HealPurgeKeeps ==
  ASSUME IndexInv, NEW c \in Calls, HealPurge(c)
  PROVE  IndexInv'
  <1>0. PICK m \in Metas : call[c].meta = m /\ holder[m] = c /\ live = m
    BY HealAt DEF HealPurge
  <1>1. PICK q \in Instances : call[c].inst = q
    BY CallAt DEF IndexInv
  <1>2. /\ rows' = [f \in Facets |-> IF f \in StaleRows(call[c].dims) THEN NoRow ELSE rows[f]]
        /\ suppressed' = suppressed \cup {m}
        /\ Bump(m) /\ memo' = [memo EXCEPT ![q] = NoMemo]
        /\ call' = [call EXCEPT ![c] = FreshProcess.call[c]]
        /\ Release(m)
        /\ UNCHANGED <<model, endpoint, live, minted, cooling, sync, calls>>
    BY <1>0, <1>1 DEF HealPurge, Return, Search
  <1> DEFINE r == FreshProcess.call[c]
  <1>3. r \in Call /\ r.pc = "idle"
    BY IdleCall DEF IndexInv, TypeOK
  <1>4. call' = [call EXCEPT ![c] = r]
    BY <1>2
  <1> HIDE DEF r
  <1>5. /\ call' \in [Calls -> Call]
        /\ holder' \in [Metas -> Jobs \cup {NoJob}] /\ waiting' \in [Metas -> SUBSET Jobs]
        /\ MutexInv'
        /\ Others(c) /\ \A n \in Metas : ~In(c, n)'
    <2>1. r.pc \notin {"heal", "purge", "delete"}
      BY <1>3
    <2> QED BY <1>0, <1>2, <1>3, <1>4, <2>1, CallLetsGo
  <1>6. CallPhase(c)'
    BY <1>3, <1>4, CallRests DEF IndexInv, TypeOK
  <1>7. /\ counter' \in Nat /\ gen' \in [Metas -> Nat] /\ MetaInv' /\ counter' >= counter
        /\ \A n \in Metas : gen'[n] = gen[n] \/ gen'[n] > counter
        /\ gen'[m] > counter
    BY <1>2, BumpKeeps DEF IndexInv
  <1>8. Moves
    BY <1>0, <1>2, <1>7 DEF Moves
  <1>9. /\ memo' \in [Instances -> Memo]
        /\ \A p \in Instances : memo'[p] = memo[p] \/ MemoPhase(p)'
    BY <1>2, <1>7, NoMemoKeeps DEF IndexInv
  <1>10. rows' \in [Facets -> Row \cup {NoRow}]
    BY <1>2 DEF IndexInv, TypeOK
  <1>11. TypeOK'
    BY <1>2, <1>5, <1>7, <1>9, <1>10 DEF IndexInv, TypeOK
  <1>12. c \in Jobs /\ c \notin Syncs
    BY NamesAssumption DEF Jobs
  <1>13. WriterInv'
    BY <1>2, <1>5, <1>12, WriterStays DEF IndexInv
  <1>14. \A t \in Syncs : sync[t].pc \notin {"embed", "write"}
    BY <1>0, <1>12, SyncAlone
  <1> QED BY <1>2, <1>4, <1>6, <1>7, <1>8, <1>9, <1>11, <1>5, <1>13, <1>14, CallKeeps

LEMMA SearchFaultKeeps ==
  ASSUME IndexInv, NEW c \in Calls, SearchFault(c)
  PROVE  IndexInv'
  <1>1. /\ Return(c) /\ cooling' \subseteq Metas
        /\ UNCHANGED <<rows, model, endpoint, metaVars, cooling, suppressed, memo, sync, calls>>
    BY DEF SearchFault, IndexInv, TypeOK
  <1>2. CASE HoldsMutex(c)
    <2>1. PICK m \in Metas : call[c].meta = m /\ holder[m] = c
      BY <1>2, HealAt DEF HoldsMutex
    <2>2. Release(m)
      BY <1>2, <2>1 DEF SearchFault
    <2> QED BY <1>1, <2>1, <2>2, CallAbandons
  <1>3. CASE ~HoldsMutex(c)
    <2>1. call[c].pc \notin {"heal", "purge", "delete"} /\ UNCHANGED mutexVars
      BY <1>3 DEF SearchFault, HoldsMutex
    <2> QED BY <1>1, <2>1, CallReturns
  <1> QED BY <1>2, <1>3

LEMMA SearchReturnKeeps ==
  ASSUME IndexInv, NEW c \in Calls, SearchReturn(c)
  PROVE  IndexInv'
  <1>1. cooling' \subseteq Metas
    BY DEF SearchReturn, IndexInv, TypeOK
  <1> QED BY <1>1, CallReturns DEF SearchReturn

-----------------------------------------------------------------------------
(* Clean-up after a deletion *)

\* A deletion that asks for the mutex of the entry, minting one if there is none.
LEMMA QueueDeleteKeeps ==
  ASSUME IndexInv, NEW c \in Calls, NEW m \in Metas, NEW r \in Call,
         call[c].pc \in {"idle", "loop"}, MetaFor(m), Acquire(c, m),
         call' = [call EXCEPT ![c] = r], r.pc = "delete", r.meta = m,
         calls' \in 0 .. MaxCalls,
         UNCHANGED <<rows, model, endpoint, cooling, suppressed, memo, sync>>
  PROVE  IndexInv'
  <1>1. call \in [Calls -> Call] /\ c \in Jobs
    BY DEF IndexInv, TypeOK, Jobs
  <1>2. /\ counter' \in Nat /\ live' = m /\ minted' \subseteq Metas /\ gen' \in [Metas -> Nat]
        /\ m \in minted' /\ MetaInv' /\ (live' = live \/ live = NoMeta)
        /\ minted \subseteq minted' /\ counter' >= counter
        /\ \A n \in Metas : gen'[n] = gen[n] \/ gen'[n] > counter
        /\ live' = live \/ gen'[live'] > counter
    BY MetaForKeeps DEF IndexInv
  <1>3. call'[c] = r /\ call' \in [Calls -> Call]
    BY <1>1
  <1>4. holder' \in [Metas -> Jobs \cup {NoJob}] /\ waiting' \in [Metas -> SUBSET Jobs]
    BY <1>1, MutexTypes DEF IndexInv
  <1>5. TypeOK'
    BY <1>2, <1>3, <1>4 DEF IndexInv, TypeOK
  <1>6. Others(c) /\ \A n \in Metas : (Ask(c, n)' <=> n = m) /\ ~In(c, n)'
    BY <1>1, CallMoves
  <1>7. \A n \in Metas : ~In(c, n) /\ ~Ask(c, n)
    BY NamesAssumption DEF In, Ask
  <1>8. MutexInv'
    BY <1>1, <1>6, <1>7, AcquireKeeps DEF IndexInv
  <1>9. WriterInv'
    BY <1>1, <1>2, <1>6, WriterStays DEF IndexInv
  <1>10. Dirty => Dirty'
    BY DEF Dirty
  <1>11. Moves
    BY <1>2, <1>10, NamesAssumption DEF Moves
  <1>12. CallPhase(c)'
    BY <1>2, <1>3 DEF CallPhase
  <1> QED BY <1>2, <1>5, <1>8, <1>9, <1>11, <1>12, CallKeeps

LEMMA DeletePackageKeeps ==
  ASSUME IndexInv, NEW c \in Calls, DeletePackage(c)
  PROVE  IndexInv'
  <1>1. PICK m \in Metas : QueueDelete(c, m, FALSE)
    BY DEF DeletePackage
  <1> DEFINE r == [call[c] EXCEPT !.pc = "delete", !.meta = m, !.whole = FALSE]
  <1>2. call[c] \in Call /\ calls' \in 0 .. MaxCalls
    BY NamesAssumption DEF DeletePackage, IndexInv, TypeOK
  <1>3. r \in Call /\ r.pc = "delete" /\ r.meta = m
    BY <1>2 DEF Call
  <1>4. MetaFor(m) /\ Acquire(c, m) /\ call' = [call EXCEPT ![c] = r]
    BY <1>1 DEF QueueDelete, Search
  <1> HIDE DEF r
  <1>5. /\ call[c].pc \in {"idle", "loop"}
        /\ UNCHANGED <<rows, model, endpoint, cooling, suppressed, memo, sync>>
    BY DEF DeletePackage
  <1> QED BY <1>2, <1>3, <1>4, <1>5, QueueDeleteKeeps

LEMMA DeleteEnvironmentKeeps ==
  ASSUME IndexInv, NEW c \in Calls, DeleteEnvironment(c)
  PROVE  IndexInv'
  <1> DEFINE r == [call[c] EXCEPT !.pc = "loop", !.whole = TRUE]
  <1>1. call[c] \in Call /\ calls' \in 0 .. MaxCalls /\ cooling' \subseteq Metas
    BY NamesAssumption DEF DeleteEnvironment, IndexInv, TypeOK
  <1>2. r \in Call /\ r.pc = "loop"
    BY <1>1 DEF Call
  <1>3. /\ call' = [call EXCEPT ![c] = r] /\ call[c].pc = "idle"
        /\ UNCHANGED <<rows, model, endpoint, metaVars, mutexVars, suppressed, memo, sync>>
    BY DEF DeleteEnvironment, Search
  <1> HIDE DEF r
  <1>4. CallPhase(c)'
    BY <1>2, <1>3, CallRests DEF IndexInv, TypeOK
  <1>5. call[c].pc \notin {"heal", "purge", "delete"} /\ r.pc \notin {"heal", "purge", "delete"}
    BY <1>2, <1>3
  <1> QED BY <1>1, <1>2, <1>3, <1>4, <1>5, CallGoesOn

\* A deletion that is over rests, or goes on with the next entry of the map.
LEMMA DeletedRests ==
  ASSUME IndexInv, NEW c \in Calls, Deleted(c)
  PROVE  \E r \in Call : call' = [call EXCEPT ![c] = r] /\ r.pc \in {"idle", "loop"}
  <1> DEFINE r == FreshProcess.call[c]
  <1>1. r \in Call /\ r.pc = "idle"
    BY IdleCall DEF IndexInv, TypeOK
  <1>2. CASE call[c].whole
    <2>1. call' = [call EXCEPT ![c] = [r EXCEPT !.pc = "loop", !.whole = TRUE]]
      BY <1>2 DEF Deleted, Search
    <2> HIDE DEF r
    <2>2. [r EXCEPT !.pc = "loop", !.whole = TRUE] \in Call
          /\ [r EXCEPT !.pc = "loop", !.whole = TRUE].pc = "loop"
      BY <1>1 DEF Call
    <2> QED BY <2>1, <2>2
  <1>3. CASE ~call[c].whole
    <2>1. call' = [call EXCEPT ![c] = r]
      BY <1>3 DEF Deleted, Return, Search
    <2> QED BY <1>1, <2>1
  <1> QED BY <1>2, <1>3

LEMMA DeleteRunKeeps ==
  ASSUME IndexInv, NEW c \in Calls, DeleteRun(c)
  PROVE  IndexInv'
  <1>0. PICK m \in Metas : call[c].meta = m
    BY CallAt DEF IndexInv, DeleteRun, Bound
  <1>1. /\ holder[m] = c /\ Release(m) /\ Deleted(c)
        /\ UNCHANGED <<model, endpoint, minted, cooling, suppressed, memo, sync, calls>>
    BY <1>0 DEF DeleteRun
  <1>2. PICK r \in Call : call' = [call EXCEPT ![c] = r] /\ r.pc \in {"idle", "loop"}
    BY <1>1, DeletedRests
  <1>3. r.pc \notin {"heal", "purge", "delete"}
    BY <1>2
  <1>4. CallPhase(c)'
    BY <1>2, CallRests DEF IndexInv, TypeOK
  <1>5. CASE live # m
    <2>1. UNCHANGED <<rows, metaVars>> /\ cooling' \subseteq Metas
      BY <1>0, <1>1, <1>5 DEF DeleteRun, metaVars, IndexInv, TypeOK
    <2> QED BY <1>1, <1>2, <1>3, <1>4, <2>1, CallGivesUp
  <1>6. CASE live = m
    <2>1. rows' = [f \in Facets |-> NoRow] /\ Bump(m) /\ live' = NoMeta
      BY <1>0, <1>6 DEF DeleteRun
    <2>2. /\ call' \in [Calls -> Call]
          /\ holder' \in [Metas -> Jobs \cup {NoJob}] /\ waiting' \in [Metas -> SUBSET Jobs]
          /\ MutexInv'
          /\ Others(c) /\ \A n \in Metas : ~In(c, n)'
      BY <1>1, <1>2, <1>3, CallLetsGo
    <2>3. /\ counter' \in Nat /\ gen' \in [Metas -> Nat] /\ MetaInv' /\ counter' >= counter
          /\ \A n \in Metas : gen'[n] = gen[n] \/ gen'[n] > counter
          /\ gen'[m] > counter
      BY <1>1, <2>1, BumpKeeps DEF IndexInv
    <2>4. gen'[m] # gen[m]
      BY <2>3 DEF IndexInv, MetaInv, TypeOK
    <2>5. Moves
      BY <1>1, <1>6, <2>1, <2>3, <2>4 DEF Moves
    <2>6. rows' \in [Facets -> Row \cup {NoRow}]
      BY <2>1
    <2>7. TypeOK'
      BY <1>1, <2>1, <2>2, <2>3, <2>6 DEF IndexInv, TypeOK
    <2>8. c \in Jobs /\ c \notin Syncs
      BY NamesAssumption DEF Jobs
    <2>9. \A k \in Jobs \ {c}, n \in Metas : ~In(k, n)
      BY <1>1, <1>6, <2>8, Alone DEF IndexInv
    <2>10. WriterInv'
      BY <2>2, <2>9 DEF WriterInv, Others
    <2>11. \A t \in Syncs : sync[t].pc \notin {"embed", "write"}
      BY <1>1, <1>6, <2>8, SyncAlone
    <2> QED BY <1>1, <1>2, <1>4, <2>2, <2>3, <2>5, <2>7, <2>10, <2>11, CallKeeps
  <1> QED BY <1>5, <1>6

LEMMA SweepKeeps ==
  ASSUME IndexInv, NEW c \in Calls, Sweep(c)
  PROVE  IndexInv'
  <1>1. /\ call[c].pc = "loop"
        /\ UNCHANGED <<model, endpoint, cooling, suppressed, memo, sync, calls>>
    BY DEF Sweep
  <1>2. call[c] \in Call /\ call \in [Calls -> Call] /\ calls \in 0 .. MaxCalls /\ counter \in Nat
    BY DEF IndexInv, TypeOK
  <1>3. CASE live # NoMeta
    <2>1. PICK m \in Metas : live = m
      BY <1>3 DEF IndexInv, TypeOK
    <2> DEFINE r == [call[c] EXCEPT !.pc = "delete", !.meta = m, !.whole = TRUE]
    <2>2. r \in Call /\ r.pc = "delete" /\ r.meta = m
      BY <1>2 DEF Call
    <2>3. MetaFor(m) /\ Acquire(c, m) /\ call' = [call EXCEPT ![c] = r] /\ rows' = rows
      BY <1>3, <2>1 DEF Sweep, QueueDelete, Search
    <2> HIDE DEF r
    <2>4. call[c].pc \in {"idle", "loop"} /\ calls' \in 0 .. MaxCalls
      BY <1>1, <1>2
    <2> QED BY <1>1, <2>2, <2>3, <2>4, QueueDeleteKeeps
  <1>4. CASE live = NoMeta
    <2> DEFINE r == FreshProcess.call[c]
    <2>1. /\ rows' = [f \in Facets |-> NoRow] /\ call' = [call EXCEPT ![c] = r]
          /\ UNCHANGED <<metaVars, mutexVars>>
      BY <1>4 DEF Sweep, Return, Search
    <2>2. r \in Call /\ r.pc = "idle"
      BY IdleCall DEF IndexInv, TypeOK
    <2> HIDE DEF r
    <2>3. call' \in [Calls -> Call] /\ rows' \in [Facets -> Row \cup {NoRow}] /\ c \in Jobs
      BY <1>2, <2>1, <2>2 DEF Jobs
    <2>4. TypeOK'
      BY <1>1, <2>1, <2>3 DEF IndexInv, TypeOK, metaVars, mutexVars
    <2>5. Others(c) /\ \A n \in Metas : ~In(c, n)' /\ ~Ask(c, n)'
      BY <1>1, <1>2, <2>1, <2>2, CallMoves
    <2>6. \A n \in Metas : ~In(c, n) /\ ~Ask(c, n)
      BY <1>1, NamesAssumption DEF In, Ask
    <2>7. MutexInv'
      BY <2>1, <2>3, <2>5, <2>6, StaysPut DEF IndexInv
    <2>8. WriterInv'
      BY <2>1, <2>3, <2>5, WriterStays DEF IndexInv, metaVars
    <2>9. MetaInv'
      BY <2>1 DEF IndexInv, MetaInv, metaVars
    <2>10. Moves
      BY <1>1, <1>2, <1>4, <2>1 DEF Moves, metaVars
    <2>11. CallPhase(c)'
      BY <1>2, <2>1, <2>2, CallRests
    <2>12. ASSUME NEW t \in Syncs, sync[t].pc \in {"embed", "write"} PROVE FALSE
      <3>1. sync[t].meta \in Metas
        BY <2>12, SyncAt DEF IndexInv
      <3> QED BY <1>4, <2>12, <3>1, InsideAt, NamesAssumption
    <2> QED BY <1>1, <2>1, <2>4, <2>7, <2>8, <2>9, <2>10, <2>11, <2>12, CallKeeps
  <1> QED BY <1>3, <1>4

LEMMA DeleteFailsKeeps ==
  ASSUME IndexInv, NEW c \in Calls, DeleteFails(c)
  PROVE  IndexInv'
  <1>1. /\ Return(c) /\ cooling' \subseteq Metas
        /\ UNCHANGED <<rows, model, endpoint, metaVars, cooling, suppressed, memo, sync, calls>>
    BY DEF DeleteFails, IndexInv, TypeOK
  <1>2. CASE call[c].pc = "delete" /\ holder[call[c].meta] = c /\ Release(call[c].meta)
    <2>1. PICK m \in Metas : call[c].meta = m
      BY <1>2, CallAt DEF IndexInv, Bound
    <2> QED BY <1>1, <1>2, <2>1, CallAbandons
  <1>3. CASE call[c].pc = "loop" /\ UNCHANGED mutexVars
    BY <1>1, <1>3, CallReturns
  <1> QED BY <1>2, <1>3 DEF DeleteFails

-----------------------------------------------------------------------------
(* A process that begins *)

Fresh ==
  /\ rows \in [Facets -> Row \cup {NoRow}]
  /\ model \in Models
  /\ endpoint \in Dims
  /\ counter = FreshProcess.counter
  /\ live = FreshProcess.live
  /\ minted = FreshProcess.minted
  /\ gen = FreshProcess.gen
  /\ holder = FreshProcess.holder
  /\ waiting = FreshProcess.waiting
  /\ cooling = {}
  /\ suppressed = {}
  /\ memo = FreshProcess.memo
  /\ sync = FreshProcess.sync
  /\ call = FreshProcess.call
  /\ calls \in 0 .. MaxCalls

\* Whatever rows the database holds, a process that begins satisfies the invariant.
LEMMA FreshKeeps == Fresh => IndexInv
  <1> SUFFICES ASSUME Fresh PROVE IndexInv
    OBVIOUS
  <1> DEFINE a == CHOOSE p \in Instances : TRUE
             b == CHOOSE d \in Dims : TRUE
  <1>1. a \in Instances
    BY NamesAssumption
  <1>2. b \in Dims
    BY DEF Fresh
  <1>3. /\ counter = 0 /\ live = NoMeta /\ minted = {} /\ gen = [m \in Metas |-> 0]
        /\ holder = [m \in Metas |-> NoJob] /\ waiting = [m \in Metas |-> {}]
        /\ memo = [p \in Instances |-> NoMemo]
    BY DEF Fresh, FreshProcess
  <1>4. sync = [s \in Syncs |-> [pc |-> "idle", inst |-> a, meta |-> NoMeta, todo |-> {},
                                 gone |-> {}, changed |-> FALSE, dims |-> b]]
    BY DEF Fresh, FreshProcess
  <1> HIDE DEF a, b
  <1>5. sync \in [Syncs -> Sync] /\ \A s \in Syncs : sync[s].pc = "idle"
    BY <1>1, <1>2, <1>4 DEF Sync
  <1>6. ASSUME NEW c \in Calls PROVE call[c] \in Call /\ call[c].pc = "idle"
    BY IdleCall DEF Fresh
  <1>7. call \in [Calls -> Call]
    <2>1. call = [c \in Calls |-> call[c]]
      BY DEF Fresh, FreshProcess
    <2> QED BY <1>6, <2>1
  <1>8. NoMemo \in Memo /\ NoMemo.gen = 0 /\ ~NoMemo.done
    BY DEF NoMemo, Memo
  <1>9. TypeOK
    BY <1>3, <1>5, <1>7, <1>8 DEF TypeOK, Fresh
  <1>10. MetaInv
    BY <1>3 DEF MetaInv
  <1>11. \A j \in Jobs, m \in Metas : ~In(j, m) /\ ~Ask(j, m)
    BY <1>5, <1>6 DEF In, Ask
  <1>12. MutexInv /\ WriterInv
    BY <1>3, <1>11, NamesAssumption DEF MutexInv, WriterInv
  <1>13. \A s \in Syncs : SyncPhase(s)
    BY <1>5 DEF SyncPhase
  <1>14. \A p \in Instances : MemoPhase(p)
    BY <1>3, <1>8 DEF MemoPhase
  <1>15. \A c \in Calls : CallPhase(c)
    BY <1>6 DEF CallPhase, Bound
  <1> QED BY <1>9, <1>10, <1>12, <1>13, <1>14, <1>15 DEF IndexInv

LEMMA InitKeeps == Init => IndexInv
  <1>1. Init => Fresh
    BY NamesAssumption DEF Init, Fresh
  <1> QED BY <1>1, FreshKeeps

LEMMA RestartKeeps == IndexInv /\ Restart => IndexInv'
  <1>1. IndexInv /\ Restart => Fresh'
    BY DEF IndexInv, TypeOK, Restart, Fresh
  <1> QED BY <1>1, FreshKeeps, PTL

-----------------------------------------------------------------------------
(* The theorems *)

LEMMA StepKeeps == IndexInv /\ [Next]_vars => IndexInv'
  <1> SUFFICES ASSUME IndexInv, [Next]_vars PROVE IndexInv'
    OBVIOUS
  <1>1. ASSUME NEW p \in Instances, KickSync(p) PROVE IndexInv'
    BY <1>1, KickSyncKeeps
  <1>2. ASSUME NEW p \in Instances, FindIndexing(p) PROVE IndexInv'
    BY <1>2, FindIndexingKeeps
  <1>3. ASSUME NEW p \in Instances, NEW c \in Calls, SearchEnter(c, p) PROVE IndexInv'
    BY <1>3, SearchEnterKeeps
  <1>4. ASSUME NEW s \in Syncs, SyncNext(s) PROVE IndexInv'
    BY <1>4, SyncEnterKeeps, SyncEmbedKeeps, SyncWriteKeeps, SyncDropKeeps DEF SyncNext
  <1>5. ASSUME NEW s \in Syncs, SyncFails(s) PROVE IndexInv'
    BY <1>5, SyncFailsKeeps
  <1>6. ASSUME NEW c \in Calls, CallNext(c) PROVE IndexInv'
    BY <1>6, SearchEmbedKeeps, SearchScanKeeps, SearchStaleKeeps, HealCheckKeeps, HealPurgeKeeps,
       SearchReturnKeeps, DeleteRunKeeps, SweepKeeps DEF CallNext
  <1>7. ASSUME NEW c \in Calls,
               \/ SearchEmbedFails(c) \/ SearchFault(c)
               \/ DeletePackage(c) \/ DeleteEnvironment(c) \/ DeleteFails(c)
        PROVE  IndexInv'
    BY <1>7, SearchEmbedFailsKeeps, SearchFaultKeeps, DeletePackageKeeps, DeleteEnvironmentKeeps,
       DeleteFailsKeeps
  <1>8. ASSUME \/ EndpointChanges \/ CooldownEnds \/ SuppressionEnds
               \/ UNCHANGED vars
        PROVE  IndexInv'
    BY <1>8, WorldKeeps
  <1>9. ASSUME Restart PROVE IndexInv'
    BY <1>9, RestartKeeps
  <1> QED BY <1>1, <1>2, <1>3, <1>4, <1>5, <1>6, <1>7, <1>8, <1>9 DEF Next

LEMMA Invariance == Spec => []IndexInv
  BY InitKeeps, StepKeeps, PTL DEF Spec

\* Every variable of the index stays within its type.
THEOREM IndexTypes == Spec => []TypeOK
  <1>1. IndexInv => TypeOK
    BY DEF IndexInv
  <1> QED BY <1>1, Invariance, PTL

\* A mutex is held by a job inside its section, awaited only while it is held, and
\* every job in a section holds or awaits its own: no failed sync, heal or delete
\* leaves the package waiting, for any number of jobs and metas.
THEOREM MutexStaysOwned == Spec => []MutexIsOwned
  <1>1. IndexInv => MutexIsOwned
    <2> SUFFICES ASSUME IndexInv, NEW m \in Metas
                 PROVE  /\ holder[m] # NoJob => m \in Claims(holder[m])
                        /\ waiting[m] # {} => holder[m] \notin waiting[m] \cup {NoJob}
                        /\ \A j \in Jobs : m \in Claims(j) => j \in waiting[m] \cup {holder[m]}
      BY DEF MutexIsOwned
    <2>1. ASSUME NEW j \in Jobs PROVE m \in Claims(j) <=> In(j, m) \/ Ask(j, m)
      <3>1. CASE j \in Syncs
        <4>1. sync[j].pc \in {"idle", "queued", "embed", "write"} /\ j \notin Calls
          BY <3>1, NamesAssumption DEF IndexInv, TypeOK, Sync
        <4> QED BY <3>1, <4>1 DEF Claims, In, Ask
      <3>2. CASE j \in Calls /\ j \notin Syncs
        BY <3>2 DEF Claims, In, Ask, HoldsMutex
      <3> QED BY <3>1, <3>2 DEF Jobs
    <2>2. holder[m] \in Jobs \cup {NoJob} /\ waiting[m] \subseteq Jobs
      BY DEF IndexInv, TypeOK
    <2>3. holder[m] # NoJob => m \in Claims(holder[m])
      BY <2>1, <2>2 DEF IndexInv, MutexInv
    <2>4. waiting[m] # {} => holder[m] \notin waiting[m] \cup {NoJob}
      BY <2>2 DEF IndexInv, MutexInv
    <2>5. \A j \in Jobs : m \in Claims(j) => j \in waiting[m] \cup {holder[m]}
      BY <2>1 DEF IndexInv, MutexInv
    <2> QED BY <2>3, <2>4, <2>5
  <1> QED BY <1>1, Invariance, PTL

\* At most one job is between two statements of a read-diff-write section, and it is
\* there under the entry of the map, however many syncs, heals and deletions queue
\* on entries old and new.
THEOREM WriterStaysAlone == Spec => []OneWriter
  <1>1. IndexInv => OneWriter
    <2> SUFFICES ASSUME IndexInv PROVE OneWriter
      OBVIOUS
    <2>1. ASSUME NEW w \in Writers
          PROVE  \E j \in Jobs, m \in Metas : w = <<j, m>> /\ m = live /\ holder[live] = j
      <3>1. CASE \E s \in Syncs : sync[s].pc \in {"embed", "write"} /\ w = <<s, sync[s].meta>>
        <4>1. PICK s \in Syncs : sync[s].pc \in {"embed", "write"} /\ w = <<s, sync[s].meta>>
          BY <3>1
        <4>2. sync[s].meta \in Metas /\ s \in Jobs
          BY <4>1, SyncAt DEF IndexInv, Jobs
        <4> QED BY <4>1, <4>2, InsideAt
      <3>2. CASE \E c \in Calls : HoldsMutex(c) /\ w = <<c, call[c].meta>>
        <4>1. PICK c \in Calls : HoldsMutex(c) /\ w = <<c, call[c].meta>>
          BY <3>2
        <4> QED BY <4>1, HealAt DEF HoldsMutex, Jobs
      <3> QED BY <2>1, <3>1, <3>2 DEF Writers
    <2>2. ASSUME NEW v \in Writers, NEW w \in Writers PROVE v = w
      BY <2>1
    <2>3. ASSUME NEW w \in Writers PROVE w[2] = live
      BY <2>1
    <2> QED BY <2>2, <2>3 DEF OneWriter
  <1> QED BY <1>1, Invariance, PTL

\* A finished sync of the current generation, with the mutex free, means the rows are
\* exactly the ones its instance wants, under this model: purges, deletions and the
\* syncs of other instances invalidate every memo they make untrue.
THEOREM MemosTellTruth == Spec => []MemoTellsTruth
  <1>1. IndexInv => MemoTellsTruth
    <2> SUFFICES ASSUME IndexInv, NEW p \in Instances, live # NoMeta, memo[p].done,
                        memo[p].gen = gen[live], holder[live] = NoJob
                 PROVE  Whole(p)
      BY DEF MemoTellsTruth, Whole, Match
    <2>1. Dirty \/ Whole(p)
      BY DEF IndexInv, MemoPhase, Valid
    <2>2. ASSUME NEW s \in Syncs, sync[s].pc = "write" PROVE FALSE
      BY <2>2, InsideAt, NamesAssumption DEF Jobs
    <2> QED BY <2>1, <2>2 DEF Dirty
  <1> QED BY <1>1, Invariance, PTL

\* A search whose scan skipped no stale row answers from exactly the texts its
\* instance wants embedded, whatever ran between its steps.
THEOREM AnswersStayWhole == Spec => []AnswersAreWhole
  <1>1. IndexInv => AnswersAreWhole
    BY DEF IndexInv, CallPhase, AnswersAreWhole
  <1> QED BY <1>1, Invariance, PTL
=============================================================================

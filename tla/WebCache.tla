------------------------------ MODULE WebCache ------------------------------
(***************************************************************************)
(* The URL cache of internal/webfetch: one file for each page, shared by   *)
(* the processes of a user.  Reading takes no lock; storing, sweeping and  *)
(* dropping what has expired take the lock of the directory.               *)
(***************************************************************************)
EXTENDS Integers, FiniteSets

CONSTANTS
    CacheProcs,     \* processes, each with one fetch at a time
    CacheKeys,      \* the pages fetched, with reader and rendering (cacheFileName)
    CacheTTL,       \* Config.URLCacheTTL
    CacheBatch,     \* cacheCleanupBatch
    CacheMaxClock,  \* bound on the clock
    CacheMaxStores  \* bound on the pages stored

VARIABLES
    cacheFiles,     \* the directory: keys to entries
    cacheTemps,     \* temporary files in it, by the process that made them
    cacheLock,      \* who holds .cache.lock
    cacheSwept,     \* urlCache.sweepDir: the entries each open cursor has passed
    cacheClosed,    \* the processes whose cache is closed
    cacheOp,        \* what each process is at
    cacheClock,
    cacheStores     \* how many pages were stored; numbers the files

cacheVars == <<cacheFiles, cacheTemps, cacheLock, cacheSwept, cacheClosed, cacheOp, cacheClock, cacheStores>>

Unlocked == "unlocked"
ASSUME CacheAssumption == Unlocked \notin CacheProcs /\ CacheTTL \in Int

NoEntry == [born |-> -1, file |-> 0]
EntryAt(k) == IF k \in DOMAIN cacheFiles THEN cacheFiles[k] ELSE NoEntry
Expired(e) == cacheClock - e.born > CacheTTL
AtRest == [pc |-> "rest"]

CacheInit ==
    /\ cacheFiles = <<>>
    /\ cacheTemps = {}
    /\ cacheLock = Unlocked
    /\ cacheSwept = [p \in CacheProcs |-> {}]
    /\ cacheClosed = {}
    /\ cacheOp = [p \in CacheProcs |-> AtRest]
    /\ cacheClock = 0
    /\ cacheStores = 0

Turn(p, op) == cacheOp' = [cacheOp EXCEPT ![p] = op]
Step(p, pc) == cacheOp' = [cacheOp EXCEPT ![p].pc = pc]
Without(k) == [x \in DOMAIN cacheFiles \ {k} |-> cacheFiles[x]]

\* load begins with a sweep.
Load(p, k) ==
    /\ cacheOp[p].pc = "rest"
    /\ Turn(p, [pc |-> "sweep", key |-> k, then |-> "open", seen |-> NoEntry, batch |-> {}, path |-> k])
    /\ UNCHANGED <<cacheFiles, cacheTemps, cacheLock, cacheSwept, cacheClosed, cacheClock, cacheStores>>

\* cleanup: the next names of the cursor; one that reaches the end is closed
\* and starts anew the next time.
Sweep(p) ==
    LET left == DOMAIN cacheFiles \ cacheSwept[p] IN
    /\ cacheOp[p].pc = "sweep"
    /\ IF p \in cacheClosed
       THEN Step(p, cacheOp[p].then) /\ UNCHANGED cacheSwept
       ELSE \E batch \in SUBSET left :
              /\ Cardinality(batch) = CacheBatch \/ batch = left
              /\ Cardinality(batch) <= CacheBatch
              /\ Turn(p, [cacheOp[p] EXCEPT !.pc = "remove lock", !.batch = batch])
              /\ cacheSwept' = [cacheSwept EXCEPT ![p] = IF Cardinality(batch) < CacheBatch THEN {} ELSE @ \cup batch]
    /\ UNCHANGED <<cacheFiles, cacheTemps, cacheLock, cacheClosed, cacheClock, cacheStores>>

\* withCacheLock waits for the lock and runs what it is given; when it cannot
\* have the lock it leaves things alone.
WithCacheLock_RunsAnyway(p, pc, otherwise) ==
    \/ cacheLock = Unlocked /\ cacheLock' = p /\ Step(p, pc)
    \/ UNCHANGED cacheLock /\ Step(p, pc)
WithCacheLock(p, pc, otherwise) ==
    \/ cacheLock = Unlocked /\ cacheLock' = p /\ Step(p, pc)
    \/ UNCHANGED cacheLock /\ Step(p, otherwise)
TakeLock(p) ==
    /\ \/ cacheOp[p].pc = "remove lock" /\ WithCacheLock(p, "removing", cacheOp[p].then)
       \/ cacheOp[p].pc = "store lock" /\ WithCacheLock(p, "storing", "after store")
    /\ UNCHANGED <<cacheFiles, cacheTemps, cacheSwept, cacheClosed, cacheClock, cacheStores>>

\* removeExpired, for each entry of the batch, in three moments: it opens the
\* entry again and goes on when that one has expired; it looks whether the path
\* still has the file it opened; it removes whatever is at the path.  It passes
\* over an entry that is gone, fresh or unreadable, and a removal may fail.
ExamineEntry(p) ==
    /\ cacheOp[p].pc = "removing"
    /\ IF cacheOp[p].batch = {}
       THEN cacheLock' = Unlocked /\ Step(p, cacheOp[p].then)
       ELSE /\ \E k \in cacheOp[p].batch :
                  \/ /\ k \in DOMAIN cacheFiles /\ Expired(cacheFiles[k])
                     /\ Turn(p, [cacheOp[p] EXCEPT !.pc = "comparing", !.seen = cacheFiles[k],
                                                   !.batch = @ \ {k}, !.path = k])
                  \/ Turn(p, [cacheOp[p] EXCEPT !.batch = @ \ {k}])
            /\ UNCHANGED cacheLock
    /\ UNCHANGED <<cacheFiles, cacheTemps, cacheSwept, cacheClosed, cacheClock, cacheStores>>
CompareEntry(p) ==
    /\ cacheOp[p].pc = "comparing"
    /\ Step(p, IF EntryAt(cacheOp[p].path) = cacheOp[p].seen THEN "unlinking" ELSE "removing")
    /\ UNCHANGED <<cacheFiles, cacheTemps, cacheLock, cacheSwept, cacheClosed, cacheClock, cacheStores>>
RemoveEntry(p) ==
    /\ cacheOp[p].pc = "unlinking"
    /\ \/ cacheFiles' = Without(cacheOp[p].path)
       \/ UNCHANGED cacheFiles
    /\ Step(p, "removing")
    /\ UNCHANGED <<cacheTemps, cacheLock, cacheSwept, cacheClosed, cacheClock, cacheStores>>

\* load reads the file it could open, then looks at its age: two moments, and
\* the file may be replaced or the clock may move between them.  What it found
\* expired it removes under the lock, as a sweep does.
OpenEntry(p) ==
    /\ cacheOp[p].pc = "open"
    /\ Turn(p, [cacheOp[p] EXCEPT !.pc = "judge", !.seen = EntryAt(cacheOp[p].key)])
    /\ UNCHANGED <<cacheFiles, cacheTemps, cacheLock, cacheSwept, cacheClosed, cacheClock, cacheStores>>
JudgeEntry(p) ==
    LET e == cacheOp[p].seen IN
    /\ cacheOp[p].pc = "judge"
    /\ \/ e = NoEntry /\ Step(p, "miss")
       \/ e # NoEntry /\ ~Expired(e) /\ Step(p, "hit")
       \/ /\ e # NoEntry /\ Expired(e)
          /\ Turn(p, [cacheOp[p] EXCEPT !.pc = "remove lock", !.then = "miss", !.batch = {cacheOp[p].key}])
    /\ UNCHANGED <<cacheFiles, cacheTemps, cacheLock, cacheSwept, cacheClosed, cacheClock, cacheStores>>

\* Service.Fetch after a miss: the page is fetched, or not, and stored.
Miss(p) ==
    /\ cacheOp[p].pc = "miss"
    /\ \/ /\ cacheStores < CacheMaxStores
          /\ cacheStores' = cacheStores + 1
          /\ Turn(p, [cacheOp[p] EXCEPT !.pc = "store lock",
                                        !.seen = [born |-> cacheClock, file |-> cacheStores + 1]])
       \/ Turn(p, AtRest) /\ UNCHANGED cacheStores
    /\ UNCHANGED <<cacheFiles, cacheTemps, cacheLock, cacheSwept, cacheClosed, cacheClock>>
Hit(p) ==
    /\ cacheOp[p].pc = "hit"
    /\ Turn(p, AtRest)
    /\ UNCHANGED <<cacheFiles, cacheTemps, cacheLock, cacheSwept, cacheClosed, cacheClock, cacheStores>>

\* storeBytes: a temporary file, written, closed and renamed over the entry.  A
\* step that fails removes the temporary file again.
StoreTemp(p) ==
    /\ cacheOp[p].pc = "storing"
    /\ \/ cacheTemps' = cacheTemps \cup {p} /\ Step(p, "renaming") /\ UNCHANGED cacheLock
       \/ UNCHANGED cacheTemps /\ Step(p, "after store") /\ cacheLock' = Unlocked
    /\ UNCHANGED <<cacheFiles, cacheSwept, cacheClosed, cacheClock, cacheStores>>
StoreRename(p) ==
    LET k == cacheOp[p].key IN
    /\ cacheOp[p].pc = "renaming"
    /\ \/ cacheFiles' = [x \in DOMAIN cacheFiles \cup {k} |-> IF x = k THEN cacheOp[p].seen ELSE cacheFiles[x]]
       \/ UNCHANGED cacheFiles
    /\ cacheTemps' = cacheTemps \ {p}
    /\ cacheLock' = Unlocked
    /\ Step(p, "after store")
    /\ UNCHANGED <<cacheSwept, cacheClosed, cacheClock, cacheStores>>
\* store ends with a sweep.
AfterStore(p) ==
    /\ cacheOp[p].pc = "after store"
    /\ Turn(p, [cacheOp[p] EXCEPT !.pc = "sweep", !.then = "hit"])
    /\ UNCHANGED <<cacheFiles, cacheTemps, cacheLock, cacheSwept, cacheClosed, cacheClock, cacheStores>>

\* urlCache.close, with the service.
CloseCache(p) ==
    /\ p \notin cacheClosed
    /\ cacheClosed' = cacheClosed \cup {p}
    /\ cacheSwept' = [cacheSwept EXCEPT ![p] = {}]
    /\ UNCHANGED <<cacheFiles, cacheTemps, cacheLock, cacheOp, cacheClock, cacheStores>>
\* A process dies: the system drops its lock, its temporary file stays.
CacheCrash(p) ==
    /\ cacheOp[p].pc # "rest"
    /\ Turn(p, AtRest)
    /\ cacheLock' = IF cacheLock = p THEN Unlocked ELSE cacheLock
    /\ UNCHANGED <<cacheFiles, cacheTemps, cacheSwept, cacheClosed, cacheClock, cacheStores>>
CacheTick ==
    /\ cacheClock < CacheMaxClock
    /\ cacheClock' = cacheClock + 1
    /\ UNCHANGED <<cacheFiles, cacheTemps, cacheLock, cacheSwept, cacheClosed, cacheOp, cacheStores>>

CacheNext ==
    \/ \E p \in CacheProcs :
          \/ \E k \in CacheKeys : Load(p, k)
          \/ Sweep(p) \/ TakeLock(p) \/ ExamineEntry(p) \/ CompareEntry(p) \/ RemoveEntry(p)
          \/ OpenEntry(p) \/ JudgeEntry(p)
          \/ Miss(p) \/ Hit(p) \/ StoreTemp(p) \/ StoreRename(p) \/ AfterStore(p)
          \/ CloseCache(p) \/ CacheCrash(p)
    \/ CacheTick

CacheSpec == CacheInit /\ [][CacheNext]_cacheVars

-----------------------------------------------------------------------------
\* A page that was fetched and has not expired stays in the cache, whoever
\* sweeps, drops, stores or dies meanwhile: "an earlier observation cannot
\* delete a freshly replaced document" (removeExpired), neither one made before
\* the lock was taken nor one that removeExpired itself made a moment ago.
FreshKept ==
    [][\A k \in DOMAIN cacheFiles :
          ~Expired(cacheFiles[k]) => k \in DOMAIN cacheFiles']_cacheVars
=============================================================================

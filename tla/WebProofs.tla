----------------------------- MODULE WebProofs -----------------------------
(***************************************************************************)
(* Theorems about web_fetch: the renderer of WebFetch, for any number of   *)
(* fetches and slots, and the URL cache of WebCache, for any number of     *)
(* processes, pages and stores, any time to live and any clock.            *)
(***************************************************************************)
EXTENDS WebFetch, WebCache, FiniteSetTheorems, TLAPS

-----------------------------------------------------------------------------
(* The cache: the lock of the directory, and what a removal has looked at.  *)

Entries == [born : Int, file : Int]
Places ==
    {"rest", "sweep", "remove lock", "removing", "comparing", "unlinking", "open", "judge", "miss", "hit",
     "store lock", "storing", "renaming", "after store"}
OpT ==
    [pc : Places, key : CacheKeys, then : {"open", "hit", "miss"}, seen : Entries, batch : SUBSET CacheKeys,
     path : CacheKeys]
UnderLock == {"removing", "comparing", "unlinking", "storing", "renaming"}
Examined == {"comparing", "unlinking"}

CacheTyped ==
    /\ DOMAIN cacheFiles \subseteq CacheKeys
    /\ \A k \in DOMAIN cacheFiles : cacheFiles[k] \in Entries
    /\ cacheOp \in [CacheProcs -> OpT \cup {AtRest}]
    /\ cacheClock \in Int /\ cacheStores \in Int

\* Whoever changes the directory holds its lock, so that nobody else does.
LockHeld == \A p \in CacheProcs : cacheOp[p].pc \in UnderLock => cacheLock = p

\* What removeExpired has opened has expired, and once it has compared, that is
\* what the path still holds: nobody else may rename over it meanwhile.
GoesOn(op) ==
    /\ op.pc \in Examined => Expired(op.seen)
    /\ op.pc = "unlinking" => EntryAt(op.path) = op.seen
ExaminedHolds == \A p \in CacheProcs : GoesOn(cacheOp[p])

CacheInv == CacheTyped /\ LockHeld /\ ExaminedHolds

\* A step of one process that does not come under the lock, or has taken it,
\* and changes files only when it holds it.
LEMMA MoveStep ==
  ASSUME CacheInv, NEW p \in CacheProcs, NEW op \in OpT \cup {AtRest},
         cacheOp' = [cacheOp EXCEPT ![p] = op],
         DOMAIN cacheFiles' \subseteq CacheKeys, \A k \in DOMAIN cacheFiles' : cacheFiles'[k] \in Entries,
         cacheClock' = cacheClock, cacheStores' \in Int,
         op.pc \in UnderLock => cacheLock' = p,
         cacheLock' = cacheLock \/ cacheLock = p \/ cacheLock = Unlocked,
         cacheFiles' = cacheFiles \/ cacheLock = p,
         op.pc \in Examined => cacheFiles' = cacheFiles /\ GoesOn(op)
  PROVE  CacheInv'
<1>1. /\ cacheOp' \in [CacheProcs -> OpT \cup {AtRest}] /\ cacheOp'[p] = op
      /\ \A q \in CacheProcs : q # p => cacheOp'[q] = cacheOp[q]
  BY DEF CacheInv, CacheTyped
<1>2. CacheTyped'
  BY <1>1 DEF CacheInv, CacheTyped
<1>3. LockHeld'
  BY <1>1, CacheAssumption DEF CacheInv, LockHeld
<1>4. ASSUME NEW q \in CacheProcs
      PROVE  GoesOn(cacheOp[q])'
  <2>1. CASE q = p
    BY <1>1, <2>1 DEF GoesOn, Examined, EntryAt, Expired
  <2>2. CASE q # p /\ cacheFiles' = cacheFiles
    BY <1>1, <2>2 DEF CacheInv, ExaminedHolds, GoesOn, EntryAt, Expired
  <2>3. CASE q # p /\ cacheLock = p
    <3>1. cacheOp[q].pc \notin Examined
      BY <2>3 DEF CacheInv, LockHeld, UnderLock, Examined
    <3> QED
      BY <1>1, <2>3, <3>1 DEF GoesOn, Examined
  <2> QED
    BY <2>1, <2>2, <2>3
<1> QED
  BY <1>2, <1>3, <1>4 DEF CacheInv, ExaminedHolds

LEMMA CacheInvInit == CacheInit => CacheInv
BY DEF CacheInit, CacheInv, CacheTyped, LockHeld, UnderLock, ExaminedHolds, GoesOn, Examined, AtRest

LEMMA AtPlace ==
  ASSUME CacheTyped, NEW p \in CacheProcs
  PROVE  /\ cacheOp[p].pc # "rest" => cacheOp[p] \in OpT
         /\ cacheOp[p] \in OpT => \A pc \in Places : /\ [cacheOp[p] EXCEPT !.pc = pc] \in OpT
                                                     /\ [cacheOp[p] EXCEPT !.pc = pc].pc = pc
BY DEF CacheTyped, OpT, AtRest

\* A process goes from one place to another and leaves the files alone.
LEMMA StepStep ==
  ASSUME CacheInv, NEW p \in CacheProcs, NEW pc \in Places, cacheOp[p].pc # "rest", Step(p, pc),
         UNCHANGED <<cacheFiles, cacheClock, cacheStores>>, pc \notin Examined,
         pc \in UnderLock => cacheLock' = p,
         cacheLock' = cacheLock \/ cacheLock = p \/ cacheLock = Unlocked
  PROVE  CacheInv'
<1> DEFINE op == [cacheOp[p] EXCEPT !.pc = pc]
<1>1. op \in OpT /\ op.pc = pc
  BY AtPlace DEF CacheInv
<1>2. cacheOp' = [cacheOp EXCEPT ![p] = op]
  BY DEF Step
<1>3. DOMAIN cacheFiles' \subseteq CacheKeys /\ \A k \in DOMAIN cacheFiles' : cacheFiles'[k] \in Entries
  BY DEF CacheInv, CacheTyped
<1>4. cacheStores' \in Int
  BY DEF CacheInv, CacheTyped
<1> HIDE DEF op
<1> QED
  BY <1>1, <1>2, <1>3, <1>4, MoveStep

LEMMA EntryTyped ==
  ASSUME CacheTyped, NEW k
  PROVE  EntryAt(k) \in Entries
BY DEF CacheTyped, EntryAt, NoEntry, Entries

LEMMA OpStep ==
  ASSUME CacheInv, NEW p \in CacheProcs, NEW op \in OpT \cup {AtRest}, Turn(p, op), op.pc \notin UnderLock,
         UNCHANGED <<cacheFiles, cacheClock>>, cacheStores' \in Int,
         cacheLock' = cacheLock \/ cacheLock = p
  PROVE  CacheInv'
<1>1. DOMAIN cacheFiles' \subseteq CacheKeys /\ \A k \in DOMAIN cacheFiles' : cacheFiles'[k] \in Entries
  BY DEF CacheInv, CacheTyped
<1>2. op.pc \notin Examined
  BY DEF UnderLock, Examined
<1> QED
  BY <1>1, <1>2, MoveStep DEF Turn

LEMMA TurnSteps ==
  ASSUME CacheInv, NEW p \in CacheProcs,
         \/ \E k \in CacheKeys : Load(p, k)
         \/ OpenEntry(p) \/ Miss(p) \/ Hit(p) \/ AfterStore(p) \/ CacheCrash(p)
  PROVE  CacheInv'
<1> USE DEF UnderLock
<1>1. CacheTyped /\ cacheStores \in Int /\ cacheStores + 1 \in Int /\ cacheClock \in Int
  BY DEF CacheInv, CacheTyped
<1>2. AtRest \in OpT \cup {AtRest} /\ AtRest.pc \notin UnderLock
  BY DEF AtRest
<1>3. ASSUME NEW k \in CacheKeys, Load(p, k)
      PROVE  CacheInv'
  <2> DEFINE op == [pc |-> "sweep", key |-> k, then |-> "open", seen |-> NoEntry, batch |-> {}, path |-> k]
  <2>1. op \in OpT /\ op.pc = "sweep"
    BY DEF OpT, Places, NoEntry, Entries
  <2>2. Turn(p, op)
    BY <1>3 DEF Load
  <2> HIDE DEF op
  <2> QED
    BY <1>1, <1>3, <2>1, <2>2, OpStep DEF Load
<1>4. CASE OpenEntry(p)
  <2> DEFINE op == [cacheOp[p] EXCEPT !.pc = "judge", !.seen = EntryAt(cacheOp[p].key)]
  <2>1. cacheOp[p] \in OpT
    BY <1>1, <1>4, AtPlace DEF OpenEntry
  <2>2. op \in OpT /\ op.pc = "judge"
    BY <1>1, <2>1, EntryTyped DEF OpT, Places
  <2>3. Turn(p, op)
    BY <1>4 DEF OpenEntry
  <2> HIDE DEF op
  <2> QED
    BY <1>1, <1>4, <2>2, <2>3, OpStep DEF OpenEntry
<1>5. CASE Miss(p)
  <2> DEFINE op == [cacheOp[p] EXCEPT !.pc = "store lock",
                                      !.seen = [born |-> cacheClock, file |-> cacheStores + 1]]
  <2>1. cacheOp[p] \in OpT
    BY <1>1, <1>5, AtPlace DEF Miss
  <2>2. [born |-> cacheClock, file |-> cacheStores + 1] \in Entries
    BY <1>1 DEF Entries
  <2>3. op \in OpT /\ op.pc = "store lock"
    BY <2>1, <2>2 DEF OpT, Places
  <2>4. \/ Turn(p, op) /\ cacheStores' = cacheStores + 1
        \/ Turn(p, AtRest) /\ cacheStores' = cacheStores
    BY <1>5 DEF Miss
  <2> HIDE DEF op
  <2>5. CASE Turn(p, op) /\ cacheStores' = cacheStores + 1
    BY <1>1, <1>5, <2>3, <2>5, OpStep DEF Miss
  <2>6. CASE Turn(p, AtRest) /\ cacheStores' = cacheStores
    BY <1>1, <1>2, <1>5, <2>6, OpStep DEF Miss
  <2> QED
    BY <2>4, <2>5, <2>6
<1>6. CASE Hit(p)
  BY <1>1, <1>2, <1>6, OpStep DEF Hit
<1>7. CASE AfterStore(p)
  <2> DEFINE op == [cacheOp[p] EXCEPT !.pc = "sweep", !.then = "hit"]
  <2>1. cacheOp[p] \in OpT
    BY <1>1, <1>7, AtPlace DEF AfterStore
  <2>2. op \in OpT /\ op.pc = "sweep"
    BY <2>1 DEF OpT, Places
  <2>3. Turn(p, op)
    BY <1>7 DEF AfterStore
  <2> HIDE DEF op
  <2> QED
    BY <1>1, <1>7, <2>2, <2>3, OpStep DEF AfterStore
<1>8. CASE CacheCrash(p)
  BY <1>1, <1>2, <1>8, OpStep DEF CacheCrash
<1> QED
  BY <1>3, <1>4, <1>5, <1>6, <1>7, <1>8

LEMMA SweepStep ==
  ASSUME CacheInv, NEW p \in CacheProcs, Sweep(p)
  PROVE  CacheInv'
<1>1. CacheTyped /\ cacheOp[p] \in OpT /\ cacheOp[p].pc = "sweep"
  BY AtPlace DEF Sweep, CacheInv
<1>2. CASE Step(p, cacheOp[p].then)
  <2>1. cacheOp[p].then \in Places \ UnderLock
    BY <1>1 DEF OpT, Places, UnderLock
  <2> QED
    BY <1>1, <1>2, <2>1, StepStep DEF Sweep, UnderLock, Examined
<1>3. ASSUME NEW batch \in SUBSET (DOMAIN cacheFiles \ cacheSwept[p]),
             Turn(p, [cacheOp[p] EXCEPT !.pc = "remove lock", !.batch = batch])
      PROVE  CacheInv'
  <2> DEFINE op == [cacheOp[p] EXCEPT !.pc = "remove lock", !.batch = batch]
  <2>1. batch \in SUBSET CacheKeys
    BY <1>1 DEF CacheTyped
  <2>2. op \in OpT /\ op.pc = "remove lock"
    BY <1>1, <2>1 DEF OpT, Places
  <2>3. cacheStores' \in Int
    BY <1>1 DEF Sweep, CacheTyped
  <2>4. Turn(p, op)
    BY <1>3
  <2> HIDE DEF op
  <2> QED
    BY <2>2, <2>3, <2>4, OpStep DEF Sweep, UnderLock
<1> QED
  BY <1>2, <1>3 DEF Sweep

\* Taking the lock or waiting for it in vain, and a temporary file that is
\* written or not.
LEMMA LockSteps ==
  ASSUME CacheInv, NEW p \in CacheProcs, TakeLock(p) \/ StoreTemp(p)
  PROVE  CacheInv'
<1>1. CacheTyped /\ cacheOp[p] \in OpT
  BY AtPlace DEF TakeLock, StoreTemp, CacheInv
<1>2. ASSUME NEW pc \in Places, cacheOp[p].pc # "rest", Step(p, pc), UNCHANGED <<cacheFiles, cacheClock, cacheStores>>,
             pc \notin Examined, pc \in UnderLock => cacheLock' = p,
             cacheLock' = cacheLock \/ cacheLock = p \/ cacheLock = Unlocked
      PROVE  CacheInv'
  BY <1>2, StepStep
<1>3. ASSUME TakeLock(p), NEW pc \in {"removing", "storing"}, NEW otherwise \in Places \ UnderLock,
             WithCacheLock(p, pc, otherwise)
      PROVE  CacheInv'
  <2>1. \/ cacheLock = Unlocked /\ cacheLock' = p /\ Step(p, pc)
        \/ UNCHANGED cacheLock /\ Step(p, otherwise)
    BY <1>3 DEF WithCacheLock
  <2>2. UNCHANGED <<cacheFiles, cacheClock, cacheStores>> /\ cacheOp[p].pc # "rest"
    BY <1>3 DEF TakeLock
  <2>3. pc \in Places /\ pc \notin Examined /\ otherwise \in Places /\ otherwise \notin Examined
    BY <1>3 DEF Places, UnderLock, Examined
  <2> QED
    BY <1>2, <1>3, <2>1, <2>2, <2>3
<1>4. CASE TakeLock(p)
  <2>1. cacheOp[p].then \in Places \ UnderLock /\ "after store" \in Places \ UnderLock
    BY <1>1 DEF OpT, Places, UnderLock
  <2> QED
    BY <1>3, <1>4, <2>1 DEF TakeLock
<1>5. CASE StoreTemp(p)
  <2>1. cacheLock = p /\ cacheOp[p].pc = "storing"
    BY <1>5 DEF StoreTemp, CacheInv, LockHeld, UnderLock
  <2>2. \/ Step(p, "renaming") /\ UNCHANGED cacheLock
        \/ Step(p, "after store") /\ cacheLock' = Unlocked
    BY <1>5 DEF StoreTemp
  <2>3. UNCHANGED <<cacheFiles, cacheClock, cacheStores>>
    BY <1>5 DEF StoreTemp
  <2>4. /\ "renaming" \in Places /\ "renaming" \notin Examined
        /\ "after store" \in Places /\ "after store" \notin Examined /\ "after store" \notin UnderLock
    BY DEF Places, UnderLock, Examined
  <2> QED
    BY <1>2, <2>1, <2>2, <2>3, <2>4
<1> QED
  BY <1>4, <1>5

LEMMA JudgeStep ==
  ASSUME CacheInv, NEW p \in CacheProcs, JudgeEntry(p)
  PROVE  CacheInv'
<1>1. CacheTyped /\ cacheOp[p] \in OpT
  BY AtPlace DEF JudgeEntry, CacheInv
<1>2. UNCHANGED <<cacheFiles, cacheLock, cacheClock, cacheStores>> /\ cacheOp[p].pc # "rest" /\ cacheStores' \in Int
  BY <1>1 DEF JudgeEntry, CacheTyped
<1>3. CASE Step(p, "miss") \/ Step(p, "hit")
  BY <1>2, <1>3, StepStep DEF Places, UnderLock, Examined
<1>4. CASE Turn(p, [cacheOp[p] EXCEPT !.pc = "remove lock", !.then = "miss", !.batch = {cacheOp[p].key}])
  <2> DEFINE op == [cacheOp[p] EXCEPT !.pc = "remove lock", !.then = "miss", !.batch = {cacheOp[p].key}]
  <2>1. op \in OpT /\ op.pc = "remove lock"
    BY <1>1 DEF OpT, Places
  <2>2. Turn(p, op)
    BY <1>4
  <2> HIDE DEF op
  <2> QED
    BY <1>2, <2>1, <2>2, OpStep DEF UnderLock
<1> QED
  BY <1>3, <1>4 DEF JudgeEntry

\* What is done under the lock.
LEMMA ChangeSteps ==
  ASSUME CacheInv, NEW p \in CacheProcs,
         ExamineEntry(p) \/ CompareEntry(p) \/ RemoveEntry(p) \/ StoreRename(p)
  PROVE  CacheInv'
<1>1. CacheTyped /\ cacheOp[p] \in OpT
  BY AtPlace DEF ExamineEntry, CompareEntry, RemoveEntry, StoreRename, CacheInv
<1>2. cacheLock = p
  BY DEF ExamineEntry, CompareEntry, RemoveEntry, StoreRename, CacheInv, LockHeld, UnderLock
<1>3. \A pc \in Places : [cacheOp[p] EXCEPT !.pc = pc] \in OpT /\ [cacheOp[p] EXCEPT !.pc = pc].pc = pc
  BY <1>1, AtPlace
<1>4. ASSUME NEW op \in OpT, cacheOp' = [cacheOp EXCEPT ![p] = op],
             DOMAIN cacheFiles' \subseteq CacheKeys, \A x \in DOMAIN cacheFiles' : cacheFiles'[x] \in Entries,
             op.pc \in UnderLock => cacheLock' = p, UNCHANGED <<cacheClock, cacheStores>>,
             op.pc \in Examined => cacheFiles' = cacheFiles /\ GoesOn(op)
      PROVE  CacheInv'
  <2>1. cacheStores' \in Int
    BY <1>1, <1>4 DEF CacheTyped
  <2> QED
    BY <1>2, <1>4, <2>1, MoveStep
<1>5. CASE ExamineEntry(p) /\ cacheOp[p].batch = {}
  <2> DEFINE op == [cacheOp[p] EXCEPT !.pc = cacheOp[p].then]
  <2>1. cacheOp[p].then \in Places \ UnderLock
    BY <1>1 DEF OpT, Places, UnderLock
  <2>2. op \in OpT /\ op.pc \notin UnderLock /\ op.pc \notin Examined
    BY <1>3, <2>1 DEF UnderLock, Examined
  <2>3. cacheOp' = [cacheOp EXCEPT ![p] = op] /\ UNCHANGED <<cacheFiles, cacheClock, cacheStores>>
    BY <1>5 DEF ExamineEntry, Step
  <2> HIDE DEF op
  <2> QED
    BY <1>1, <1>4, <2>2, <2>3 DEF CacheTyped
<1>6. ASSUME ExamineEntry(p), NEW k \in cacheOp[p].batch,
             k \in DOMAIN cacheFiles /\ Expired(cacheFiles[k]), cacheLock' = cacheLock,
             Turn(p, [cacheOp[p] EXCEPT !.pc = "comparing", !.seen = cacheFiles[k],
                                        !.batch = @ \ {k}, !.path = k])
      PROVE  CacheInv'
  <2> DEFINE op == [cacheOp[p] EXCEPT !.pc = "comparing", !.seen = cacheFiles[k],
                                      !.batch = @ \ {k}, !.path = k]
  <2>1. k \in CacheKeys /\ cacheFiles[k] \in Entries
    BY <1>1, <1>6 DEF CacheTyped
  <2>2. op \in OpT /\ op.pc = "comparing" /\ op.seen = cacheFiles[k]
    BY <1>1, <2>1 DEF OpT, Places
  <2>3. cacheOp' = [cacheOp EXCEPT ![p] = op] /\ UNCHANGED <<cacheFiles, cacheClock, cacheStores>>
    BY <1>6 DEF ExamineEntry, Turn
  <2> HIDE DEF op
  <2>4. GoesOn(op)
    BY <1>6, <2>2 DEF GoesOn
  <2> QED
    BY <1>1, <1>2, <1>4, <1>6, <2>2, <2>3, <2>4 DEF CacheTyped
<1>7. ASSUME ExamineEntry(p), NEW k \in cacheOp[p].batch, cacheLock' = cacheLock,
             Turn(p, [cacheOp[p] EXCEPT !.batch = @ \ {k}])
      PROVE  CacheInv'
  <2> DEFINE op == [cacheOp[p] EXCEPT !.batch = @ \ {k}]
  <2>1. op \in OpT /\ op.pc = "removing"
    BY <1>1, <1>7 DEF OpT, ExamineEntry
  <2>2. cacheOp' = [cacheOp EXCEPT ![p] = op] /\ UNCHANGED <<cacheFiles, cacheClock, cacheStores>>
    BY <1>7 DEF ExamineEntry, Turn
  <2> HIDE DEF op
  <2> QED
    BY <1>1, <1>2, <1>4, <1>7, <2>1, <2>2 DEF CacheTyped, Examined
<1>8. CASE CompareEntry(p)
  <2>1. cacheOp[p].pc = "comparing" /\ UNCHANGED <<cacheFiles, cacheLock, cacheClock, cacheStores>>
    BY <1>8 DEF CompareEntry
  <2>2. Expired(cacheOp[p].seen)
    BY <2>1 DEF CacheInv, ExaminedHolds, GoesOn, Examined
  <2>3. CASE EntryAt(cacheOp[p].path) = cacheOp[p].seen /\ Step(p, "unlinking")
    <3> DEFINE op == [cacheOp[p] EXCEPT !.pc = "unlinking"]
    <3>1. op \in OpT /\ op.pc = "unlinking" /\ op.seen = cacheOp[p].seen /\ op.path = cacheOp[p].path
      BY <1>1 DEF OpT, Places
    <3>2. cacheOp' = [cacheOp EXCEPT ![p] = op]
      BY <2>3 DEF Step
    <3> HIDE DEF op
    <3>3. GoesOn(op)
      BY <2>2, <2>3, <3>1 DEF GoesOn
    <3> QED
      BY <1>1, <1>2, <1>4, <2>1, <3>1, <3>2, <3>3 DEF CacheTyped
  <2>4. CASE Step(p, "removing")
    BY <1>2, <2>1, <2>4, StepStep DEF Places, Examined
  <2> QED
    BY <1>8, <2>3, <2>4 DEF CompareEntry
<1>9. CASE RemoveEntry(p)
  <2> DEFINE op == [cacheOp[p] EXCEPT !.pc = "removing"]
  <2>1. op \in OpT /\ op.pc = "removing"
    BY <1>3 DEF Places
  <2>2. cacheOp' = [cacheOp EXCEPT ![p] = op] /\ UNCHANGED <<cacheLock, cacheClock, cacheStores>>
    BY <1>9 DEF RemoveEntry, Step
  <2>3. DOMAIN cacheFiles' \subseteq CacheKeys /\ \A x \in DOMAIN cacheFiles' : cacheFiles'[x] \in Entries
    BY <1>1, <1>9 DEF RemoveEntry, Without, CacheTyped
  <2> HIDE DEF op
  <2> QED
    BY <1>2, <1>4, <2>1, <2>2, <2>3 DEF Examined
<1>10. CASE StoreRename(p)
  <2> DEFINE op == [cacheOp[p] EXCEPT !.pc = "after store"]
  <2>1. op \in OpT /\ op.pc \notin UnderLock /\ op.pc \notin Examined
    BY <1>3 DEF Places, UnderLock, Examined
  <2>2. cacheOp' = [cacheOp EXCEPT ![p] = op] /\ UNCHANGED <<cacheClock, cacheStores>>
    BY <1>10 DEF StoreRename, Step
  <2>3. cacheOp[p].key \in CacheKeys /\ cacheOp[p].seen \in Entries
    BY <1>1 DEF OpT
  <2>4. DOMAIN cacheFiles' \subseteq CacheKeys /\ \A x \in DOMAIN cacheFiles' : cacheFiles'[x] \in Entries
    BY <1>1, <1>10, <2>3 DEF StoreRename, CacheTyped
  <2> HIDE DEF op
  <2> QED
    BY <1>4, <2>1, <2>2, <2>4
<1> QED
  BY <1>5, <1>6, <1>7, <1>8, <1>9, <1>10 DEF ExamineEntry

LEMMA CacheInvStep == CacheInv /\ [CacheNext]_cacheVars => CacheInv'
<1> SUFFICES ASSUME CacheInv, [CacheNext]_cacheVars PROVE CacheInv'
  OBVIOUS
<1>1. CASE UNCHANGED <<cacheFiles, cacheLock, cacheOp, cacheStores>> /\ cacheClock' \in Int /\ cacheClock' >= cacheClock
  <2>1. CacheTyped' /\ LockHeld'
    BY <1>1 DEF CacheInv, CacheTyped, LockHeld
  <2>2. ASSUME NEW p \in CacheProcs, cacheOp[p].pc \in Examined
        PROVE  Expired(cacheOp[p].seen)'
    <3>1. cacheOp[p].seen.born \in Int
      BY <2>2 DEF CacheInv, CacheTyped, OpT, Entries, AtRest, Examined
    <3>2. cacheClock - cacheOp[p].seen.born > CacheTTL
      BY <2>2 DEF CacheInv, ExaminedHolds, GoesOn, Expired
    <3>3. cacheClock \in Int
      BY DEF CacheInv, CacheTyped
    <3> QED
      BY <1>1, <3>1, <3>2, <3>3, CacheAssumption DEF Expired
  <2>3. ExaminedHolds'
    BY <1>1, <2>2 DEF CacheInv, ExaminedHolds, GoesOn, EntryAt
  <2> QED
    BY <2>1, <2>3 DEF CacheInv
<1>2. CASE UNCHANGED cacheVars \/ CacheTick \/ \E p \in CacheProcs : CloseCache(p)
  <2>1. cacheClock' \in Int /\ cacheClock' >= cacheClock
    BY <1>2 DEF cacheVars, CacheTick, CloseCache, CacheInv, CacheTyped
  <2> QED
    BY <1>1, <1>2, <2>1 DEF cacheVars, CacheTick, CloseCache
<1>3. ASSUME NEW p \in CacheProcs,
             \/ \E k \in CacheKeys : Load(p, k)
             \/ OpenEntry(p) \/ Miss(p) \/ Hit(p) \/ AfterStore(p) \/ CacheCrash(p)
      PROVE  CacheInv'
  BY <1>3, TurnSteps
<1>4. ASSUME NEW p \in CacheProcs,
             Sweep(p) \/ TakeLock(p) \/ StoreTemp(p) \/ JudgeEntry(p)
             \/ ExamineEntry(p) \/ CompareEntry(p) \/ RemoveEntry(p) \/ StoreRename(p)
      PROVE  CacheInv'
  BY <1>4, SweepStep, LockSteps, JudgeStep, ChangeSteps
<1> QED
  BY <1>2, <1>3, <1>4 DEF CacheNext

\* However processes load, store, sweep and die: only who holds the lock of the
\* directory reads an entry to remove it, writes a temporary file or renames one
\* (withCacheLock).
THEOREM LockIsHeld == CacheSpec => []LockHeld
<1>1. CacheInit => CacheInv
  BY CacheInvInit
<1>2. CacheInv /\ [CacheNext]_cacheVars => CacheInv'
  BY CacheInvStep
<1>3. CacheInv => LockHeld
  BY DEF CacheInv
<1> QED
  BY <1>1, <1>2, <1>3, PTL DEF CacheSpec

\* What no sweep, drop, store or death of a process takes away.
FreshStays == \A k \in DOMAIN cacheFiles : ~Expired(cacheFiles[k]) => k \in DOMAIN cacheFiles'

LEMMA FreshStep ==
  ASSUME CacheInv, [CacheNext]_cacheVars
  PROVE  FreshStays
<1>1. ASSUME NEW p \in CacheProcs, RemoveEntry(p)
      PROVE  FreshStays
  <2>1. CASE UNCHANGED cacheFiles
    BY <2>1 DEF FreshStays
  <2>2. CASE cacheFiles' = Without(cacheOp[p].path)
    <3>1. DOMAIN cacheFiles' = DOMAIN cacheFiles \ {cacheOp[p].path}
      BY <2>2 DEF Without
    <3>2. Expired(EntryAt(cacheOp[p].path))
      BY <1>1 DEF RemoveEntry, CacheInv, ExaminedHolds, GoesOn, Examined
    <3> QED
      BY <3>1, <3>2 DEF FreshStays, EntryAt
  <2> QED
    BY <1>1, <2>1, <2>2 DEF RemoveEntry
<1>2. ASSUME NEW p \in CacheProcs, StoreRename(p)
      PROVE  FreshStays
  BY <1>2 DEF StoreRename, FreshStays
<1>3. CASE UNCHANGED cacheFiles
  BY <1>3 DEF FreshStays
<1>4. ASSUME NEW p \in CacheProcs, NEW k \in CacheKeys, Load(p, k)
      PROVE  UNCHANGED cacheFiles
  BY <1>4 DEF Load
<1>5. ASSUME NEW p \in CacheProcs,
             \/ Sweep(p) \/ TakeLock(p) \/ ExamineEntry(p) \/ CompareEntry(p) \/ OpenEntry(p) \/ JudgeEntry(p)
             \/ Miss(p) \/ Hit(p) \/ StoreTemp(p) \/ AfterStore(p) \/ CloseCache(p) \/ CacheCrash(p)
      PROVE  UNCHANGED cacheFiles
  BY <1>5 DEF Sweep, TakeLock, ExamineEntry, CompareEntry, OpenEntry, JudgeEntry, Miss, Hit, StoreTemp,
              AfterStore, CloseCache, CacheCrash
<1>6. CASE CacheTick \/ UNCHANGED cacheVars
  BY <1>3, <1>6 DEF CacheTick, cacheVars
<1> QED
  BY <1>1, <1>2, <1>3, <1>4, <1>5, <1>6 DEF CacheNext

\* No step takes away a page that has not expired, although a removal opens the
\* entry, compares it and unlinks its path in three moments, and stores, other
\* removals and deaths come in between: the lock keeps every rename out until it
\* is done (withCacheLock, removeExpired).
THEOREM FreshAreKept == CacheSpec => FreshKept
<1>1. CacheInit => CacheInv
  BY CacheInvInit
<1>2. CacheInv /\ [CacheNext]_cacheVars => CacheInv'
  BY CacheInvStep
<1>3. CacheInv /\ [CacheNext]_cacheVars => [FreshStays]_cacheVars
  BY FreshStep
<1> QED
  BY <1>1, <1>2, <1>3, PTL DEF CacheSpec, FreshKept, FreshStays
-----------------------------------------------------------------------------
(* The renderer: who makes it, who owns it, who waits for it.              *)

Working == {"get", "parse", "ensure", "wait", "make", "install", "discard", "slot", "browse"}
Who == WebCalls \cup {NoOne}
TabT == [requests : Nat, inFlight : Nat, bytes : Nat, failed : {"", "budget", "failed"}]
CallT ==
    [pc : Working, req : WebRequests, from : {"none", "static", "raw", "jina", "search"}, try : Nat,
     hops : Nat, stopped : BOOLEAN, html : {"none", "static", "rendered", "fallback"}, uses : Who,
     tab : TabT \cup {<<>>}]
Answers ==
    {"refused", "cached", "canceled", "error", "none", "static", "raw", "jina", "search", "rendered", "fallback"}
DoneT == [pc : {"done"}, answer : Answers]
CallsT == CallT \cup DoneT \cup {WebIdle}

CallsTyped ==
    /\ webCall \in [WebCalls -> CallsT]
    /\ \A c \in WebCalls : At(c, "browse") => webCall[c].tab \in TabT

SharedTyped ==
    /\ webRenderer \in Who /\ webInit \in Who /\ webRenderErr \in BOOLEAN /\ webClosed \in BOOLEAN
    /\ webOpen \subseteq WebCalls /\ webInited \subseteq WebCalls
    /\ webSlots \in 0 .. WebSlots
    /\ webClose \in [pc : {"none", "closing", "waiting", "closed", "gave up"}, renderer : Who, init : Who]
    /\ webClosed <=> webClose.pc # "none"

\* A fetch that is making the renderer, has made it, or is throwing it away.
Makes(c) == webCall[c].pc \in {"make", "install", "discard"}

\* A fetch that has told those who waited for its renderer never makes another.
ToldOthers(c) ==
    \/ webCall[c].pc \in {"slot", "browse", "parse", "done"}
    \/ At(c, "get") /\ webCall[c].from = "jina"

\* The fetch at renderInit is the one that makes the renderer, until it is back
\* under the lock; a Close that came in between has taken note of it.
MakerInv ==
    \A c \in WebCalls :
        /\ webInit = c <=> webCall[c].pc \in {"make", "install"}
        /\ At(c, "discard") => webClosed /\ webInit = NoOne
        /\ Makes(c) => c \notin webInited
        /\ Makes(c) /\ webClosed => webClose.init = c /\ webClose.renderer = NoOne
        /\ c \in webInited => ToldOthers(c)

WaiterInv ==
    \A c \in WebCalls : At(c, "wait") =>
        webCall[c].uses \in WebCalls /\ (webCall[c].uses \in webInited \/ Makes(webCall[c].uses))

\* Who owns a renderer that is open.
OwnerInv ==
    /\ webRenderer # NoOne => webInit = NoOne /\ ~webClosed
    /\ \A r \in webOpen :
          \/ r = webRenderer
          \/ webCall[r].pc \in {"install", "discard"}
          \/ webClose.pc = "closing" /\ webClose.renderer = r
    /\ webClose.pc = "closed" => \A c \in WebCalls : ~Makes(c)

Browsers == {c \in WebCalls : At(c, "browse")}
SlotInv == webSlots = Cardinality(Browsers)

WebInv == CallsTyped /\ SharedTyped /\ MakerInv /\ WaiterInv /\ OwnerInv /\ SlotInv
-----------------------------------------------------------------------------
(* What the operators on calls return.                                     *)

LEMMA AtWork ==
  ASSUME CallsTyped, NEW c \in WebCalls
  PROVE  /\ webCall[c] \in CallsT
         /\ webCall[c].pc \in Working => webCall[c] \in CallT
         /\ At(c, "idle") <=> webCall[c] = WebIdle
BY DEF CallsTyped, CallsT, CallT, DoneT, WebIdle, Working, At

LEMMA NewCall ==
  ASSUME NEW r \in WebRequests, NEW pc \in Working,
         NEW from \in {"none", "static", "raw", "jina", "search"}
  PROVE  Call(r, pc, from) \in CallT /\ Call(r, pc, from).pc = pc
BY DEF Call, CallT, Who

\* Whatever a rung of the ladder does with a call, it ends up away from the
\* renderer, and below the static reader.
Below(call) ==
    /\ call \in CallsT
    /\ call.pc \in {"parse", "done"} \/ (call.pc = "get" /\ call.from = "jina")

LEMMA DoneBelow ==
  ASSUME NEW answer \in Answers
  PROVE  Below(Done(answer))
BY DEF Done, DoneT, CallsT, Below

LEMMA GiveUpBelow ==
  ASSUME NEW call \in CallT
  PROVE  Below(GiveUp(call))
BY DEF GiveUp, Done, DoneT, CallsT, Below, Answers

LEMMA OrJinaBelow ==
  ASSUME NEW call \in CallT
  PROVE  Below(OrJina(call))
<1>1. Below(Get(call, "jina"))
  BY DEF Get, CallT, CallsT, Below, Working
<1> QED
  BY <1>1, GiveUpBelow DEF OrJina

LEMMA ParseBelow ==
  ASSUME NEW call \in CallT, NEW html \in {"static", "rendered", "fallback"}
  PROVE  Below(Parse(call, html))
BY DEF Parse, CallT, CallsT, Below, Working, Who

LEMMA RenderFailedBelow ==
  ASSUME NEW call \in CallT
  PROVE  Below(RenderFailed(call))
<1>1. [call EXCEPT !.uses = NoOne, !.tab = <<>>] \in CallT
  BY DEF CallT, Who
<1> QED
  BY <1>1, ParseBelow, OrJinaBelow DEF RenderFailed

LEMMA GetFailedBelow ==
  ASSUME NEW call \in CallT
  PROVE  Below(GetFailed(call))
BY OrJinaBelow, GiveUpBelow DEF GetFailed

LEMMA ReceivedBelow ==
  ASSUME NEW call \in CallT, NEW usable \in BOOLEAN, NEW shell \in BOOLEAN
  PROVE  \/ Below(Received(call, usable, shell))
         \/ /\ call.from = "static"
            /\ Received(call, usable, shell) \in CallT /\ Received(call, usable, shell).pc = "ensure"
<1>1. CASE ~usable
  <2>1. Received(call, usable, shell) = GetFailed(call)
    BY <1>1 DEF Received, Parse
  <2> QED
    BY <2>1, GetFailedBelow
<1>2. CASE usable /\ call.from # "static"
  <2>1. Received(call, usable, shell) = Done(call.from)
    BY <1>2 DEF Received, Parse
  <2>2. call.from \in Answers
    BY DEF CallT, Answers
  <2>3. Below(Done(call.from))
    BY <2>2, DoneBelow
  <2> QED
    BY <2>1, <2>3
<1>3. CASE usable /\ call.from = "static" /\ call.req.render = "auto" /\ shell
  <2>1. Received(call, usable, shell) = [call EXCEPT !.pc = "ensure"]
    BY <1>3 DEF Received
  <2>2. [call EXCEPT !.pc = "ensure"] \in CallT /\ [call EXCEPT !.pc = "ensure"].pc = "ensure"
    BY DEF CallT, Working
  <2> QED
    BY <1>3, <2>1, <2>2
<1>4. CASE usable /\ call.from = "static" /\ ~(call.req.render = "auto" /\ shell)
  <2>1. Received(call, usable, shell) = Parse(call, "static")
    BY <1>4 DEF Received
  <2> QED
    BY <2>1, ParseBelow
<1> QED
  BY <1>1, <1>2, <1>3, <1>4
-----------------------------------------------------------------------------
(* Steps of a fetch on its own.                                            *)

\* A step that leaves the service alone: the fetch stays where it is, or goes
\* from a place that is not of the renderer to another one.
Quietly(c, new) ==
    /\ webCall' = [webCall EXCEPT ![c] = new] /\ new \in CallsT
    /\ UNCHANGED webShared
    /\ c \in webInited => new.pc \in {"slot", "browse", "parse", "done"} \/ (new.pc = "get" /\ new.from = "jina")
    /\ \/ /\ new.pc = webCall[c].pc
          /\ new.pc = "wait" => new.uses = webCall[c].uses
          /\ new.pc = "browse" => new.tab \in TabT
       \/ /\ webCall[c].pc \notin {"make", "install", "discard", "browse"}
          /\ new.pc \notin {"make", "install", "discard", "browse"}
          /\ new.pc = "wait" => new.uses \in WebCalls /\ (new.uses \in webInited \/ Makes(new.uses))

\* Who browses depends on the place of each fetch alone.
LEMMA SameBrowsers ==
  ASSUME \A c \in WebCalls : webCall'[c].pc = "browse" <=> webCall[c].pc = "browse"
  PROVE  Cardinality(Browsers)' = Cardinality(Browsers)
BY DEF Browsers, At

LEMMA QuietStep ==
  ASSUME WebInv, NEW c \in WebCalls, NEW new, Quietly(c, new)
  PROVE  WebInv'
<1> USE DEF At
<1>1. /\ webCall'[c] = new /\ webCall' \in [WebCalls -> CallsT]
      /\ \A d \in WebCalls : d # c => webCall'[d] = webCall[d]
      /\ UNCHANGED <<webRenderer, webRenderErr, webInit, webInited, webOpen, webSlots, webClosed, webClose>>
  BY DEF Quietly, WebInv, CallsTyped, webShared
<1>2. \A d \in WebCalls : webCall'[d].pc \in {"make", "install"} <=> webCall[d].pc \in {"make", "install"}
  BY <1>1 DEF Quietly
<1>3. \A d \in WebCalls : webCall'[d].pc = "discard" <=> webCall[d].pc = "discard"
  BY <1>1 DEF Quietly
<1>4. \A d \in WebCalls : webCall'[d].pc = "browse" <=> webCall[d].pc = "browse"
  BY <1>1 DEF Quietly
<1>5. \A d \in WebCalls : webCall'[d].pc = "wait" =>
         \/ webCall[d].pc = "wait" /\ webCall'[d].uses = webCall[d].uses
         \/ webCall'[d].uses \in WebCalls /\ (webCall'[d].uses \in webInited \/ Makes(webCall'[d].uses))
  BY <1>1 DEF Quietly
<1>6. CallsTyped'
  BY <1>1 DEF Quietly, WebInv, CallsTyped
<1>7. SharedTyped'
  BY <1>1 DEF WebInv, SharedTyped
<1>8. \A d \in WebCalls : Makes(d)' <=> Makes(d)
  BY <1>2, <1>3 DEF Makes
<1>9. MakerInv'
  <2>1. \A d \in WebCalls : d \in webInited => ToldOthers(d)'
    BY <1>1 DEF Quietly, ToldOthers, WebInv, MakerInv
  <2> QED
    BY <1>1, <1>2, <1>3, <1>8, <2>1 DEF WebInv, MakerInv
<1>10. WaiterInv'
  BY <1>1, <1>5, <1>8 DEF WebInv, WaiterInv
<1>11. OwnerInv'
  <2>1. \A d \in WebCalls : webCall[d].pc \in {"install", "discard"} => webCall'[d].pc \in {"install", "discard"}
    BY <1>1 DEF Quietly
  <2> QED
    BY <1>1, <1>8, <2>1 DEF WebInv, OwnerInv, SharedTyped
<1>12. SlotInv'
  BY <1>1, <1>4, SameBrowsers DEF WebInv, SlotInv
<1> QED
  BY <1>6, <1>7, <1>9, <1>10, <1>11, <1>12 DEF WebInv
\* A fetch that goes down the ladder from a place that is not of the renderer.
LEMMA BelowStep ==
  ASSUME WebInv, NEW c \in WebCalls, NEW new, Below(new),
         Become(c, new), UNCHANGED webShared,
         webCall[c].pc \notin {"make", "install", "discard", "browse"}
  PROVE  WebInv'
<1>1. new.pc \notin {"make", "install", "discard", "browse", "wait"}
  BY DEF Below
<1>2. Quietly(c, new)
  BY <1>1 DEF Quietly, Below, Become
<1> QED
  BY <1>2, QuietStep

\* A fetch that stays where it is and among those who were told.
LEMMA StaysStep ==
  ASSUME WebInv, NEW c \in WebCalls, NEW new \in CallT,
         webCall' = [webCall EXCEPT ![c] = new], UNCHANGED webShared,
         new.pc = webCall[c].pc, new.from = webCall[c].from, new.uses = webCall[c].uses,
         new.pc = "browse" => new.tab \in TabT
  PROVE  WebInv'
<1>1. new \in CallsT
  BY DEF CallsT
<1>2. c \in webInited => new.pc \in {"slot", "browse", "parse", "done"} \/ (new.pc = "get" /\ new.from = "jina")
  BY DEF WebInv, MakerInv, ToldOthers, At
<1>3. Quietly(c, new)
  BY <1>1, <1>2 DEF Quietly
<1> QED
  BY <1>3, QuietStep

LEMMA FetchStep ==
  ASSUME WebInv, NEW c \in WebCalls, NEW r \in WebRequests, Fetch(c, r)
  PROVE  WebInv'
<1>1. webCall[c].pc = "idle" /\ c \notin webInited
  BY DEF Fetch, At, WebInv, MakerInv, ToldOthers
<1>2. ASSUME NEW answer \in {"refused", "cached"}, Become(c, Done(answer))
      PROVE  WebInv'
  <2>1. Below(Done(answer))
    BY DoneBelow DEF Answers
  <2> QED
    BY <1>1, <1>2, <2>1, BelowStep DEF Fetch
<1>3. ASSUME NEW new \in CallT, new.pc \in {"get", "ensure"}, Become(c, new)
      PROVE  WebInv'
  <2>1. Quietly(c, new)
    BY <1>1, <1>3 DEF Quietly, Become, Fetch, CallsT
  <2> QED
    BY <2>1, QuietStep
<1>4. Call(r, "ensure", "none") \in CallT /\ Call(r, "ensure", "none").pc = "ensure"
  BY NewCall DEF Working
<1>5. Call(r, "get", FirstReader(r)) \in CallT /\ Call(r, "get", FirstReader(r)).pc = "get"
  BY NewCall DEF Working, FirstReader
<1> QED
  BY <1>2, <1>3, <1>4, <1>5 DEF Fetch

LEMMA StopStep ==
  ASSUME WebInv, NEW c \in WebCalls, Stop(c)
  PROVE  WebInv'
<1> DEFINE new == [webCall[c] EXCEPT !.stopped = TRUE]
<1>1. webCall[c] \in CallT
  BY DEF Stop, At, WebInv, CallsTyped, CallsT, DoneT, WebIdle
<1>2. new \in CallT /\ new.pc = webCall[c].pc /\ new.from = webCall[c].from
      /\ new.uses = webCall[c].uses /\ new.tab = webCall[c].tab
  BY <1>1 DEF CallT
<1>3. webCall' = [webCall EXCEPT ![c] = new]
  BY DEF Stop
<1>4. new.pc = "browse" => new.tab \in TabT
  BY <1>2 DEF WebInv, CallsTyped, At
<1> HIDE DEF new
<1> QED
  BY <1>2, <1>3, <1>4, StaysStep DEF Stop

LEMMA RedirectStep ==
  ASSUME WebInv, NEW c \in WebCalls, Redirect(c)
  PROVE  WebInv'
<1>1. webCall[c] \in CallT /\ webCall[c].pc = "get"
  BY AtWork DEF Redirect, At, WebInv, Working
<1>2. CASE Become(c, GetFailed(webCall[c]))
  BY <1>1, <1>2, GetFailedBelow, BelowStep DEF Redirect
<1>3. CASE Become(c, [webCall[c] EXCEPT !.hops = @ + 1])
  <2> DEFINE new == [webCall[c] EXCEPT !.hops = @ + 1]
  <2>1. new \in CallT /\ new.pc = "get" /\ new.from = webCall[c].from /\ new.uses = webCall[c].uses
    BY <1>1 DEF CallT
  <2>2. webCall' = [webCall EXCEPT ![c] = new]
    BY <1>3 DEF Become
  <2> HIDE DEF new
  <2> QED
    BY <1>1, <2>1, <2>2, StaysStep DEF Redirect
<1> QED
  BY <1>2, <1>3 DEF Redirect

LEMMA RetryStep ==
  ASSUME WebInv, NEW c \in WebCalls, Retry(c)
  PROVE  WebInv'
<1> DEFINE new == [webCall[c] EXCEPT !.try = @ + 1, !.hops = 0]
<1>1. webCall[c] \in CallT /\ webCall[c].pc = "get"
  BY AtWork DEF Retry, At, WebInv, Working
<1>2. new \in CallT /\ new.pc = "get" /\ new.from = webCall[c].from /\ new.uses = webCall[c].uses
  <2>1. webCall[c].try + 1 \in Nat /\ 0 \in Nat
    BY <1>1 DEF CallT
  <2> QED
    BY <1>1, <2>1 DEF CallT
<1>3. webCall' = [webCall EXCEPT ![c] = new]
  BY DEF Retry, Become
<1> HIDE DEF new
<1> QED
  BY <1>1, <1>2, <1>3, StaysStep DEF Retry

LEMMA AnsweredStep ==
  ASSUME WebInv, NEW c \in WebCalls, Answered(c)
  PROVE  WebInv'
<1>1. webCall[c] \in CallT /\ webCall[c].pc = "get"
  BY AtWork DEF Answered, At, WebInv, Working
<1>2. ASSUME NEW new, Below(new), Become(c, new)
      PROVE  WebInv'
  BY <1>1, <1>2, BelowStep DEF Answered
<1>3. ASSUME NEW new \in CallT, new.pc = "ensure", webCall[c].from = "static", Become(c, new)
      PROVE  WebInv'
  <2>1. c \notin webInited
    BY <1>1, <1>3 DEF WebInv, MakerInv, ToldOthers, At
  <2>2. Quietly(c, new)
    BY <1>1, <1>3, <2>1 DEF Quietly, Become, Answered, CallsT
  <2> QED
    BY <2>2, QuietStep
<1>4. CASE Become(c, GetFailed(webCall[c]))
  BY <1>1, <1>2, <1>4, GetFailedBelow
<1>5. ASSUME NEW usable \in BOOLEAN, NEW shell \in BOOLEAN, Become(c, Received(webCall[c], usable, shell))
      PROVE  WebInv'
  BY <1>1, <1>2, <1>3, <1>5, ReceivedBelow
<1> QED
  BY <1>4, <1>5 DEF Answered

LEMMA ParseStep ==
  ASSUME WebInv, NEW c \in WebCalls, ParseHTML(c)
  PROVE  WebInv'
<1>1. webCall[c] \in CallT /\ webCall[c].pc = "parse"
  BY AtWork DEF ParseHTML, At, WebInv, Working
<1>2. webCall[c].html \in Answers
  BY <1>1 DEF CallT, Answers
<1>3. Below(Done(webCall[c].html)) /\ Below(OrJina(webCall[c]))
  BY <1>1, <1>2, DoneBelow, OrJinaBelow
<1> QED
  BY <1>1, <1>3, BelowStep DEF ParseHTML
LEMMA AwaitStep ==
  ASSUME WebInv, NEW c \in WebCalls, AwaitRenderer(c)
  PROVE  WebInv'
<1>1. webCall[c] \in CallT /\ webCall[c].pc = "wait"
  BY AtWork DEF AwaitRenderer, At, WebInv, Working
<1>2. CASE Become(c, RenderFailed(webCall[c]))
  BY <1>1, <1>2, RenderFailedBelow, BelowStep DEF AwaitRenderer
<1>3. CASE Become(c, [webCall[c] EXCEPT !.pc = "ensure", !.uses = NoOne])
  <2> DEFINE new == [webCall[c] EXCEPT !.pc = "ensure", !.uses = NoOne]
  <2>1. new \in CallT /\ new.pc = "ensure"
    BY <1>1 DEF CallT, Working, Who
  <2>2. c \notin webInited
    BY <1>1 DEF WebInv, MakerInv, ToldOthers, At
  <2>3. Quietly(c, new)
    BY <1>1, <1>3, <2>1, <2>2 DEF Quietly, Become, AwaitRenderer, CallsT
  <2> HIDE DEF new
  <2> QED
    BY <2>3, QuietStep
<1> QED
  BY <1>2, <1>3 DEF AwaitRenderer

LEMMA BrowseStep ==
  ASSUME WebInv, NEW c \in WebCalls,
         BrowserRequest(c) \/ BrowserLoaded(c) \/ ProxyBytes(c) \/ BrowserFails(c)
  PROVE  WebInv'
<1>1. webCall[c] \in CallT /\ webCall[c].pc = "browse" /\ webCall[c].tab \in TabT
  BY AtWork DEF BrowserRequest, BrowserLoaded, ProxyBytes, BrowserFails, Browsing, At, WebInv, Working, CallsTyped
<1>2. ASSUME NEW tab \in TabT, Browse(c, tab)
      PROVE  WebInv'
  <2> DEFINE new == [webCall[c] EXCEPT !.tab = tab]
  <2>1. new \in CallT /\ new.pc = "browse" /\ new.from = webCall[c].from /\ new.uses = webCall[c].uses /\ new.tab = tab
    BY <1>1, <1>2 DEF CallT
  <2>2. webCall' = [webCall EXCEPT ![c] = new] /\ UNCHANGED webShared
    BY <1>2 DEF Browse
  <2> HIDE DEF new
  <2> QED
    BY <1>1, <2>1, <2>2, StaysStep
<1>3. webCall[c].tab.requests + 1 \in Nat /\ webCall[c].tab.bytes + 1 \in Nat /\ webCall[c].tab.inFlight \in Nat
  <2>1. webCall[c].tab.requests \in Nat /\ webCall[c].tab.bytes \in Nat /\ webCall[c].tab.inFlight \in Nat
    BY <1>1 DEF TabT
  <2> QED
    BY <2>1
<1>4. CASE BrowserRequest(c)
  <2>1. PICK waited \in 0 .. 1 :
          Browse(c, IF webCall[c].tab.requests = WebMaxRequests
                    THEN [webCall[c].tab EXCEPT !.requests = @ + 1, !.failed = "budget"]
                    ELSE [webCall[c].tab EXCEPT !.requests = @ + 1, !.inFlight = @ + waited])
    BY <1>4 DEF BrowserRequest
  <2>2. webCall[c].tab.inFlight + waited \in Nat
    BY <1>3
  <2>3. [webCall[c].tab EXCEPT !.requests = @ + 1, !.failed = "budget"] \in TabT
    BY <1>1, <1>3 DEF TabT
  <2>4. [webCall[c].tab EXCEPT !.requests = @ + 1, !.inFlight = @ + waited] \in TabT
    BY <1>1, <1>3, <2>2 DEF TabT
  <2> QED
    BY <1>2, <2>1, <2>3, <2>4
<1>5. CASE BrowserLoaded(c)
  <2>1. webCall[c].tab.inFlight - 1 \in Nat
    BY <1>3, <1>5 DEF BrowserLoaded
  <2>2. [webCall[c].tab EXCEPT !.inFlight = @ - 1] \in TabT
    BY <1>1, <2>1 DEF TabT
  <2> QED
    BY <1>2, <1>5, <2>2 DEF BrowserLoaded
<1>6. CASE ProxyBytes(c)
  <2>1. [webCall[c].tab EXCEPT !.bytes = @ + 1,
                               !.failed = IF webCall[c].tab.bytes = WebMaxBytes THEN "budget" ELSE ""] \in TabT
    BY <1>1, <1>3 DEF TabT
  <2> QED
    BY <1>2, <1>6, <2>1 DEF ProxyBytes
<1>7. CASE BrowserFails(c)
  <2>1. [webCall[c].tab EXCEPT !.failed = "failed"] \in TabT
    BY <1>1 DEF TabT
  <2> QED
    BY <1>2, <1>7, <2>1 DEF BrowserFails
<1> QED
  BY <1>4, <1>5, <1>6, <1>7
-----------------------------------------------------------------------------
(* Steps of the service.                                                   *)

LEMMA EnsureStep ==
  ASSUME WebInv, NEW c \in WebCalls, EnsureRenderer(c)
  PROVE  WebInv'
<1> USE DEF At
<1>1. webCall[c] \in CallT /\ webCall[c].pc = "ensure"
  BY AtWork DEF EnsureRenderer, WebInv, Working
<1>2. c \notin webInited
  BY <1>1 DEF WebInv, MakerInv, ToldOthers
<1>3. CASE Become(c, RenderFailed(webCall[c])) /\ UNCHANGED webInit
  <2>1. UNCHANGED webShared
    BY <1>3 DEF EnsureRenderer, webShared
  <2> QED
    BY <1>1, <1>3, <2>1, RenderFailedBelow, BelowStep
<1>4. ASSUME NEW new \in CallT, new.pc \in {"slot", "wait"}, Become(c, new), UNCHANGED webInit,
             new.pc = "wait" => new.uses \in WebCalls /\ (new.uses \in webInited \/ Makes(new.uses))
      PROVE  WebInv'
  <2>1. UNCHANGED webShared
    BY <1>4 DEF EnsureRenderer, webShared
  <2>2. Quietly(c, new)
    BY <1>1, <1>2, <1>4, <2>1 DEF Quietly, Become, CallsT
  <2> QED
    BY <2>2, QuietStep
<1>5. CASE webRenderer # NoOne /\ Become(c, [webCall[c] EXCEPT !.pc = "slot", !.uses = webRenderer]) /\ UNCHANGED webInit
  <2>1. /\ [webCall[c] EXCEPT !.pc = "slot", !.uses = webRenderer] \in CallT
        /\ [webCall[c] EXCEPT !.pc = "slot", !.uses = webRenderer].pc = "slot"
    BY <1>1 DEF CallT, Working, WebInv, SharedTyped
  <2> QED
    BY <1>4, <1>5, <2>1
<1>6. CASE webInit # NoOne /\ Become(c, [webCall[c] EXCEPT !.pc = "wait", !.uses = webInit]) /\ UNCHANGED webInit
  <2>1. /\ [webCall[c] EXCEPT !.pc = "wait", !.uses = webInit] \in CallT
        /\ [webCall[c] EXCEPT !.pc = "wait", !.uses = webInit].pc = "wait"
        /\ [webCall[c] EXCEPT !.pc = "wait", !.uses = webInit].uses = webInit
    BY <1>1 DEF CallT, Working, WebInv, SharedTyped
  <2>2. webInit \in WebCalls /\ Makes(webInit)
    BY <1>6 DEF WebInv, SharedTyped, Who, MakerInv, Makes
  <2> QED
    BY <1>4, <1>6, <2>1, <2>2
<1>7. CASE /\ ~webClosed /\ webRenderer = NoOne /\ webInit = NoOne
           /\ Become(c, [webCall[c] EXCEPT !.pc = "make"]) /\ webInit' = c
  <2> DEFINE new == [webCall[c] EXCEPT !.pc = "make"]
  <2>1. new \in CallT /\ new.pc = "make"
    BY <1>1 DEF CallT, Working
  <2> HIDE DEF new
  <2>2. /\ webCall'[c] = new /\ webCall' \in [WebCalls -> CallsT]
        /\ \A d \in WebCalls : d # c => webCall'[d] = webCall[d]
        /\ UNCHANGED <<webRenderer, webRenderErr, webInited, webOpen, webSlots, webClosed, webClose>>
    BY <1>7, <2>1 DEF new, Become, WebInv, CallsTyped, CallsT, EnsureRenderer
  <2>3. CallsTyped' /\ SharedTyped'
    BY <1>7, <2>1, <2>2 DEF WebInv, CallsTyped, SharedTyped, Who
  <2>4. \A d \in WebCalls : Makes(d) => Makes(d)'
    BY <2>1, <2>2 DEF Makes
  <2>5. MakerInv'
    <3>1. \A d \in WebCalls : d # c => ~Makes(d)'
      BY <1>7, <2>2, WebAssumption DEF WebInv, MakerInv, Makes
    <3>2. \A d \in WebCalls : d \in webInited => ToldOthers(d)'
      BY <1>2, <2>2 DEF WebInv, MakerInv, ToldOthers
    <3> QED
      BY <1>2, <1>7, <2>1, <2>2, <3>1, <3>2 DEF WebInv, MakerInv, Makes
  <2>6. WaiterInv'
    BY <2>1, <2>2, <2>4 DEF WebInv, WaiterInv
  <2>7. OwnerInv'
    BY <1>1, <1>7, <2>2 DEF WebInv, OwnerInv, SharedTyped
  <2>8. SlotInv'
    BY <1>1, <2>1, <2>2, SameBrowsers DEF WebInv, SlotInv
  <2> QED
    BY <2>3, <2>5, <2>6, <2>7, <2>8 DEF WebInv
<1> QED
  BY <1>3, <1>5, <1>6, <1>7 DEF EnsureRenderer

LEMMA MakeStep ==
  ASSUME WebInv, NEW c \in WebCalls, MakeRenderer(c)
  PROVE  WebInv'
<1> USE DEF At
<1> DEFINE new == [webCall[c] EXCEPT !.pc = "install"]
<1>1. webCall[c] \in CallT /\ webCall[c].pc = "make"
  BY AtWork DEF MakeRenderer, WebInv, Working
<1>2. new \in CallT /\ new.pc = "install"
  BY <1>1 DEF CallT, Working
<1>3. webCall' = [webCall EXCEPT ![c] = new]
  BY DEF MakeRenderer
<1> HIDE DEF new
<1>4. /\ webCall'[c] = new /\ webCall' \in [WebCalls -> CallsT]
      /\ \A d \in WebCalls : d # c => webCall'[d] = webCall[d]
      /\ UNCHANGED <<webRenderer, webRenderErr, webInit, webInited, webSlots, webClosed, webClose>>
  BY <1>2, <1>3 DEF MakeRenderer, WebInv, CallsTyped, CallsT
<1>5. webOpen' \subseteq webOpen \cup {c}
  BY DEF MakeRenderer
<1>6. CallsTyped' /\ SharedTyped'
  BY <1>2, <1>4, <1>5 DEF WebInv, CallsTyped, SharedTyped
<1>7. \A d \in WebCalls : Makes(d) <=> Makes(d)'
  BY <1>1, <1>2, <1>4 DEF Makes
<1>8. MakerInv'
  <2>1. \A d \in WebCalls : d \in webInited => ToldOthers(d)'
    BY <1>1, <1>4 DEF WebInv, MakerInv, ToldOthers
  <2> QED
    BY <1>1, <1>2, <1>4, <1>7, <2>1 DEF WebInv, MakerInv
<1>9. WaiterInv'
  BY <1>2, <1>4, <1>7 DEF WebInv, WaiterInv
<1>10. OwnerInv'
  <2>1. \A r \in webOpen' :
           \/ r = webRenderer
           \/ webCall'[r].pc \in {"install", "discard"}
           \/ webClose.pc = "closing" /\ webClose.renderer = r
    BY <1>1, <1>2, <1>4, <1>5 DEF WebInv, OwnerInv, SharedTyped
  <2>2. webClose'.pc = "closed" => \A d \in WebCalls : ~Makes(d)'
    BY <1>4, <1>7 DEF WebInv, OwnerInv
  <2>3. webRenderer' # NoOne => webInit' = NoOne /\ ~webClosed'
    BY <1>4 DEF WebInv, OwnerInv
  <2> QED
    BY <1>4, <2>1, <2>2, <2>3 DEF OwnerInv
<1>11. SlotInv'
  BY <1>1, <1>2, <1>4, SameBrowsers DEF WebInv, SlotInv
<1> QED
  BY <1>6, <1>8, <1>9, <1>10, <1>11 DEF WebInv

\* Back under the lock: nobody else is making a renderer.
LEMMA InstallStep ==
  ASSUME WebInv, NEW c \in WebCalls, InstallRenderer(c)
  PROVE  WebInv'
<1> USE DEF At
<1>1. webCall[c] \in CallT /\ webCall[c].pc = "install"
  BY AtWork DEF InstallRenderer, WebInv, Working
<1>2. webInit = c /\ webInit' = NoOne /\ c # NoOne /\ webRenderer = NoOne /\ c \notin webInited
  BY <1>1, WebAssumption DEF InstallRenderer, WebInv, MakerInv, OwnerInv, Makes
<1>3. \A d \in WebCalls : d # c => ~Makes(d)
  BY <1>2 DEF WebInv, MakerInv, Makes
<1>4. CASE webClosed
  <2> DEFINE new == [webCall[c] EXCEPT !.pc = "discard"]
  <2>1. new \in CallT /\ new.pc = "discard"
    BY <1>1 DEF CallT, Working
  <2>2. webCall' = [webCall EXCEPT ![c] = new]
    BY <1>4 DEF InstallRenderer, Become
  <2> HIDE DEF new
  <2>3. /\ webCall'[c] = new /\ webCall' \in [WebCalls -> CallsT]
        /\ \A d \in WebCalls : d # c => webCall'[d] = webCall[d]
        /\ UNCHANGED <<webRenderer, webRenderErr, webInited, webOpen, webSlots, webClosed, webClose>>
    BY <1>4, <2>1, <2>2 DEF InstallRenderer, WebInv, CallsTyped, CallsT
  <2>4. CallsTyped' /\ SharedTyped'
    BY <1>2, <2>1, <2>3 DEF WebInv, CallsTyped, SharedTyped, Who
  <2>5. \A d \in WebCalls : Makes(d) <=> Makes(d)'
    BY <1>1, <2>1, <2>3 DEF Makes
  <2>6. MakerInv'
    <3>1. \A d \in WebCalls : d \in webInited => ToldOthers(d)'
      BY <1>2, <2>3 DEF WebInv, MakerInv, ToldOthers
    <3>2. \A d \in WebCalls : webCall'[d].pc \notin {"make", "install"}
      BY <1>3, <2>1, <2>3 DEF Makes
    <3>3. \A d \in WebCalls : Makes(d)' => d \notin webInited /\ webClose.init = d /\ webClose.renderer = NoOne
      BY <1>4, <2>5 DEF WebInv, MakerInv
    <3> QED
      BY <1>2, <1>4, <2>3, <3>1, <3>2, <3>3, WebAssumption DEF MakerInv
  <2>7. WaiterInv'
    BY <2>1, <2>3, <2>5 DEF WebInv, WaiterInv
  <2>8. OwnerInv'
    <3>1. \A r \in webOpen :
             \/ r = webRenderer
             \/ webCall'[r].pc \in {"install", "discard"}
             \/ webClose.pc = "closing" /\ webClose.renderer = r
      BY <1>1, <2>1, <2>3 DEF WebInv, OwnerInv, SharedTyped
    <3> QED
      BY <1>2, <2>3, <2>5, <3>1 DEF WebInv, OwnerInv
  <2>9. SlotInv'
    BY <1>1, <2>1, <2>3, SameBrowsers DEF WebInv, SlotInv
  <2> QED
    BY <2>4, <2>6, <2>7, <2>8, <2>9 DEF WebInv
<1>5. ASSUME ~webClosed, NEW new \in CallsT, Become(c, new), webInited' = webInited \cup {c},
             webRenderErr' \in BOOLEAN,
             \/ webRenderer' = c /\ new.pc = "slot"
             \/ c \notin webOpen /\ webRenderer' = NoOne /\ Below(new)
      PROVE  WebInv'
  <2>1. /\ webCall'[c] = new /\ webCall' \in [WebCalls -> CallsT]
        /\ \A d \in WebCalls : d # c => webCall'[d] = webCall[d]
        /\ UNCHANGED <<webOpen, webSlots, webClosed, webClose>>
    BY <1>5 DEF Become, InstallRenderer, WebInv, CallsTyped
  <2>2. new.pc \in {"slot", "parse", "done", "get"}
    BY <1>5 DEF Below
  <2>3. CallsTyped' /\ SharedTyped'
    BY <1>2, <1>5, <2>1, <2>2 DEF WebInv, CallsTyped, SharedTyped, Who
  <2>4. \A d \in WebCalls : ~Makes(d)'
    BY <1>3, <2>1, <2>2 DEF Makes
  <2>5. MakerInv'
    <3>1. ToldOthers(c)'
      BY <1>5, <2>1 DEF ToldOthers, Below
    <3>2. \A d \in WebCalls : d \in webInited' => ToldOthers(d)'
      BY <1>2, <1>5, <2>1, <3>1 DEF WebInv, MakerInv, ToldOthers
    <3>3. \A d \in WebCalls : webCall'[d].pc \notin {"make", "install", "discard"}
      BY <2>4 DEF Makes
    <3> QED
      BY <1>2, <2>4, <3>2, <3>3, WebAssumption DEF MakerInv
  <2>6. WaiterInv'
    <3> SUFFICES ASSUME NEW d \in WebCalls, webCall'[d].pc = "wait"
                 PROVE  webCall'[d].uses \in WebCalls /\ webCall'[d].uses \in webInited'
      BY DEF WaiterInv
    <3>1. d # c /\ webCall'[d] = webCall[d]
      BY <2>1, <2>2
    <3>2. webCall[d].uses \in WebCalls /\ (webCall[d].uses \in webInited \/ Makes(webCall[d].uses))
      BY <3>1 DEF WebInv, WaiterInv
    <3> QED
      BY <1>3, <1>5, <3>1, <3>2
  <2>7. OwnerInv'
    <3>1. \A r \in webOpen : r = c
      BY <1>2, <1>3, <1>5, WebAssumption DEF WebInv, OwnerInv, SharedTyped, Makes
    <3>2. webRenderer' = c \/ webOpen = {}
      BY <1>5, <3>1
    <3>3. webClose.pc # "closed"
      BY <1>5 DEF WebInv, SharedTyped
    <3>4. \A r \in webOpen' : r = webRenderer'
      BY <2>1, <3>1, <3>2
    <3> QED
      BY <1>2, <1>5, <2>1, <2>4, <3>4 DEF OwnerInv
  <2>8. SlotInv'
    BY <1>1, <2>1, <2>2, SameBrowsers DEF WebInv, SlotInv
  <2> QED
    BY <2>3, <2>5, <2>6, <2>7, <2>8 DEF WebInv
<1>6. CASE ~webClosed /\ c \in webOpen
  <2>1. /\ [webCall[c] EXCEPT !.pc = "slot", !.uses = c] \in CallsT
        /\ [webCall[c] EXCEPT !.pc = "slot", !.uses = c].pc = "slot"
    BY <1>1 DEF CallsT, CallT, Working, Who
  <2>2. webRenderErr' \in BOOLEAN
    BY <1>6 DEF InstallRenderer, WebInv, SharedTyped
  <2> QED
    BY <1>5, <1>6, <2>1, <2>2 DEF InstallRenderer
<1>7. CASE ~webClosed /\ c \notin webOpen
  <2>1. Below(RenderFailed(webCall[c])) /\ RenderFailed(webCall[c]) \in CallsT
    BY <1>1, RenderFailedBelow DEF Below
  <2>2. webRenderErr' \in BOOLEAN /\ webRenderer' = NoOne
    BY <1>2, <1>7 DEF InstallRenderer
  <2> QED
    BY <1>5, <1>7, <2>1, <2>2 DEF InstallRenderer
<1> QED
  BY <1>4, <1>6, <1>7 DEF WebInv, SharedTyped

LEMMA DiscardStep ==
  ASSUME WebInv, NEW c \in WebCalls, DiscardRenderer(c)
  PROVE  WebInv'
<1> USE DEF At
<1> DEFINE new == RenderFailed(webCall[c])
<1>1. webCall[c] \in CallT /\ webCall[c].pc = "discard" /\ webClosed /\ webInit = NoOne
  BY AtWork DEF DiscardRenderer, WebInv, Working, MakerInv
<1>2. Below(new)
  BY <1>1, RenderFailedBelow
<1>3. webCall' = [webCall EXCEPT ![c] = new]
  BY DEF DiscardRenderer, Become
<1> HIDE DEF new
<1>4. new \in CallsT /\ new.pc \in {"parse", "done", "get"}
  BY <1>2 DEF Below
<1>5. /\ webCall'[c] = new /\ webCall' \in [WebCalls -> CallsT]
      /\ \A d \in WebCalls : d # c => webCall'[d] = webCall[d]
      /\ webOpen' = webOpen \ {c} /\ webInited' = webInited \cup {c}
      /\ UNCHANGED <<webRenderer, webRenderErr, webInit, webSlots, webClosed, webClose>>
  BY <1>3, <1>4 DEF DiscardRenderer, WebInv, CallsTyped
<1>6. CallsTyped' /\ SharedTyped'
  BY <1>4, <1>5 DEF WebInv, CallsTyped, SharedTyped
<1>7. \A d \in WebCalls : ~Makes(d)' /\ (d # c => ~Makes(d))
  <2>1. webClose.init = c
    BY <1>1 DEF WebInv, MakerInv, Makes
  <2>2. \A d \in WebCalls : d # c => ~Makes(d)
    BY <1>1, <2>1 DEF WebInv, MakerInv
  <2> QED
    BY <1>4, <1>5, <2>2 DEF Makes
<1>8. MakerInv'
  <2>1. ToldOthers(c)'
    BY <1>2, <1>5 DEF ToldOthers, Below
  <2>2. \A d \in WebCalls : d \in webInited' => ToldOthers(d)'
    BY <1>5, <2>1 DEF WebInv, MakerInv, ToldOthers
  <2>3. \A d \in WebCalls : webCall'[d].pc \notin {"make", "install", "discard"}
    BY <1>7 DEF Makes
  <2> QED
    BY <1>1, <1>5, <1>7, <2>2, <2>3, WebAssumption DEF MakerInv
<1>9. WaiterInv'
  <2> SUFFICES ASSUME NEW d \in WebCalls, webCall'[d].pc = "wait"
               PROVE  webCall'[d].uses \in WebCalls /\ webCall'[d].uses \in webInited'
    BY DEF WaiterInv
  <2>1. d # c /\ webCall'[d] = webCall[d]
    BY <1>4, <1>5
  <2>2. webCall[d].uses \in WebCalls /\ (webCall[d].uses \in webInited \/ Makes(webCall[d].uses))
    BY <2>1 DEF WebInv, WaiterInv
  <2> QED
    BY <1>5, <1>7, <2>1, <2>2
<1>10. OwnerInv'
  <2>1. \A r \in webOpen' :
           \/ r = webRenderer
           \/ webCall'[r].pc \in {"install", "discard"}
           \/ webClose.pc = "closing" /\ webClose.renderer = r
    BY <1>5 DEF WebInv, OwnerInv, SharedTyped
  <2> QED
    BY <1>5, <1>7, <2>1 DEF WebInv, OwnerInv
<1>11. SlotInv'
  BY <1>1, <1>4, <1>5, SameBrowsers DEF WebInv, SlotInv
<1> QED
  BY <1>6, <1>8, <1>9, <1>10, <1>11 DEF WebInv

\* A fetch that enters or leaves the browser takes a slot or gives it back.
LEMMA SlotStep ==
  ASSUME WebInv, NEW c \in WebCalls, NEW new \in CallsT, Become(c, new),
         UNCHANGED <<webRenderer, webRenderErr, webInit, webInited, webOpen, webClosed, webClose>>,
         \/ /\ webCall[c].pc = "slot" /\ new.pc = "browse" /\ new.tab \in TabT
            /\ webSlots < WebSlots /\ webSlots' = webSlots + 1
         \/ /\ webCall[c].pc = "browse" /\ Below(new) /\ webSlots' = webSlots - 1
  PROVE  WebInv'
<1> USE DEF At
<1>1. /\ webCall'[c] = new /\ webCall' \in [WebCalls -> CallsT]
      /\ \A d \in WebCalls : d # c => webCall'[d] = webCall[d]
  BY DEF Become, WebInv, CallsTyped
<1>2. /\ new.pc \notin {"make", "install", "discard", "wait"}
      /\ webCall[c].pc \notin {"make", "install", "discard", "wait"}
  BY DEF Below
<1>3. \A d \in WebCalls : Makes(d) <=> Makes(d)'
  BY <1>1, <1>2 DEF Makes
<1>4. IsFiniteSet(Browsers) /\ Cardinality(Browsers) \in Nat /\ webSlots = Cardinality(Browsers)
  BY WebAssumption, FS_Subset, FS_CardinalityType DEF Browsers, WebInv, SlotInv
<1>5. webSlots \in 0 .. WebSlots
  BY DEF WebInv, SharedTyped
<1>6. ASSUME webCall[c].pc = "slot"
      PROVE  SlotInv' /\ webSlots' \in 0 .. WebSlots
  <2>1. new.pc = "browse" /\ webSlots < WebSlots /\ webSlots' = webSlots + 1
    BY <1>6
  <2>2. Browsers' = Browsers \cup {c}
    BY <1>1, <2>1 DEF Browsers
  <2>3. c \notin Browsers
    BY <1>6 DEF Browsers
  <2>4. Cardinality(Browsers \cup {c}) = Cardinality(Browsers) + 1
    BY <1>4, <2>3, FS_AddElement
  <2>5. SlotInv'
    BY <1>4, <2>1, <2>2, <2>4 DEF SlotInv
  <2> QED
    BY <1>5, <2>1, <2>5, WebAssumption
<1>7. ASSUME webCall[c].pc = "browse"
      PROVE  SlotInv' /\ webSlots' \in 0 .. WebSlots
  <2>1. new.pc # "browse" /\ webSlots' = webSlots - 1
    BY <1>7 DEF Below
  <2>2. Browsers' = Browsers \ {c}
    BY <1>1, <2>1 DEF Browsers
  <2>3. c \in Browsers
    BY <1>7 DEF Browsers
  <2>4. Cardinality(Browsers \ {c}) = Cardinality(Browsers) - 1 /\ IsFiniteSet(Browsers \ {c})
    BY <1>4, <2>3, FS_RemoveElement
  <2>5. SlotInv' /\ webSlots' \in Nat
    BY <1>4, <2>1, <2>2, <2>4, FS_CardinalityType DEF SlotInv
  <2> QED
    BY <1>5, <2>1, <2>5, WebAssumption
<1>8. CallsTyped' /\ SharedTyped'
  BY <1>1, <1>6, <1>7 DEF WebInv, CallsTyped, SharedTyped, Below
<1>9. MakerInv'
  <2>1. \A d \in WebCalls : d \in webInited => ToldOthers(d)'
    BY <1>1 DEF WebInv, MakerInv, ToldOthers, Below
  <2>2. \A d \in WebCalls : /\ webCall'[d].pc \in {"make", "install"} <=> webCall[d].pc \in {"make", "install"}
                            /\ webCall'[d].pc = "discard" <=> webCall[d].pc = "discard"
    BY <1>1, <1>2
  <2> QED
    BY <1>3, <2>1, <2>2 DEF WebInv, MakerInv
<1>10. WaiterInv'
  BY <1>1, <1>2, <1>3 DEF WebInv, WaiterInv
<1>11. OwnerInv'
  <2>1. \A r \in webOpen :
           \/ r = webRenderer
           \/ webCall'[r].pc \in {"install", "discard"}
           \/ webClose.pc = "closing" /\ webClose.renderer = r
    BY <1>1, <1>2 DEF WebInv, OwnerInv, SharedTyped
  <2> QED
    BY <1>3, <2>1 DEF WebInv, OwnerInv
<1> QED
  BY <1>6, <1>7, <1>8, <1>9, <1>10, <1>11 DEF WebInv

LEMMA TakeSlotStep ==
  ASSUME WebInv, NEW c \in WebCalls, TakeSlot(c)
  PROVE  WebInv'
<1>1. webCall[c] \in CallT /\ webCall[c].pc = "slot"
  BY AtWork DEF TakeSlot, At, WebInv, Working
<1>2. CASE UNCHANGED webSlots /\ Become(c, RenderFailed(webCall[c]))
  <2>1. UNCHANGED webShared
    BY <1>2 DEF TakeSlot, webShared
  <2> QED
    BY <1>1, <1>2, <2>1, RenderFailedBelow, BelowStep
<1>3. CASE /\ webSlots < WebSlots /\ webSlots' = webSlots + 1
           /\ Become(c, [webCall[c] EXCEPT !.pc = "browse", !.tab = Tab])
  <2> DEFINE new == [webCall[c] EXCEPT !.pc = "browse", !.tab = Tab]
  <2>1. Tab \in TabT
    BY DEF Tab, TabT
  <2>2. new \in CallT /\ new.pc = "browse" /\ new.tab \in TabT
    BY <1>1, <2>1 DEF CallT, Working
  <2>3. new \in CallsT /\ Become(c, new)
    BY <1>3, <2>2 DEF CallsT
  <2> HIDE DEF new
  <2> QED
    BY <1>1, <1>3, <2>2, <2>3, SlotStep DEF TakeSlot
<1> QED
  BY <1>2, <1>3 DEF TakeSlot

LEMMA SnapshotStep ==
  ASSUME WebInv, NEW c \in WebCalls, Snapshot(c)
  PROVE  WebInv'
<1>1. webCall[c] \in CallT /\ webCall[c].pc = "browse"
  BY AtWork DEF Snapshot, At, WebInv, Working
<1>2. ASSUME NEW new, Below(new), Become(c, new)
      PROVE  WebInv'
  <2>1. new \in CallsT
    BY <1>2 DEF Below
  <2> QED
    BY <1>1, <1>2, <2>1, SlotStep DEF Snapshot
<1> QED
  BY <1>1, <1>2, ParseBelow, RenderFailedBelow DEF Snapshot

LEMMA CloseStep ==
  ASSUME WebInv, Close
  PROVE  WebInv'
<1> USE DEF At
<1>1. /\ ~webClosed /\ webClosed' = TRUE /\ webRenderer' = NoOne
      /\ webClose' = [pc |-> "closing", renderer |-> webRenderer, init |-> webInit]
      /\ UNCHANGED <<webCall, webRenderErr, webInit, webInited, webOpen, webSlots>>
  BY DEF Close
<1>2. CallsTyped' /\ WaiterInv'
  BY <1>1 DEF WebInv, CallsTyped, WaiterInv, Makes
<1>3. SharedTyped'
  BY <1>1 DEF WebInv, SharedTyped, Who
<1>4. \A c \in WebCalls : Makes(c) => webInit = c /\ webRenderer = NoOne
  BY <1>1, WebAssumption DEF WebInv, MakerInv, OwnerInv, Makes
<1>5. MakerInv'
  <2>1. \A c \in WebCalls : webCall[c].pc # "discard"
    BY <1>1 DEF WebInv, MakerInv
  <2>2. \A c \in WebCalls : Makes(c)' => webClose'.init = c /\ webClose'.renderer = NoOne
    BY <1>1, <1>4 DEF Makes
  <2>3. \A c \in WebCalls : /\ webInit' = c <=> webCall'[c].pc \in {"make", "install"}
                            /\ Makes(c)' => c \notin webInited'
                            /\ c \in webInited' => ToldOthers(c)'
    BY <1>1 DEF WebInv, MakerInv, Makes, ToldOthers
  <2> QED
    BY <1>1, <2>1, <2>2, <2>3 DEF MakerInv
<1>6. OwnerInv'
  <2>1. \A r \in webOpen :
           \/ webCall[r].pc \in {"install", "discard"}
           \/ webClose'.pc = "closing" /\ webClose'.renderer = r
    BY <1>1 DEF WebInv, OwnerInv, SharedTyped
  <2> QED
    BY <1>1, <2>1 DEF OwnerInv
<1>7. SlotInv'
  <2>1. Cardinality(Browsers)' = Cardinality(Browsers)
    BY <1>1, SameBrowsers
  <2> QED
    BY <1>1, <2>1 DEF WebInv, SlotInv
<1> QED
  BY <1>2, <1>3, <1>5, <1>6, <1>7 DEF WebInv

LEMMA CloseRendererStep ==
  ASSUME WebInv, CloseRenderer
  PROVE  WebInv'
<1> USE DEF At
<1>1. /\ webClose.pc = "closing" /\ webOpen' = webOpen \ {webClose.renderer}
      /\ webClose' = [webClose EXCEPT !.pc = "waiting"]
      /\ UNCHANGED <<webCall, webRenderer, webRenderErr, webInit, webInited, webSlots, webClosed>>
  BY DEF CloseRenderer
<1>2. /\ webClose' \in [pc : {"none", "closing", "waiting", "closed", "gave up"}, renderer : Who, init : Who]
      /\ webClose'.pc = "waiting" /\ webClose'.renderer = webClose.renderer /\ webClose'.init = webClose.init
  BY <1>1 DEF WebInv, SharedTyped
<1>3. CallsTyped' /\ WaiterInv'
  BY <1>1 DEF WebInv, CallsTyped, WaiterInv, Makes
<1>4. SharedTyped'
  BY <1>1, <1>2 DEF WebInv, SharedTyped
<1>5. MakerInv'
  BY <1>1, <1>2 DEF WebInv, MakerInv, Makes, ToldOthers
<1>6. OwnerInv'
  <2>1. \A r \in webOpen' : r = webRenderer \/ webCall[r].pc \in {"install", "discard"}
    BY <1>1 DEF WebInv, OwnerInv
  <2> QED
    BY <1>1, <1>2, <2>1 DEF WebInv, OwnerInv
<1>7. SlotInv'
  <2>1. Cardinality(Browsers)' = Cardinality(Browsers)
    BY <1>1, SameBrowsers
  <2> QED
    BY <1>1, <2>1 DEF WebInv, SlotInv
<1> QED
  BY <1>3, <1>4, <1>5, <1>6, <1>7 DEF WebInv

LEMMA CloseReturnsStep ==
  ASSUME WebInv, CloseReturns
  PROVE  WebInv'
<1> USE DEF At
<1>1. /\ webClose.pc = "waiting"
      /\ UNCHANGED <<webCall, webRenderer, webRenderErr, webInit, webInited, webOpen, webSlots, webClosed>>
  BY DEF CloseReturns
<1>2. /\ webClose' \in [pc : {"none", "closing", "waiting", "closed", "gave up"}, renderer : Who, init : Who]
      /\ webClose'.renderer = webClose.renderer /\ webClose'.init = webClose.init
      /\ (webClose'.pc = "closed" /\ webClose.init \in webInited \cup {NoOne}) \/ webClose'.pc = "gave up"
  BY DEF CloseReturns, WebInv, SharedTyped
<1>3. CallsTyped' /\ WaiterInv'
  BY <1>1 DEF WebInv, CallsTyped, WaiterInv, Makes
<1>4. SharedTyped'
  BY <1>1, <1>2 DEF WebInv, SharedTyped
<1>5. MakerInv'
  BY <1>1, <1>2 DEF WebInv, MakerInv, Makes, ToldOthers
<1>6. OwnerInv'
  <2>1. webClose'.pc = "closed" => \A c \in WebCalls : ~Makes(c)'
    BY <1>1, <1>2, WebAssumption DEF WebInv, MakerInv, Makes, SharedTyped
  <2>2. \A r \in webOpen' : r = webRenderer \/ webCall[r].pc \in {"install", "discard"}
    BY <1>1 DEF WebInv, OwnerInv
  <2> QED
    BY <1>1, <1>2, <2>1, <2>2 DEF WebInv, OwnerInv
<1>7. SlotInv'
  <2>1. Cardinality(Browsers)' = Cardinality(Browsers)
    BY <1>1, SameBrowsers
  <2> QED
    BY <1>1, <2>1 DEF WebInv, SlotInv
<1> QED
  BY <1>3, <1>4, <1>5, <1>6, <1>7 DEF WebInv
-----------------------------------------------------------------------------
(* The invariant and the theorem.                                          *)

LEMMA WebInvInit == WebInit => WebInv
<1> SUFFICES ASSUME WebInit PROVE WebInv
  OBVIOUS
<1> USE DEF At, WebIdle
<1>1. CallsTyped /\ WaiterInv
  BY DEF WebInit, CallsTyped, CallsT, WaiterInv
<1>2. SharedTyped
  <2>1. 0 \in 0 .. WebSlots
    BY WebAssumption
  <2>2. webClose \in [pc : {"none", "closing", "waiting", "closed", "gave up"}, renderer : Who, init : Who]
    BY DEF WebInit, Who
  <2>3. webClosed <=> webClose.pc # "none"
    BY DEF WebInit
  <2> QED
    BY <2>1, <2>2, <2>3 DEF WebInit, SharedTyped, Who
<1>3. MakerInv
  BY WebAssumption DEF WebInit, MakerInv, Makes
<1>4. OwnerInv
  BY DEF WebInit, OwnerInv
<1>5. SlotInv
  <2>1. Browsers = {}
    BY DEF WebInit, Browsers
  <2> QED
    BY <2>1, FS_EmptySet DEF WebInit, SlotInv
<1> QED
  BY <1>1, <1>2, <1>3, <1>4, <1>5 DEF WebInv

LEMMA WebInvStep == WebInv /\ [WebNext]_webVars => WebInv'
<1> SUFFICES ASSUME WebInv, [WebNext]_webVars PROVE WebInv'
  OBVIOUS
<1>1. CASE UNCHANGED webVars
  <2>1. Cardinality(Browsers)' = Cardinality(Browsers)
    BY <1>1, SameBrowsers DEF webVars
  <2>2. SlotInv'
    BY <1>1, <2>1 DEF webVars, WebInv, SlotInv
  <2>3. CallsTyped' /\ SharedTyped' /\ WaiterInv' /\ OwnerInv'
    BY <1>1 DEF webVars, WebInv, CallsTyped, SharedTyped, WaiterInv, OwnerInv, At, Makes
  <2>4. MakerInv'
    BY <1>1 DEF webVars, WebInv, MakerInv, At, Makes, ToldOthers
  <2> QED
    BY <2>2, <2>3, <2>4 DEF WebInv
<1>2. ASSUME NEW c \in WebCalls, NEW r \in WebRequests, Fetch(c, r) PROVE WebInv'
  BY <1>2, FetchStep
<1>3. ASSUME NEW c \in WebCalls,
             Stop(c) \/ Redirect(c) \/ Answered(c) \/ Retry(c) \/ ParseHTML(c)
      PROVE  WebInv'
  BY <1>3, StopStep, RedirectStep, AnsweredStep, RetryStep, ParseStep
<1>4. ASSUME NEW c \in WebCalls,
             EnsureRenderer(c) \/ AwaitRenderer(c) \/ MakeRenderer(c) \/ InstallRenderer(c) \/ DiscardRenderer(c)
      PROVE  WebInv'
  BY <1>4, EnsureStep, AwaitStep, MakeStep, InstallStep, DiscardStep
<1>5. ASSUME NEW c \in WebCalls,
             TakeSlot(c) \/ BrowserRequest(c) \/ BrowserLoaded(c) \/ ProxyBytes(c) \/ BrowserFails(c) \/ Snapshot(c)
      PROVE  WebInv'
  BY <1>5, TakeSlotStep, BrowseStep, SnapshotStep
<1>6. CASE Close \/ CloseRenderer \/ CloseReturns
  BY <1>6, CloseStep, CloseRendererStep, CloseReturnsStep
<1> QED
  BY <1>1, <1>2, <1>3, <1>4, <1>5, <1>6 DEF WebNext

\* Two renderers that are open are one: each of their owners excludes the others.
LEMMA OneRenderer ==
  ASSUME WebInv, NEW r \in webOpen, NEW s \in webOpen
  PROVE  r = s
<1>1. r \in WebCalls /\ s \in WebCalls
  BY DEF WebInv, SharedTyped
<1>2. ASSUME NEW c \in WebCalls, webCall[c].pc \in {"install", "discard"}
      PROVE  /\ webRenderer \notin WebCalls
             /\ webClose.pc = "closing" => webClose.renderer \notin WebCalls
             /\ \A d \in WebCalls : webCall[d].pc \in {"install", "discard"} => d = c
  <2>1. webRenderer \notin WebCalls
    BY <1>2, WebAssumption DEF WebInv, MakerInv, OwnerInv, SharedTyped, Who, At
  <2>2. webClose.pc = "closing" => webClose.renderer \notin WebCalls
    BY <1>2, WebAssumption DEF WebInv, MakerInv, Makes, SharedTyped
  <2>3. \A d \in WebCalls : webCall[d].pc \in {"install", "discard"} => d = c
    BY <1>2, WebAssumption DEF WebInv, MakerInv, Makes, At
  <2> QED
    BY <2>1, <2>2, <2>3
<1>3. webClose.pc = "closing" => webRenderer \notin WebCalls
  BY WebAssumption DEF WebInv, OwnerInv, SharedTyped
<1> QED
  BY <1>1, <1>2, <1>3 DEF WebInv, OwnerInv

LEMMA WebInvReleases == WebInv => RenderersReleased
<1> SUFFICES ASSUME WebInv PROVE RenderersReleased
  OBVIOUS
<1>1. WebTypeOK
  BY DEF WebInv, SharedTyped, WebTypeOK, Who
<1>2. Cardinality(webOpen) <= 1
  <2>1. CASE webOpen = {}
    BY <2>1, FS_EmptySet
  <2>2. CASE webOpen # {}
    <3>1. PICK r \in webOpen : TRUE
      BY <2>2
    <3>2. webOpen = {r}
      BY <3>1, OneRenderer
    <3>3. Cardinality({r}) = 1
      BY FS_Singleton
    <3> QED
      BY <3>2, <3>3
  <2> QED
    BY <2>1, <2>2
<1>3. \A r \in webOpen :
         \/ r = webRenderer
         \/ webCall[r].pc \in {"install", "discard"}
         \/ webClose.pc = "closing" /\ webClose.renderer = r
  BY DEF WebInv, OwnerInv
<1>4. webSlots = Cardinality({c \in WebCalls : At(c, "browse")})
  BY DEF WebInv, SlotInv, Browsers
<1>5. \A c \in WebCalls : At(c, "wait") =>
         webCall[c].uses \in webInited \/ webCall[webCall[c].uses].pc \in {"make", "install", "discard"}
  BY DEF WebInv, WaiterInv, Makes
<1>6. webClose.pc = "closed" => webOpen = {} /\ \A c \in WebCalls : ~At(c, "make") /\ ~At(c, "install")
  <2> SUFFICES ASSUME webClose.pc = "closed"
               PROVE  webOpen = {} /\ \A c \in WebCalls : ~At(c, "make") /\ ~At(c, "install")
    OBVIOUS
  <2>1. \A c \in WebCalls : webCall[c].pc \notin {"make", "install", "discard"}
    BY DEF WebInv, OwnerInv, Makes
  <2>2. webRenderer = NoOne
    BY DEF WebInv, OwnerInv, SharedTyped
  <2>3. webOpen \subseteq WebCalls
    BY DEF WebInv, SharedTyped
  <2> QED
    BY <1>3, <2>1, <2>2, <2>3, WebAssumption DEF At
<1> QED
  BY <1>1, <1>2, <1>3, <1>4, <1>5, <1>6 DEF RenderersReleased

\* However first use, failure, cancellation and Close interleave, for any number
\* of fetches and slots: at most one renderer is open and somebody owns it, a
\* slot is a fetch that browses, nobody waits for a renderer that no one makes,
\* and a Close that has not given up leaves none open (ensureRenderer, Close,
\* Render).
THEOREM RenderersAreReleased == WebSpec => []RenderersReleased
<1>1. WebInit => WebInv
  BY WebInvInit
<1>2. WebInv /\ [WebNext]_webVars => WebInv'
  BY WebInvStep
<1>3. WebInv => RenderersReleased
  BY WebInvReleases
<1> QED
  BY <1>1, <1>2, <1>3, PTL DEF WebSpec
=============================================================================

--------------------------- MODULE SpillRegistry ---------------------------
(***************************************************************************)
(* The registry of spill files (spill_registry.go): output too long for an *)
(* answer goes to a temporary file, the registry says which of these files *)
(* may be read back, for how long, and deletes the ones it forgets.        *)
(***************************************************************************)
EXTENDS Integers, Sequences, FiniteSets, SequencesExt

CONSTANTS
    SpillProcs,      \* the processes that spill
    SpillPaths,      \* names temporary files get
    SpillMaxEntries, \* spillRegistryMaxEntries
    SpillMaxAge,     \* spillRegistryMaxAge
    SpillMaxClock,   \* bound on the clock
    SpillMaxTouches, \* bound on the files others touch
    SpillMaxFiles    \* bound on the files ever made; numbers them

ASSUME SpillAssumption ==
    /\ SpillMaxEntries \in Nat \ {0} /\ SpillMaxAge \in Nat /\ SpillMaxFiles \in Nat
    /\ "nobody" \notin SpillProcs

VARIABLES
    spillFiles,      \* the temporary directory: paths to files [ino, version]
    spillRecords,    \* spills.json
    spillLock,       \* who holds spills.json.lock
    spillOp,         \* what each process is at
    spillMade,       \* how many files were made
    spillClock,
    spillTried,      \* the records registered, in the order of the lock: if they were written, and read blind
    spillTaken       \* the inodes somebody else removed or changed

spillVars == <<spillFiles, spillRecords, spillLock, spillOp, spillMade, spillClock, spillTried, spillTaken>>

NoHolder == "nobody"
Resting == [pc |-> "rest"]

SpillInit ==
    /\ spillFiles = <<>>
    /\ spillRecords = <<>>
    /\ spillLock = NoHolder
    /\ spillOp = [p \in SpillProcs |-> Resting]
    /\ spillMade = 0
    /\ spillClock = 0
    /\ spillTried = <<>>
    /\ spillTaken = {}

\* The members of a set that a sequence has, in its order.
Only(seq, S) ==
    LET first[i \in 0 .. Len(seq)] ==
            IF i = 0 THEN <<>>
            ELSE IF seq[i] \in S THEN Append(first[i - 1], seq[i]) ELSE first[i - 1]
    IN  first[Len(seq)]
Put(f, x, v) == [y \in DOMAIN f \cup {x} |-> IF y = x THEN v ELSE f[y]]
Drop(f, x) == [y \in DOMAIN f \ {x} |-> f[y]]
TooOld(rec) == spillClock - rec.at > SpillMaxAge
\* os.SameFile by device and inode, and for readers size and time as well.
Recorded(rec) == rec.path \in DOMAIN spillFiles /\ spillFiles[rec.path].ino = rec.ino
Unchanged(rec) == Recorded(rec) /\ spillFiles[rec.path].version = rec.version

\* os.CreateTemp finds a name that is free; registerShellSpill looks at the file.
Spill(p) ==
    /\ spillOp[p].pc = "rest" /\ spillMade < SpillMaxFiles
    /\ \E path \in SpillPaths \ DOMAIN spillFiles :
          LET file == [ino |-> spillMade + 1, version |-> 0] IN
          /\ spillFiles' = Put(spillFiles, path, file)
          /\ spillOp' = [spillOp EXCEPT ![p] = [pc |-> "lock", path |-> path, file |-> file]]
    /\ spillMade' = spillMade + 1
    /\ UNCHANGED <<spillRecords, spillLock, spillClock, spillTried, spillTaken>>

\* Under the lock: read, keep what is neither replaced nor too old, append, cut
\* to the limit.
Record(p) == [path |-> spillOp[p].path, ino |-> spillOp[p].file.ino,
              version |-> spillOp[p].file.version, at |-> spillClock]
Kept(p, records) ==
    LET valid == {r \in Range(records) : r.path # spillOp[p].path /\ ~TooOld(r)}
    IN  Append(Only(records, valid), Record(p))
Cut(seq) == IF Len(seq) > SpillMaxEntries THEN SubSeq(seq, Len(seq) - SpillMaxEntries + 1, Len(seq)) ELSE seq
Forgotten(p, records) == {r \in Range(records) : r.path # spillOp[p].path} \ Range(Cut(Kept(p, records)))

\* readSpillRegistry: a registry that cannot be read or parsed is an empty one.
ReadSpillRegistry == {spillRecords, <<>>}

WithFileLock_None(p) == TRUE
WithFileLock(p) == spillLock = NoHolder
RegisterSpill(p) ==
    /\ spillOp[p].pc = "lock" /\ WithFileLock(p)
    /\ spillLock' = p
    /\ \E records \in ReadSpillRegistry :
          /\ spillOp' = [spillOp EXCEPT ![p] = [pc |-> "delete", rec |-> Record(p), records |-> Cut(Kept(p, records)),
                                                gone |-> Forgotten(p, records)]]
          /\ spillTried' = Append(spillTried, [rec |-> Record(p), written |-> FALSE, blind |-> records # spillRecords])
    /\ UNCHANGED <<spillFiles, spillRecords, spillMade, spillClock, spillTaken>>
\* deleteRecordedSpill: only the file that was recorded, never one that took its name.
DeleteRecordedSpill(p) ==
    /\ spillOp[p].pc = "delete" /\ spillOp[p].gone # {}
    /\ \E r \in spillOp[p].gone :
          /\ spillFiles' = IF Recorded(r) THEN Drop(spillFiles, r.path) ELSE spillFiles
          /\ spillOp' = [spillOp EXCEPT ![p].gone = @ \ {r}]
    /\ UNCHANGED <<spillRecords, spillLock, spillMade, spillClock, spillTried, spillTaken>>
\* atomicWriteJSON comes last, and may fail.
WriteRegistry(p) ==
    /\ spillOp[p].pc = "delete" /\ spillOp[p].gone = {}
    /\ \/ /\ spillRecords' = spillOp[p].records
          /\ spillTried' = [i \in DOMAIN spillTried |->
                               IF spillTried[i].rec = spillOp[p].rec THEN [spillTried[i] EXCEPT !.written = TRUE]
                               ELSE spillTried[i]]
       \/ UNCHANGED <<spillRecords, spillTried>>
    /\ spillLock' = NoHolder
    /\ spillOp' = [spillOp EXCEPT ![p] = Resting]
    /\ UNCHANGED <<spillFiles, spillMade, spillClock, spillTaken>>

\* isRegisteredShellSpill reads file and registry without the lock.
StatSpill(p) ==
    /\ spillOp[p].pc = "rest"
    /\ \E path \in DOMAIN spillFiles :
          spillOp' = [spillOp EXCEPT ![p] = [pc |-> "read", path |-> path, file |-> spillFiles[path]]]
    /\ UNCHANGED <<spillFiles, spillRecords, spillLock, spillMade, spillClock, spillTried, spillTaken>>
\* The first record of the path decides; a registry that cannot be read has none.
Registered(path, file) ==
    \E i \in DOMAIN spillRecords :
        /\ spillRecords[i].path = path /\ \A j \in 1 .. i - 1 : spillRecords[j].path # path
        /\ ~TooOld(spillRecords[i])
        /\ spillRecords[i].ino = file.ino /\ spillRecords[i].version = file.version
IsRegisteredShellSpill(p) ==
    /\ spillOp[p].pc = "read"
    /\ \/ Registered(spillOp[p].path, spillOp[p].file) /\ spillOp' = [spillOp EXCEPT ![p] = [pc |-> "serve"]]
       \/ spillOp' = [spillOp EXCEPT ![p] = [pc |-> "refuse"]]
    /\ UNCHANGED <<spillFiles, spillRecords, spillLock, spillMade, spillClock, spillTried, spillTaken>>
ReadSpill(p) ==
    /\ spillOp[p].pc \in {"serve", "refuse"}
    /\ spillOp' = [spillOp EXCEPT ![p] = Resting]
    /\ UNCHANGED <<spillFiles, spillRecords, spillLock, spillMade, spillClock, spillTried, spillTaken>>

\* A process dies; somebody else removes, changes or replaces a file.
SpillCrash(p) ==
    /\ spillOp[p].pc # "rest"
    /\ spillOp' = [spillOp EXCEPT ![p] = Resting]
    /\ spillLock' = IF spillLock = p THEN NoHolder ELSE spillLock
    /\ UNCHANGED <<spillFiles, spillRecords, spillMade, spillClock, spillTried, spillTaken>>
OthersTouch(path) ==
    /\ path \in DOMAIN spillFiles /\ spillFiles[path].ino <= SpillMaxFiles
    /\ Cardinality(spillTaken) < SpillMaxTouches
    /\ spillTaken' = spillTaken \cup {spillFiles[path].ino}
    /\ \/ spillFiles' = Drop(spillFiles, path)
       \/ spillFiles' = [spillFiles EXCEPT ![path].version = 1]
       \/ spillFiles' = [spillFiles EXCEPT ![path] = [ino |-> @.ino + SpillMaxFiles, version |-> 0]]
    /\ UNCHANGED <<spillRecords, spillLock, spillOp, spillMade, spillClock, spillTried>>
SpillTick ==
    /\ spillClock < SpillMaxClock
    /\ spillClock' = spillClock + 1
    /\ UNCHANGED <<spillFiles, spillRecords, spillLock, spillOp, spillMade, spillTried, spillTaken>>

SpillNext ==
    \/ \E p \in SpillProcs :
          \/ Spill(p) \/ RegisterSpill(p) \/ DeleteRecordedSpill(p) \/ WriteRegistry(p)
          \/ StatSpill(p) \/ IsRegisteredShellSpill(p) \/ ReadSpill(p) \/ SpillCrash(p)
    \/ \E path \in SpillPaths : OthersTouch(path)
    \/ SpillTick

SpillSpec == SpillInit /\ [][SpillNext]_spillVars

-----------------------------------------------------------------------------
SpillTypeOK ==
    /\ Len(spillRecords) <= SpillMaxEntries
    /\ DOMAIN spillFiles \subseteq SpillPaths
    /\ \A i, j \in DOMAIN spillRecords : spillRecords[i].path = spillRecords[j].path => i = j

Later(i) == {j \in DOMAIN spillTried : j > i}
LaterWritten(i) == {j \in Later(i) : spillTried[j].written}

\* "concurrent run_shell spills must not drop each other's registrations"
\* (registerShellSpill).  A registration that was written stands until it is too
\* old, as many were written after it as the registry holds, or one written after
\* it has its name or could not read the registry; one that is only tried takes it
\* away from nobody.  A file stays as it is until its registration is too old, or
\* somebody else touches it, or a registration is tried when all but one of as many
\* as the registry holds were written after its own: the files of those pushed
\* out go before the write that pushes them out.
SpillsKept ==
    /\ SpillTypeOK
    /\ \A i \in DOMAIN spillTried :
          LET rec == spillTried[i].rec IN
          /\ \/ ~spillTried[i].written \/ TooOld(rec)
             \/ Cardinality(LaterWritten(i)) >= SpillMaxEntries
             \/ \E j \in LaterWritten(i) : spillTried[j].rec.path = rec.path \/ spillTried[j].blind
             \/ Registered(rec.path, rec)
          /\ \/ TooOld(rec) \/ rec.ino \in spillTaken
             \/ Later(i) # {} /\ Cardinality(LaterWritten(i)) >= SpillMaxEntries - 1
             \/ Unchanged(rec)
=============================================================================

------------------------------ MODULE Mutation ------------------------------
(***************************************************************************)
(* The mutation protocol of jinn and the undo history it maintains.        *)
(*                                                                         *)
(* Every jinn process runs one tool call.  A mutating call (write_file,    *)
(* edit_file, multi_edit, search_replace, apply_patch) takes the workspace *)
(* mutation lock and the locks of its targets, validates what it was told  *)
(* about each target, and then, target by target, records a snapshot in    *)
(* the shared history, replaces the file, and marks the snapshot with what *)
(* became of the replacement.  `undo` lists, restores and clears that      *)
(* history.  All locks are flocks: a process that dies loses them.         *)
(*                                                                         *)
(* Contents are model values.  A SHA-256 digest is the content itself, and *)
(* a snapshot id is the ordinal of the snapshot: ids are only compared,    *)
(* and the order in which snapshots were appended is the order of the ids. *)
(***************************************************************************)
EXTENDS Naturals, Sequences, FiniteSets

CONSTANTS
  Procs,       \* jinn processes (or goroutines of a broker): one call at a time each
  Scopes,      \* engines by working directory: the root engine, engines of run_plan's cwd
  Targets,     \* files of the workspace
  Contents,    \* what a file may hold
  Absent,      \* the file does not exist
  Nobody,      \* owner of a free lock
  MaxEntries,  \* historyMaxEntries
  MaxBytes,    \* historyMaxTotalBytes
  Size,        \* Size[c]: bytes of content c
  Kinds,       \* calls that are made: subset of {"mutate", "restore", "clear", "list"}
  MaxOps,      \* targets of one call
  Faults,      \* what the environment may do, see AllFaults
  MaxCalls,    \* bound on the calls made
  MaxEdits     \* bound on the changes made by other programs

AllFaults ==
  { "edit",        \* a program that does not take jinn's locks changes a target
    "crash",       \* a process dies between two steps
    "io",          \* a read, staging, rename or unlink fails and nothing changed
    "sync",        \* the parent directory's fsync fails after the target changed
    "save",        \* saving the index fails before its rename
    "torn_save",   \* saving the index fails after its rename
    "torn_clear",  \* clearing the history stops half way
    "blob" }       \* writing a blob fails, or what follows it, or removing one does

States == {"prepared", "committed", "aborted", "uncertain"}

ASSUME NamesAssumption ==
  /\ Absent \notin Contents
  /\ Nobody \notin Procs
  /\ Scopes # {}
  /\ Faults \subseteq AllFaults

\* One snapshot always fits: the 5 MiB limit of a blob is below the 20 MiB of
\* the history.
ASSUME LimitsAssumption ==
  /\ MaxEntries \in Nat \ {0}
  /\ MaxBytes \in Nat
  /\ MaxOps \in Nat
  /\ Size \in [Contents -> Nat]
  /\ \A c \in Contents : Size[c] <= MaxBytes

VARIABLES
  file,       \* what each target holds
  index,      \* index.json: the entries of the history, by id
  blobs,      \* the blob files, by id
  nextId,     \* the next snapshot id
  mutOwner,   \* owner of each engine's workspace mutation lock
  tgtOwner,   \* owner of each engine's lock of each target
  histOwner,  \* owner of the history lock
  pc,         \* where each process is
  req,        \* the call each process runs
  calls,      \* calls made so far
  edits,      \* changes made by other programs so far
  applied,    \* ghost: snapshots whose replacement did happen
  leaked,     \* ghost: snapshots whose blob a failure or a death left behind
  unmarked,   \* ghost: snapshots whose call died before their mark, or could not save it
  late        \* ghost: the process's target was changed by another program
              \* after the last comparison the protocol makes

disk  == <<file, index, blobs, nextId>>
locks == <<mutOwner, tgtOwner, histOwner>>
past  == <<applied, leaked, unmarked>>
ghost == <<past, late>>
vars  == <<disk, locks, pc, req, calls, edits, ghost>>

Holdings == Contents \cup {Absent}

Op == [kind : {"write", "edit", "delete", "restore"},
       target : Targets, new : Holdings, want : Holdings]

Entry == [target : Targets, before : Holdings, after : Holdings, state : States]

Request == [kind : {"none", "mutate", "restore", "clear"}, scope : Scopes,
            ops : Seq(Op), at : Nat, id : Nat, verdict : States, drop : SUBSET Nat,
            done : SUBSET Nat]

Call(kind, s, ops, at, id) ==
  [kind |-> kind, scope |-> s, ops |-> ops, at |-> at, id |-> id,
   verdict |-> "prepared", drop |-> {}, done |-> {}]

NoRequest == Call("none", CHOOSE s \in Scopes : TRUE, <<>>, 0, 0)

Fault(f) == f \in Faults
Cur(p)   == req[p].ops[req[p].at]
TargetsOf(r) == {r.ops[k].target : k \in DOMAIN r.ops}
Without(f, S) == [i \in DOMAIN f \ S |-> f[i]]

Init ==
  /\ file \in [Targets -> Holdings]
  /\ index = [i \in {} |-> {}] /\ blobs = [i \in {} |-> {}] /\ nextId = 1
  /\ mutOwner = [s \in Scopes |-> Nobody]
  /\ tgtOwner = [st \in Scopes \X Targets |-> Nobody]
  /\ histOwner = Nobody
  /\ pc = [p \in Procs |-> "idle"]
  /\ req = [p \in Procs |-> NoRequest]
  /\ calls = 0 /\ edits = 0
  /\ applied = {} /\ leaked = {} /\ unmarked = {} /\ late = [p \in Procs |-> FALSE]

Goto(p, label) == pc' = [pc EXCEPT ![p] = label]

\* Close every lock file the process holds: the call is over.
DropLocks(p) ==
  /\ mutOwner' = [s \in Scopes |-> IF mutOwner[s] = p THEN Nobody ELSE mutOwner[s]]
  /\ tgtOwner' = [st \in Scopes \X Targets |->
                    IF tgtOwner[st] = p THEN Nobody ELSE tgtOwner[st]]
  /\ histOwner' = IF histOwner = p THEN Nobody ELSE histOwner

Return(p) ==
  /\ DropLocks(p)
  /\ Goto(p, "idle")
  /\ req' = [req EXCEPT ![p] = NoRequest]
  /\ late' = [late EXCEPT ![p] = FALSE]

-----------------------------------------------------------------------------
(* The history: eviction and reconciliation.                               *)

Bytes(c) == IF c = Absent THEN 0 ELSE Size[c]

\* total[n]: bytes of the blobs of the entries 1..n
BytesUpTo(idx) ==
  LET total[n \in Nat] ==
        IF n = 0 THEN 0
        ELSE total[n - 1] + (IF n \in DOMAIN idx THEN Bytes(idx[n].before) ELSE 0)
  IN  total

Evict_OffByOne(idx, last) ==  \* mutant: >= historyMaxEntries
  [i \in {i \in DOMAIN idx : Cardinality({j \in DOMAIN idx : j > i}) + 1 < MaxEntries}
     |-> idx[i]]

\* What evictHistory leaves of the entries 1..last: the longest run of newest
\* entries that meets both limits.
Evict(idx, last) ==
  LET bytes   == BytesUpTo(idx)
      Newer(n) == {i \in DOMAIN idx : i > n}
      Fits(n) == /\ Cardinality(Newer(n)) <= MaxEntries
                 /\ bytes[last] - bytes[n] <= MaxBytes
      cut     == CHOOSE n \in 0..last : Fits(n) /\ \A m \in 0..last : Fits(m) => n <= m
  IN  [i \in Newer(cut) |-> idx[i]]

Resolve_NotSticky(e, unreadable) ==  \* mutant: uncertain entries are resolved again
  IF e.state \notin {"prepared", "uncertain"} THEN e.state
  ELSE IF e.target \in unreadable THEN "uncertain"
  ELSE IF file[e.target] = e.after THEN "committed"
  ELSE IF file[e.target] = e.before THEN "aborted"
  ELSE "uncertain"

\* What a prepared entry becomes, given what its target holds now; a target
\* that cannot be read decides nothing.
Resolve(e, unreadable) ==
  IF e.state # "prepared" THEN e.state
  ELSE IF e.target \in unreadable THEN "uncertain"
  ELSE IF file[e.target] = e.after THEN "committed"
  ELSE IF file[e.target] = e.before THEN "aborted"
  ELSE "uncertain"

Reconcile(unreadable) ==
  [i \in DOMAIN index |-> [index[i] EXCEPT !.state = Resolve(index[i], unreadable)]]

Unreadable == IF Fault("io") THEN SUBSET Targets ELSE {{}}

\* saveHistory replaces index.json by a durable rename.  It reports success,
\* or an error before the rename, or an error after it.
Saved(new)  == index' = new
SaveFails(new) == \/ Fault("save") /\ UNCHANGED index
                  \/ Fault("torn_save") /\ index' = new
-----------------------------------------------------------------------------
(* Calls begin.  The caller has read its targets: `want` is the checksum   *)
(* (or if_absent) it passes.                                               *)

OpsOf ==
  LET single == {o \in [kind : {"write", "edit", "delete"}, target : Targets, new : Holdings] :
                   (o.new = Absent) <=> (o.kind = "delete")}
      batch  == {o \in single : o.kind # "edit"}
  IN  {<<o>> : o \in single}
        \cup {ops \in UNION {[1..n -> batch] : n \in 2..MaxOps} :
                \A i, j \in DOMAIN ops : i # j => ops[i].target # ops[j].target}

\* edit_file and a delete need an existing target; edit_file refuses a no-op.
Sensible(o) ==
  /\ o.kind \in {"edit", "delete"} => file[o.target] # Absent
  /\ o.kind = "edit" => o.new # file[o.target]

\* The operations with the preconditions the caller passes.
Told(ops) == [k \in DOMAIN ops |->
                [kind |-> ops[k].kind, target |-> ops[k].target,
                 new |-> ops[k].new, want |-> file[ops[k].target]]]

BeginMutation(p) ==
  /\ "mutate" \in Kinds /\ pc[p] = "idle" /\ calls < MaxCalls
  /\ \E s \in Scopes, ops \in OpsOf :
       /\ \A k \in DOMAIN ops : Sensible(ops[k])
       /\ req' = [req EXCEPT ![p] = Call("mutate", s, Told(ops), 1, 0)]
  /\ Goto(p, "lock")
  /\ calls' = calls + 1
  /\ UNCHANGED <<disk, locks, edits, ghost>>

Restoring(e) == [kind |-> "restore", target |-> e.target,
                 new |-> e.before, want |-> file[e.target]]

BeginRestore_AnyState(p) ==  \* mutant: a change of which nothing is known is put back too
  /\ "restore" \in Kinds /\ pc[p] = "idle" /\ calls < MaxCalls
  /\ histOwner = Nobody
  /\ \E u \in Unreadable :
       /\ Saved(Reconcile(u))
       /\ \E i \in DOMAIN index, s \in Scopes :
            req' = [req EXCEPT ![p] = Call("restore", s, <<Restoring(index'[i])>>, 1, i)]
  /\ Goto(p, "lock")
  /\ calls' = calls + 1
  /\ UNCHANGED <<file, blobs, nextId, locks, edits, ghost>>

\* undoRestore looks its entry up, under the history lock alone, before it
\* takes the mutation lock.
BeginRestore(p) ==
  /\ "restore" \in Kinds /\ pc[p] = "idle" /\ calls < MaxCalls
  /\ histOwner = Nobody
  /\ \E u \in Unreadable :
       /\ Saved(Reconcile(u))
       /\ \E i \in DOMAIN index, s \in Scopes :
            /\ index'[i].state = "committed"
            /\ req' = [req EXCEPT ![p] = Call("restore", s, <<Restoring(index'[i])>>, 1, i)]
  /\ Goto(p, "lock")
  /\ calls' = calls + 1
  /\ UNCHANGED <<file, blobs, nextId, locks, edits, ghost>>

BeginClear_NoMutationLock(p) ==  \* mutant: the clear takes the history lock only
  /\ "clear" \in Kinds /\ pc[p] = "idle" /\ calls < MaxCalls
  /\ \E s \in Scopes :
       req' = [req EXCEPT ![p] = Call("clear", s, <<>>, 0, 0)]
  /\ Goto(p, "clear")
  /\ calls' = calls + 1
  /\ UNCHANGED <<disk, locks, edits, ghost>>

BeginClear(p) ==
  /\ "clear" \in Kinds /\ pc[p] = "idle" /\ calls < MaxCalls
  /\ \E s \in Scopes :
       req' = [req EXCEPT ![p] = Call("clear", s, <<>>, 0, 0)]
  /\ Goto(p, "lock")
  /\ calls' = calls + 1
  /\ UNCHANGED <<disk, locks, edits, ghost>>

\* `undo list`, `undo preview`, and a restore whose lookup fails: the whole
\* call is one section of the history lock, and its only effect is to
\* reconcile.
List ==
  /\ "list" \in Kinds
  /\ histOwner = Nobody
  /\ \E u \in Unreadable :
       \/ Saved(Reconcile(u))
       \/ SaveFails(Reconcile(u))
  /\ UNCHANGED <<file, blobs, nextId, locks, pc, req, calls, edits, ghost>>
-----------------------------------------------------------------------------
(* Locks and validation.                                                   *)

LockMutation(p) ==
  LET s == req[p].scope IN
  /\ pc[p] = "lock" /\ mutOwner[s] = Nobody
  /\ mutOwner' = [mutOwner EXCEPT ![s] = p]
  /\ Goto(p, IF req[p].kind = "clear" THEN "clear" ELSE "lock targets")
  /\ UNCHANGED <<disk, tgtOwner, histOwner, req, calls, edits, ghost>>

\* The target locks are taken in the order of their paths.  Whoever is here
\* holds its engine's mutation lock, so that none of them is ever waited for
\* half way and one step takes them all.
LockTargets(p) ==
  LET mine == {req[p].scope} \X TargetsOf(req[p]) IN
  /\ pc[p] = "lock targets"
  /\ \A st \in mine : tgtOwner[st] = Nobody
  /\ tgtOwner' = [st \in Scopes \X Targets |-> IF st \in mine THEN p ELSE tgtOwner[st]]
  /\ Goto(p, "preflight")
  /\ UNCHANGED <<disk, mutOwner, histOwner, req, calls, edits, ghost>>

\* What the first comparison lets through; a restore only looks whether the
\* target exists, and compares its content later.
Admitted(o) ==
  \/ file[o.target] = o.want
  \/ o.kind = "restore" /\ file[o.target] # Absent /\ o.want # Absent

\* Every target is read and compared with its precondition before any of them
\* is changed; one stale target refuses the call.
Preflight(p) ==
  /\ pc[p] = "preflight"
  /\ \A k \in DOMAIN req[p].ops : Admitted(req[p].ops[k])
  /\ Goto(p, IF req[p].kind = "mutate"
               THEN IF Cur(p).kind = "edit" THEN "snapshot" ELSE "reverify"
             ELSE IF Cur(p).new = Absent THEN "recheck" ELSE "read blob")
  /\ UNCHANGED <<disk, locks, req, calls, edits, ghost>>

Refuse(p) ==
  /\ pc[p] = "preflight"
  /\ (\E k \in DOMAIN req[p].ops : ~Admitted(req[p].ops[k])) \/ Fault("io")
  /\ Return(p)
  /\ UNCHANGED <<disk, calls, edits, past>>
-----------------------------------------------------------------------------
(* One target of a mutating call.                                          *)

\* verifyPreflightState before the snapshot (edit_file goes without).
Reverify(p) ==
  /\ pc[p] = "reverify"
  /\ file[Cur(p).target] = Cur(p).want
  /\ Goto(p, "snapshot")
  /\ UNCHANGED <<disk, locks, req, calls, edits, ghost>>

ReverifyFails(p) ==
  /\ pc[p] = "reverify"
  /\ file[Cur(p).target] # Cur(p).want \/ Fault("io")
  /\ Return(p)
  /\ UNCHANGED <<disk, calls, edits, past>>

\* The snapshot of the change the process makes; a restore makes none.
Own(p) == IF req[p].kind = "mutate" THEN {req[p].id} \ {0} ELSE {}

\* recordSnapshotLockedStrict, in three steps a crash can separate: the blob,
\* the index, the blobs of what was evicted.
PutBlob(p) ==
  blobs' = IF Cur(p).want = Absent THEN blobs
           ELSE [i \in DOMAIN blobs \cup {nextId} |->
                   IF i = nextId THEN Cur(p).want ELSE blobs[i]]

WriteBlob(p) ==
  /\ pc[p] = "snapshot" /\ histOwner = Nobody
  /\ histOwner' = p
  /\ nextId' = nextId + 1
  /\ req' = [req EXCEPT ![p].id = nextId]
  /\ PutBlob(p)
  /\ Goto(p, "index")
  /\ UNCHANGED <<file, index, mutOwner, tgtOwner, calls, edits, ghost>>

\* The blob cannot be written; or it is in place, and the fsync of its directory
\* or the name of the target (rootRelative) fails, with nobody to remove it.
WriteBlobFails(p) ==
  /\ pc[p] = "snapshot" /\ histOwner = Nobody /\ Fault("blob")
  /\ \/ UNCHANGED <<blobs, nextId, leaked>>
     \/ Cur(p).want # Absent /\ PutBlob(p) /\ nextId' = nextId + 1 /\ leaked' = leaked \cup {nextId}
  /\ Return(p)
  /\ UNCHANGED <<file, index, calls, edits, applied, unmarked>>

NewEntry_NoState(p) ==  \* mutant: the entry is appended without a state
  [target |-> Cur(p).target, before |-> Cur(p).want, after |-> Cur(p).new, state |-> ""]

NewEntry(p) == [target |-> Cur(p).target, before |-> Cur(p).want,
                after |-> Cur(p).new, state |-> "prepared"]

Appended(p) == [i \in DOMAIN index \cup {req[p].id} |->
                  IF i = req[p].id THEN NewEntry(p) ELSE index[i]]

SaveIndex(p) ==
  LET kept == Evict(Appended(p), req[p].id) IN
  /\ pc[p] = "index"
  /\ Saved(kept)
  /\ req' = [req EXCEPT ![p].drop = DOMAIN Appended(p) \ DOMAIN kept]
  /\ Goto(p, "evict")
  /\ UNCHANGED <<file, blobs, nextId, locks, calls, edits, ghost>>

\* Blobs that os.Remove, whose error nobody looks at, may leave.
LeftOf(S) == IF Fault("blob") THEN SUBSET (S \cap DOMAIN blobs) ELSE {{}}

SaveIndexFails_EvictsFirst(p) ==  \* mutant: evicted blobs go before the save
  LET kept == Evict(Appended(p), req[p].id) IN
  /\ pc[p] = "index"
  /\ SaveFails(kept)
  /\ blobs' = Without(blobs, {req[p].id} \cup (DOMAIN Appended(p) \ DOMAIN kept))
  /\ unmarked' = unmarked \cup Own(p)
  /\ Return(p)
  /\ UNCHANGED <<file, nextId, calls, edits, applied, leaked>>

\* The new blob is removed as an orphan, whichever way the save failed; those
\* of entries the index has lost are not.
SaveIndexFails(p) ==
  /\ pc[p] = "index"
  /\ SaveFails(Evict(Appended(p), req[p].id))
  /\ \E left \in LeftOf({req[p].id}) :
       /\ blobs' = Without(blobs, {req[p].id} \ left)
       /\ leaked' = leaked \cup left \cup (DOMAIN index \ DOMAIN index')
  /\ unmarked' = unmarked \cup Own(p)
  /\ Return(p)
  /\ UNCHANGED <<file, nextId, calls, edits, applied>>

RemoveEvicted_Leaks(p) ==  \* mutant: evicted blobs are forgotten
  /\ pc[p] = "evict"
  /\ req' = [req EXCEPT ![p].drop = {}]
  /\ histOwner' = Nobody
  /\ Goto(p, IF Cur(p).kind = "delete" THEN "replace" ELSE "stage")
  /\ UNCHANGED <<file, index, blobs, nextId, mutOwner, tgtOwner, calls, edits, ghost>>

RemoveEvicted(p) ==
  /\ pc[p] = "evict"
  /\ \E left \in LeftOf(req[p].drop) :
       /\ blobs' = Without(blobs, req[p].drop \ left)
       /\ leaked' = leaked \cup left
  /\ req' = [req EXCEPT ![p].drop = {}]
  /\ histOwner' = Nobody
  /\ Goto(p, IF Cur(p).kind = "delete" THEN "replace" ELSE "stage")
  /\ UNCHANGED <<file, index, nextId, mutOwner, tgtOwner, calls, edits, applied, unmarked, late>>

Decide(p, v) ==
  /\ req' = [req EXCEPT ![p].verdict = v]
  /\ Goto(p, "mark")

Stage_NoRecheck(p) ==  \* mutant: no comparison before the rename
  /\ pc[p] = "stage"
  /\ Goto(p, "replace")
  /\ UNCHANGED <<disk, locks, req, calls, edits, ghost>>

\* The new content is staged in a synced temporary file; the target is
\* compared once more just before the rename.  A delete has no such check.
Stage(p) ==
  /\ pc[p] = "stage"
  /\ \/ /\ file[Cur(p).target] = Cur(p).want
        /\ Goto(p, "replace")
        /\ UNCHANGED req
     \/ /\ file[Cur(p).target] # Cur(p).want \/ Fault("io")
        /\ Decide(p, "aborted")
  /\ UNCHANGED <<disk, locks, calls, edits, ghost>>

Replaced(p) ==
  /\ file' = [file EXCEPT ![Cur(p).target] = Cur(p).new]
  /\ applied' = applied \cup {req[p].id}

Rename_SyncAborts(p) ==  \* mutant: a failed fsync reports that nothing changed
  /\ pc[p] = "replace" /\ Cur(p).kind # "delete"
  /\ \/ Replaced(p) /\ Decide(p, "committed")
     \/ Fault("sync") /\ Replaced(p) /\ Decide(p, "aborted")
     \/ Fault("io") /\ Decide(p, "aborted") /\ UNCHANGED <<file, applied>>
  /\ UNCHANGED <<index, blobs, nextId, locks, calls, edits, leaked, unmarked, late>>

Rename(p) ==
  /\ pc[p] = "replace" /\ Cur(p).kind # "delete"
  /\ \/ Replaced(p) /\ Decide(p, "committed")
     \/ Fault("sync") /\ Replaced(p) /\ Decide(p, "uncertain")
     \/ Fault("io") /\ Decide(p, "aborted") /\ UNCHANGED <<file, applied>>
  /\ UNCHANGED <<index, blobs, nextId, locks, calls, edits, leaked, unmarked, late>>

\* Any error of a delete, an unlink that found nothing included, leaves the
\* entry uncertain.
Unlink(p) ==
  /\ pc[p] = "replace" /\ Cur(p).kind = "delete"
  /\ \/ file[Cur(p).target] # Absent /\ Replaced(p) /\ Decide(p, "committed")
     \/ /\ file[Cur(p).target] # Absent /\ Fault("sync")
        /\ Replaced(p) /\ Decide(p, "uncertain")
     \/ /\ file[Cur(p).target] = Absent \/ Fault("io")
        /\ Decide(p, "uncertain") /\ UNCHANGED <<file, applied>>
  /\ UNCHANGED <<index, blobs, nextId, locks, calls, edits, leaked, unmarked, late>>
-----------------------------------------------------------------------------
(* What became of it: markSnapshotState.                                   *)

Marked(i, v) == [index EXCEPT ![i].state = v]

\* The next target of the call, or its end.  `done` lists the undo ids that a
\* partial-apply error reports if a later target fails.
Proceed(p) ==
  IF req[p].at < Len(req[p].ops)
    THEN /\ req' = [req EXCEPT ![p] =
                      [Call("mutate", @.scope, @.ops, @.at + 1, 0) EXCEPT
                         !.done = req[p].done \cup {req[p].id}]]
         /\ Goto(p, "reverify")
         /\ late' = [late EXCEPT ![p] = FALSE]
         /\ UNCHANGED locks
    ELSE Return(p)

MarkCommitted(p) ==
  /\ pc[p] = "mark" /\ req[p].verdict = "committed" /\ histOwner = Nobody
  /\ \/ req[p].id \in DOMAIN index /\ Saved(Marked(req[p].id, "committed")) /\ Proceed(p)
     \/ /\ \/ req[p].id \notin DOMAIN index /\ UNCHANGED index
           \/ req[p].id \in DOMAIN index /\ SaveFails(Marked(req[p].id, "committed"))
        /\ req' = [req EXCEPT ![p].verdict = "uncertain"]
        /\ UNCHANGED <<pc, locks, late>>
  /\ UNCHANGED <<file, blobs, nextId, calls, edits, past>>

MarkFailed_GoesOn(p) ==  \* mutant: the batch goes on after a target that failed
  /\ pc[p] = "mark" /\ req[p].verdict # "committed" /\ histOwner = Nobody
  /\ Saved(IF req[p].id \in DOMAIN index THEN Marked(req[p].id, req[p].verdict) ELSE index)
  /\ Proceed(p)
  /\ UNCHANGED <<file, blobs, nextId, calls, edits, past>>

\* The call fails with the error of its target; an error of this mark is
\* ignored.
MarkFailed(p) ==
  /\ pc[p] = "mark" /\ req[p].verdict # "committed" /\ histOwner = Nobody
  /\ \/ req[p].id \notin DOMAIN index /\ UNCHANGED <<index, unmarked>>
     \/ /\ req[p].id \in DOMAIN index
        /\ \/ Saved(Marked(req[p].id, req[p].verdict)) /\ UNCHANGED unmarked
           \/ SaveFails(Marked(req[p].id, req[p].verdict)) /\ unmarked' = unmarked \cup Own(p)
  /\ Return(p)
  /\ UNCHANGED <<file, blobs, nextId, calls, edits, applied, leaked>>
-----------------------------------------------------------------------------
(* Restore and clear.                                                      *)

\* readBlob takes no history lock; it checks the blob against the entry's
\* digest.
ReadBlob(p) ==
  /\ pc[p] = "read blob"
  /\ IF req[p].id \in DOMAIN blobs /\ blobs[req[p].id] = Cur(p).new
       THEN Goto(p, "recheck") /\ UNCHANGED <<locks, req, late>>
       ELSE Return(p)
  /\ UNCHANGED <<disk, calls, edits, past>>

\* verifyUndoChecksum: compares nothing when no checksum was passed, that is,
\* when the target was absent.
Recheck(p) ==
  /\ pc[p] = "recheck"
  /\ IF Cur(p).want = Absent \/ file[Cur(p).target] = Cur(p).want
       THEN Goto(p, "put back") /\ UNCHANGED <<locks, req, late>>
       ELSE Return(p)
  /\ UNCHANGED <<disk, calls, edits, past>>

PutBack(p) ==
  LET put == file' = [file EXCEPT ![Cur(p).target] = Cur(p).new] IN
  /\ pc[p] = "put back"
  /\ \/ put /\ Return(p)
     \/ /\ \/ Fault("sync") /\ put /\ (Cur(p).new = Absent => file[Cur(p).target] # Absent)
           \/ Fault("io") /\ UNCHANGED file
        /\ IF Cur(p).new = Absent
             THEN Decide(p, "uncertain") /\ UNCHANGED <<locks, late>>
             ELSE Return(p)
  /\ UNCHANGED <<index, blobs, nextId, calls, edits, past>>

\* RemoveAll of the history directory: the index and the blobs go one after
\* the other, in the order of the directory.
ClearFirst(p) ==
  /\ pc[p] = "clear" /\ histOwner = Nobody
  /\ histOwner' = p
  /\ \/ index' = Without(index, DOMAIN index) /\ UNCHANGED blobs
     \/ blobs' = Without(blobs, DOMAIN blobs) /\ UNCHANGED index
  /\ Goto(p, "clear rest")
  /\ UNCHANGED <<file, nextId, mutOwner, tgtOwner, req, calls, edits, ghost>>

ClearRest(p) ==
  /\ pc[p] = "clear rest"
  /\ index' = Without(index, DOMAIN index)
  /\ blobs' = Without(blobs, DOMAIN blobs)
  /\ Return(p)
  /\ UNCHANGED <<file, nextId, calls, edits, past>>
-----------------------------------------------------------------------------
(* The environment.                                                        *)

\* The blobs that the process is about to enter in the index, or to remove.
Owed(p) ==
  IF pc[p] = "index" THEN {req[p].id}
  ELSE IF pc[p] = "clear rest" THEN DOMAIN blobs ELSE req[p].drop

Crash(p) ==
  /\ pc[p] # "idle"
  /\ IF pc[p] = "clear rest" THEN Fault("torn_clear") ELSE Fault("crash")
  /\ leaked' = leaked \cup Owed(p) /\ unmarked' = unmarked \cup Own(p)
  /\ Return(p)
  /\ UNCHANGED <<disk, calls, edits, applied>>

\* The call will not compare its target again before changing it.
LastCompared(p) ==
  \/ pc[p] \in {"replace", "put back"}
  \/ pc[p] \in {"snapshot", "index", "evict"} /\ Cur(p).kind = "delete"
  \/ pc[p] \in {"read blob", "recheck"} /\ Cur(p).want = Absent

Edit(t) ==
  /\ Fault("edit") /\ edits < MaxEdits
  /\ \E c \in Holdings \ {file[t]} : file' = [file EXCEPT ![t] = c]
  /\ edits' = edits + 1
  /\ late' = [p \in Procs |-> late[p] \/ (LastCompared(p) /\ Cur(p).target = t)]
  /\ UNCHANGED <<index, blobs, nextId, locks, pc, req, calls, past>>
-----------------------------------------------------------------------------
Begin(p) == BeginMutation(p) \/ BeginRestore(p) \/ BeginClear(p)

\* The steps of a call once it has begun.
Step(p) ==
  \/ LockMutation(p) \/ LockTargets(p) \/ Preflight(p) \/ Refuse(p)
  \/ Reverify(p) \/ ReverifyFails(p)
  \/ WriteBlob(p) \/ WriteBlobFails(p) \/ SaveIndex(p) \/ SaveIndexFails(p) \/ RemoveEvicted(p)
  \/ Stage(p) \/ Rename(p) \/ Unlink(p)
  \/ MarkCommitted(p) \/ MarkFailed(p)
  \/ ReadBlob(p) \/ Recheck(p) \/ PutBack(p)
  \/ ClearFirst(p) \/ ClearRest(p)

Next ==
  \/ \E p \in Procs : Begin(p) \/ Step(p) \/ Crash(p)
  \/ List
  \/ \E t \in Targets : Edit(t)

Spec == Init /\ [][Next]_vars

-----------------------------------------------------------------------------
Labels == {"idle", "lock", "lock targets", "preflight", "reverify", "snapshot",
           "index", "evict", "stage", "replace", "mark", "read blob", "recheck",
           "put back", "clear", "clear rest"}

\* Type correctness of the files, the history, the locks and the calls.
TypeOK ==
  /\ file \in [Targets -> Holdings]
  /\ DOMAIN index \subseteq Nat /\ \A i \in DOMAIN index : index[i] \in Entry
  /\ DOMAIN blobs \subseteq Nat /\ \A i \in DOMAIN blobs : blobs[i] \in Contents
  /\ nextId \in Nat \ {0}
  /\ mutOwner \in [Scopes -> Procs \cup {Nobody}]
  /\ tgtOwner \in [Scopes \X Targets -> Procs \cup {Nobody}]
  /\ histOwner \in Procs \cup {Nobody}
  /\ pc \in [Procs -> Labels]
  /\ req \in [Procs -> Request]
  /\ calls \in Nat /\ edits \in Nat
  /\ applied \subseteq Nat
  /\ late \in [Procs -> BOOLEAN]

\* Snapshots of mutating calls that have not returned yet.
Unsettled == UNION {Own(p) : p \in Procs}

Clearing == \E p \in Procs : pc[p] = "clear rest"

\* A process about to change a target changes exactly the content it was told
\* about and compared: no other call of jinn can slip in between, and only a
\* program that ignores the locks can, after the last comparison.  (README:
\* "Cross-process locks cover validation, durable snapshot, and atomic
\* replacement.")
ReplacesWhatItChecked ==
  \A p \in Procs :
    pc[p] \in {"replace", "put back"} /\ ~late[p] => file[Cur(p).target] = Cur(p).want

\* From the moment a snapshot is in the index until it is marked it stays
\* there: neither eviction nor a clear takes the entry of a mutation that is
\* under way, so that marking it cannot find that it disappeared.
OwnEntryKept ==
  \A p \in Procs :
    req[p].kind = "mutate" /\ pc[p] \in {"evict", "stage", "replace", "mark"}
      => req[p].id \in DOMAIN index

\* Every entry of a file that existed has its blob, with the bytes the file
\* had: eviction removes blobs only once the index without their entries is
\* saved, and a crash in between leaves blobs without entries, never entries
\* without blobs.
BlobBacked ==
  Clearing \/ \A i \in DOMAIN index :
    index[i].before # Absent => i \in DOMAIN blobs /\ blobs[i] = index[i].before

\* Blobs do not accumulate: one that belongs to no entry is that of a snapshot
\* being recorded, or about to be removed, or else a step that failed or a process
\* that died over it has left it behind - never an eviction, a save, a clear or a
\* refused call that went through.
NoOrphanBlobs ==
  \A i \in DOMAIN blobs \ DOMAIN index : i \in leaked \/ \E p \in Procs : i \in Owed(p)

\* Once the call that recorded it has returned, an entry says what happened:
\* committed if the file was changed, aborted if it was not, and never
\* prepared, whatever `undo list` made of it in the meantime and whatever fails or
\* dies beside it, unless that call itself died or could not save its mark.
SettledHonest ==
  \A i \in DOMAIN index \ (Unsettled \cup unmarked) :
    /\ index[i].state # "prepared"
    /\ index[i].state = "committed" => i \in applied
    /\ index[i].state = "aborted"   => i \notin applied

\* A change that reached the disk is never recorded as aborted, which would
\* hide it from `undo`: docs/tool-reference.md promises "no successful
\* mutation silently lacks an undo snapshot".
AppliedStaysUndoable ==
  \A i \in DOMAIN index \ Unsettled : i \in applied => index[i].state # "aborted"

\* A batch that fails at a later target reports the targets it has written: one
\* undo id for each target before the failing one, each of a change that did
\* happen and can be undone, whoever evicts, clears, lists or edits meanwhile
\* ("restore already-applied files with undo action="restore" id=<id>",
\* partialApplyErr), as long as the batch fits in the history.
PartialReportHonest ==
  \A p \in Procs :
    req[p].kind = "mutate" =>
      /\ req[p].done \subseteq applied
      /\ Cardinality(req[p].done) = req[p].at - 1
      /\ \A i \in req[p].done : i \in DOMAIN index /\ index[i].state = "committed"

\* Reconciliation never promotes an entry marked uncertain: only the call that
\* owns the entry may, when it marks it itself.
UncertainIsSticky ==
  [][\A i \in DOMAIN index \cap DOMAIN index' :
       index[i].state = "uncertain" /\ index'[i].state # "uncertain"
         => \E p \in Procs : pc[p] = "mark" /\ req[p].id = i]_vars

-----------------------------------------------------------------------------
(* The history as those see it who use it.                                 *)

\* What can be undone, and to what: the entries of the index with the contents
\* of their blobs; nothing any more once a clear has begun to remove them.
Undoable ==
  [i \in IF Clearing THEN {} ELSE DOMAIN index |->
     [index[i] EXCEPT !.before = IF @ = Absent \/ i \notin DOMAIN blobs THEN Absent ELSE blobs[i]]]

\* What a call is doing, from the moment its snapshot is in the index.
TurnOf(p) ==
  IF req[p].kind = "restore"
    THEN [does |-> "undo", id |-> req[p].id, target |-> Cur(p).target, content |-> Cur(p).new,
          found |-> Cur(p).want, made |-> FALSE]
  ELSE IF req[p].kind = "mutate" /\ pc[p] \in {"evict", "stage", "replace", "mark"}
    THEN [does |-> "change", id |-> req[p].id, target |-> Absent, content |-> Absent,
          found |-> Absent, made |-> req[p].id \in applied]
  ELSE [does |-> "nothing", id |-> 0, target |-> Absent, content |-> Absent,
        found |-> Absent, made |-> FALSE]

History == INSTANCE UndoLog WITH
  Clients <- Procs, log <- Undoable, turn <- [p \in Procs |-> TurnOf(p)],
  unseen <- {Cur(p).target : p \in {q \in Procs : late[q]}}

\* With one engine, and index saves that replace the index or leave it, the locks,
\* blobs, saves, evictions, marks and reconciliations of any number of calls, and
\* their deaths, are a write-ahead log of changes: none is made that is not in the
\* log with what its file held, an undo puts back what the log said, and neither
\* eviction nor a clear takes what is under way ("Cross-process locks cover
\* validation, durable snapshot, and atomic replacement", README).
KeepsUndoLog == History!Spec
=============================================================================

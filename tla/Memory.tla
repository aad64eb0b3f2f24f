------------------------------ MODULE Memory ------------------------------
(***************************************************************************)
(* The memory tool of internal/jinn: scoped entries in a SQLite database   *)
(* that the processes of one user share, requests that are answered again  *)
(* instead of being run again, expiry and collection, and the migration of *)
(* tables an older jinn left behind.                                       *)
(***************************************************************************)
EXTENDS Integers, Sequences, FiniteSets, Functions

CONSTANTS
    MemClients,    \* processes, each with one memory call at a time
    MemArgs,       \* the arguments calls may have
    MemStarts,     \* the tables found: "absent", "modern", "partial", "legacy"
    MemMaxClock,   \* bound on the clock
    MemMaxCalls,   \* bound on the calls made
    MemRetention   \* defaultIdempotencyRetention, in ticks of the clock

VARIABLES
    memRows,       \* the memory table: slots to entries
    memColumns,    \* its columns that the migration tells apart
    memRequests,   \* the idempotency table: request ids to claims
    memTx,         \* the open write transaction, or NoTx
    memOpen,       \* the clients whose handle is open (Engine.memDB)
    memCall,       \* the call of each client
    memClock,
    memCalls,      \* how many calls were made
    memRuns        \* how often each request's work was committed while it was remembered

memVars == <<memRows, memColumns, memRequests, memTx, memOpen, memCall, memClock, memCalls, memRuns>>

NoTx == [owner |-> "none"]
NoID == "no id"
Never == -1
Core == "id, created_at, updated_at"
Added == <<"scope_id", "pinned", "expires_at">>
Columns == {Core} \cup Range(Added)
NoTable == {"no table"}

\* The actions that memoryTool knows.
ASSUME MemAssumption ==
    "none" \notin MemClients /\ \A a \in MemArgs : a.op \in {"save", "recall", "forget", "gc"}

\* resolveMemoryScope: where a key lives, or nothing.
ResolveMemoryScope(a) ==
    CASE a.scope \in {"", "project"} -> {[scope |-> "project", id |-> IF a.id = "" THEN "detected" ELSE a.id]}
      [] a.scope = "global" /\ a.id = "" -> {[scope |-> "global", id |-> ""]}
      [] a.scope \in {"task", "agent"} /\ a.id # "" -> {[scope |-> a.scope, id |-> a.id]}
      [] OTHER -> {}
\* A collection without a scope sweeps them all.
Sweeps(a) == a.op = "gc" /\ a.scope = ""
EntrySlot(a) == [at |-> CHOOSE r \in ResolveMemoryScope(a) : TRUE, key |-> a.key]
Slots == {EntrySlot(a) : a \in {b \in MemArgs : ResolveMemoryScope(b) # {}}}
\* Tables without scope ids hold their entries under the empty one.
Unscoped(s) == [s EXCEPT !.at.id = ""]
RequestIDs == {a.request : a \in MemArgs} \ {NoID}

\* What memorySave and its siblings refuse before they touch the database.
ArgsRefused(a) ==
    \/ ~Sweeps(a) /\ ResolveMemoryScope(a) = {}
    \/ a.op = "save" /\ a.pin /\ a.ttl # Never

\* "saved: key" and its like: what a caller is told of its own command.
ResultOf(a) == <<a.op, a.key>>
NoCall == [pc |-> "idle"]
Visible(e) == e.pinned \/ e.expires = Never \/ e.expires > memClock

-----------------------------------------------------------------------------
(* The work of a call inside its transaction.                              *)

\* memoryUpsertTx: a plain save keeps a pin that is there.
Upsert(rows, a) ==
    LET s == EntrySlot(a)
        e == [value |-> a.value, expires |-> IF a.ttl = Never THEN Never ELSE memClock + a.ttl,
              pinned |-> a.pin \/ (s \in DOMAIN rows /\ rows[s].pinned)]
    IN  [x \in DOMAIN rows \cup {s} |-> IF x = s THEN e ELSE rows[x]]
\* memoryGCTx: expired entries that are not pinned, of one scope or of all.
Collected(rows, a) ==
    {s \in DOMAIN rows : /\ ~Visible(rows[s])
                         /\ Sweeps(a) \/ s.at \in ResolveMemoryScope(a)}
\* idempotencyGCTx: claims older than the retention, whoever made them.
Pruned(requests) == {r \in DOMAIN requests : requests[r].born < memClock - MemRetention}

WorkedRows(rows, a) ==
    CASE a.op = "save"   -> Upsert(rows, a)
      [] a.op = "forget" -> Restrict(rows, DOMAIN rows \ {EntrySlot(a)})
      [] a.op = "gc"     -> Restrict(rows, DOMAIN rows \ Collected(rows, a))

-----------------------------------------------------------------------------
(* Calls.                                                                  *)

MemTypeOK ==
    /\ DOMAIN memRows \subseteq Slots \cup {Unscoped(s) : s \in Slots}
    /\ memColumns \subseteq Columns \/ memColumns = NoTable
    /\ DOMAIN memRequests \subseteq RequestIDs
    /\ memTx # NoTx => memTx.owner \in MemClients /\ memCall[memTx.owner].pc \in {"work", "commit"}
    /\ \A c \in MemClients : memCall[c].pc \in {"work", "commit"} => memTx.owner = c

MemInit ==
    /\ \E start \in MemStarts :
          /\ memColumns = CASE start = "legacy" -> {} [] start = "partial" -> {Core}
                           [] start = "absent" -> NoTable [] OTHER -> Columns
          /\ memRows \in IF start \in {"legacy", "partial"}
                         THEN {<<>>, [t \in {Unscoped(s) : s \in Slots} |->
                                         [value |-> "old", expires |-> Never, pinned |-> FALSE]]}
                         ELSE {<<>>}
    /\ memRequests = <<>>
    /\ memTx = NoTx
    /\ memOpen = {}
    /\ memCall = [c \in MemClients |-> NoCall]
    /\ memClock = 0
    /\ memCalls = 0
    /\ memRuns = [r \in RequestIDs |-> 0]

Answer(c, ok, result) == memCall' = [memCall EXCEPT ![c] = [pc |-> "idle", ok |-> ok, args |-> @.args, result |-> result]]
Rollback(c) == memTx' = IF memTx.owner = c THEN NoTx ELSE memTx
Goto(c, pc) == memCall' = [memCall EXCEPT ![c].pc = pc]

\* memoryTool: the arguments are checked, then the handle is opened.
MemoryTool(c, a) ==
    /\ memCall[c].pc = "idle" /\ memCalls < MemMaxCalls
    /\ memCalls' = memCalls + 1
    /\ memCall' = [memCall EXCEPT ![c] =
          IF ArgsRefused(a) THEN [pc |-> "idle", ok |-> FALSE, args |-> a, result |-> <<>>]
          ELSE [pc |-> IF a.op = "recall" THEN "read" ELSE IF c \in memOpen THEN "begin" ELSE "schema",
                args |-> a, columns |-> {}]]
    /\ UNCHANGED <<memRows, memColumns, memRequests, memTx, memOpen, memClock, memRuns>>

\* ensureSchema creates what is missing and reads the columns there are; the
\* migration that follows goes by what it read.
EnsureSchema(c) ==
    /\ memCall[c].pc = "schema" /\ memTx = NoTx
    /\ memColumns' = IF memColumns = NoTable THEN Columns ELSE memColumns
    /\ memCall' = [memCall EXCEPT ![c].pc = "migrate", ![c].columns = memColumns']
    /\ UNCHANGED <<memRows, memRequests, memTx, memOpen, memClock, memCalls, memRuns>>

Opened(c) == memOpen' = memOpen \cup {c}
\* One ALTER TABLE at a time; a column that is there by now is an error.
AddColumn(c) ==
    LET seen == memCall[c].columns
        missing == {i \in DOMAIN Added : Added[i] \notin seen}
    IN
    /\ memCall[c].pc = "migrate" /\ memTx = NoTx /\ Core \in seen
    /\ IF missing = {}
       THEN Goto(c, "begin") /\ Opened(c) /\ UNCHANGED memColumns
       ELSE LET col == Added[CHOOSE i \in missing : \A j \in missing : i <= j] IN
            /\ UNCHANGED memOpen
            /\ IF col \in memColumns
               THEN Answer(c, FALSE, <<>>) /\ UNCHANGED memColumns
               ELSE /\ memColumns' = memColumns \cup {col}
                    /\ memCall' = [memCall EXCEPT ![c].columns = @ \cup {col}]
    /\ UNCHANGED <<memRows, memRequests, memTx, memClock, memCalls, memRuns>>

\* rebuildMemoryTable copies every row with the columns the caller saw, the
\* others take their defaults; two rows that become one slot make it fail.
Rebuilt(rows, seen) ==
    LET Moved(s)  == IF "scope_id" \in seen THEN s ELSE Unscoped(s)
        Copy(e)   == [e EXCEPT !.pinned = @ /\ "pinned" \in seen,
                               !.expires = IF "expires_at" \in seen THEN @ ELSE Never]
        Source(t) == CHOOSE s \in DOMAIN rows : Moved(s) = t
    IN  [t \in {Moved(s) : s \in DOMAIN rows} |-> Copy(rows[Source(t)])]
RebuildMemoryTable(c) ==
    LET rows == Rebuilt(memRows, memCall[c].columns) IN
    /\ memCall[c].pc = "migrate" /\ memTx = NoTx /\ Core \notin memCall[c].columns
    /\ IF Cardinality(DOMAIN rows) < Cardinality(DOMAIN memRows)
       THEN Answer(c, FALSE, <<>>) /\ UNCHANGED <<memRows, memColumns, memOpen>>
       ELSE /\ memRows' = rows
            /\ memColumns' = Columns
            /\ Goto(c, "begin") /\ Opened(c)
    /\ UNCHANGED <<memRequests, memTx, memClock, memCalls, memRuns>>

\* BeginTx takes the write lock at once (_txlock=immediate); a request then
\* claims its id.  A claim that is there ends the transaction.
RunIdempotent(c) ==
    LET a == memCall[c].args
        claimed == a.request # NoID /\ a.request \in DOMAIN memRequests
        claim == [command |-> a.op, result |-> <<>>, born |-> memClock]
        requests == IF a.request = NoID THEN memRequests
                    ELSE [r \in DOMAIN memRequests \cup {a.request} |->
                             IF r = a.request THEN claim ELSE memRequests[r]]
    IN  /\ memCall[c].pc = "begin" /\ memTx = NoTx
        /\ IF claimed THEN Goto(c, "replay") /\ UNCHANGED memTx
           ELSE Goto(c, "work") /\ memTx' = [owner |-> c, rows |-> memRows, requests |-> requests]
        /\ UNCHANGED <<memRows, memColumns, memRequests, memOpen, memClock, memCalls, memRuns>>

\* req.fn(tx): the work of the command, unseen by others.
Work(c) ==
    LET a == memCall[c].args
        gone == IF a.op = "gc" THEN Pruned(memTx.requests) ELSE {}
    IN  /\ memCall[c].pc = "work"
        /\ Goto(c, "commit")
        /\ memTx' = [memTx EXCEPT !.rows = WorkedRows(@, a),
                                  !.requests = Restrict(@, DOMAIN @ \ gone)]
        /\ UNCHANGED <<memRows, memColumns, memRequests, memOpen, memClock, memCalls, memRuns>>

\* completeIdempotent: result and work are committed together.  The UPDATE of
\* a claim that the work itself pruned changes nothing and is no error.
CompletedRequests(a) ==
    [r \in DOMAIN memTx.requests |->
        IF r = a.request THEN [memTx.requests[r] EXCEPT !.result = ResultOf(a)] ELSE memTx.requests[r]]
CompleteIdempotent(c) ==
    LET a == memCall[c].args
        requests == CompletedRequests(a)
    IN  /\ memCall[c].pc = "commit"
        /\ memRows' = memTx.rows
        /\ memRequests' = requests
        /\ memTx' = NoTx
        /\ memRuns' = [r \in RequestIDs |-> IF r \notin DOMAIN requests THEN 0
                                            ELSE IF r = a.request THEN memRuns[r] + 1 ELSE memRuns[r]]
        /\ Answer(c, TRUE, ResultOf(a))
        /\ UNCHANGED <<memColumns, memOpen, memClock, memCalls>>

\* A statement, the work or the commit fails: the transaction is rolled back.
MemFail(c) ==
    /\ memCall[c].pc \in {"schema", "begin", "work", "commit", "replay", "read"}
    /\ Answer(c, FALSE, <<>>)
    /\ Rollback(c)
    /\ UNCHANGED <<memRows, memColumns, memRequests, memOpen, memClock, memCalls, memRuns>>

Replayable_AnyCommand(claim, a) == claim.result # <<>>
\* replayIdempotent reads the claim after its transaction has ended: it may be
\* gone by then.  Another command's claim is a conflict.
Replayable(claim, a) == claim.command = a.op /\ claim.result # <<>>
ReplayIdempotent(c) ==
    LET a == memCall[c].args IN
    /\ memCall[c].pc = "replay"
    /\ IF a.request \in DOMAIN memRequests /\ Replayable(memRequests[a.request], a)
       THEN Answer(c, TRUE, memRequests[a.request].result)
       ELSE Answer(c, FALSE, <<>>)
    /\ UNCHANGED <<memRows, memColumns, memRequests, memTx, memOpen, memClock, memCalls, memRuns>>

\* memoryRecall, memoryList: committed entries that have not expired; tables
\* an older jinn made cannot be asked before they are migrated.
MemoryRecall(c) ==
    LET a == memCall[c].args
        found == EntrySlot(a) \in DOMAIN memRows /\ Visible(memRows[EntrySlot(a)])
    IN  /\ memCall[c].pc = "read"
        /\ IF memColumns = Columns /\ found
           THEN Answer(c, TRUE, <<"value", memRows[EntrySlot(a)].value>>)
           ELSE Answer(c, FALSE, <<>>)
        /\ UNCHANGED <<memRows, memColumns, memRequests, memTx, memOpen, memClock, memCalls, memRuns>>

\* A process dies, perhaps after its commit and before its answer; a caller
\* that hears nothing sends the request again.
MemCrash(c) ==
    /\ memCall[c].pc # "idle" \/ c \in memOpen
    /\ memCall' = [memCall EXCEPT ![c] = NoCall]
    /\ memOpen' = memOpen \ {c}
    /\ Rollback(c)
    /\ UNCHANGED <<memRows, memColumns, memRequests, memClock, memCalls, memRuns>>

MemTick ==
    /\ memClock < MemMaxClock
    /\ memClock' = memClock + 1
    /\ UNCHANGED <<memRows, memColumns, memRequests, memTx, memOpen, memCall, memCalls, memRuns>>

MemNext ==
    \/ \E c \in MemClients :
          \/ \E a \in MemArgs : MemoryTool(c, a)
          \/ EnsureSchema(c) \/ AddColumn(c) \/ RebuildMemoryTable(c)
          \/ RunIdempotent(c) \/ Work(c) \/ CompleteIdempotent(c) \/ ReplayIdempotent(c)
          \/ MemoryRecall(c) \/ MemFail(c) \/ MemCrash(c)
    \/ MemTick

MemSpec == MemInit /\ [][MemNext]_memVars

-----------------------------------------------------------------------------
(* Properties.                                                             *)

\* A retried request is not run again while it is remembered, whatever died,
\* failed or was collected in between, and who gets an answer gets the result
\* of its own command, never that of another one under the same id
\* (runIdempotent, replayIdempotent).
RequestsRunOnce ==
    /\ MemTypeOK
    /\ \A r \in RequestIDs : memRuns[r] <= 1
    /\ \A r \in DOMAIN memRequests : memRequests[r].result # <<>>
    /\ \A c \in MemClients :
          memCall[c].pc = "idle" /\ memCall[c] # NoCall /\ memCall[c].ok /\ memCall[c].args.op # "recall"
             => memCall[c].result = ResultOf(memCall[c].args)

\* "Pre-redesign tables ... are rebuilt with their rows preserved"
\* (migrateMemoryColumns): a rebuild changes no row.
RebuildKeepsRows ==
    [][\A c \in MemClients :
          memCall[c].pc = "migrate" /\ memCall'[c].pc # "migrate" => memRows' = memRows]_memVars
=============================================================================

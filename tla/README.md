# jinn: a verification development

jinn is a tool executor for coding agents: one binary that reads a request (a tool and its arguments), runs
it inside one working directory, and answers in JSON. This directory holds TLA+ modules for the parts of jinn
in which several processes, goroutines, nested plans or failures meet, the TLC configurations that check them on
small instances, and proofs, checked by TLAPS, that hold for every instance.

1. [Inventory](#inventory): the parts of jinn, their state, and what makes them correct
2. [Modules and the code](#modules-and-the-code): which definition stands for what
3. [Runs](#runs): what TLC checks, within which bounds
4. [Fairness](#fairness)
5. [Proofs](#proofs): what TLAPS proves and how
6. [What the checks found](#what-the-checks-found)
7. [What is not modelled](#what-is-not-modelled)
8. [Plan](#plan)

## Inventory

A request reaches a tool in one of four ways: one process per request (`jinn` reading standard input), a
persistent engine (`--inspect`), an MCP broker (`--mcp`, `--mcp-http`), or as an operation of a `run_plan`. The
first three differ in how many calls one process runs at a time; all of them share files on disk (the
workspace, the undo history, the memory database, the spill registry, caches), so that calls of several processes
interleave there.

| Part | State | Operations | Hard behaviour | What makes it correct |
|---|---|---|---|---|
| **File mutation and undo history** (`history.go`, `tool_undo.go`, `filelock.go`, `batch_write.go`, `tool_write.go`, `tool_edit.go`, `tool_patch.go`, `tool_multi_edit.go`, `tool_search_replace.go`) | workspace files; `index.json` and one blob per entry; three kinds of flock | write, edit, delete, batches; undo list, preview, restore, clear | processes that interleave and die between any two steps; an index save that fails before or after its rename; other programs that edit the same files; eviction | a call never replaces content it did not see; a change can be undone; an entry says what happened; an entry has its blob; a partial batch is reported truthfully |
| **Plan engine** (`plan_engine.go`, `plan_types.go`, `tool_run_plan.go`) | the walk of each nested plan; one shared operation budget; the context of the call | submit, enter a node, run its operations in turn or at once, start a nested plan, evaluate edges | nesting: depth, authority and budget pass from plan to plan; cycles; cancellation; blocked operations | a nested plan never has more authority, depth or budget than what is around it; a cancelled or blocked run is not reported as finished; every call ends |
| **MCP batch** (`internal/mcpbatch`) | job channel, result slots, a flag and a context | schedule, call, fail fast, cancel | a pool of goroutines; a select with two ready branches; a timeout racing a cancellation | one truthful status per call, the cause of a failure reported, no call sent twice, the batch ends |
| **MCP batch approval** (`mcp_explorer_batch*.go`, `mcp_explorer_snapshot.go`) | an approved manifest, the server's live manifest | approve, check before connecting and before calling | the server changes between the check and the calls | what runs is what was approved |
| **Shell execution** (`tool_shell.go`, `shell_capture.go`, `shell_process_*.go`) | a process group, two pipes, a bounded capture with a spill file | start, copy output, time out, cancel, hit the output limit | exit, timeout, cancellation and limit race; descendants outlive the shell and hold its pipes | a command never outlives its deadline; the reported cause is the real one; the spill holds what was written |
| **Spill registry** (`spill_registry.go`) | `spills.json`, spill files | register, expire, evict, look up | read-modify-write by several processes, best effort on failure | no live registration is lost; no file outside the registry is readable or deleted |
| **Memory store** (`tool_memory.go`, `memory_*.go`, `idempotency_store.go`, `db.go`) | SQLite tables | save, recall, forget, list, gc; idempotent requests | retries of a request that committed, failed or is running | a request runs once; a retry gets the same answer |
| **Web fetch** (`internal/webfetch`) | a lazily started browser; a cache of documents on disk | fetch, render, search, clean up, close | the first fetches start the browser while Close arrives; cache writers and cleaners in several processes | no browser survives Close; a cached document is whole and was allowed |
| **MCP explorer, registry, snapshots** (`internal/mcpexplore`, `internal/mcpsnapshot`, `mcp_explorer*.go`) | a registry file, snapshot files | add, remove, list servers; take, compare snapshots | read-modify-write under a lock, replacement of files | no lost registration; a snapshot is whole |
| **LSP client** (`lsp_*.go`, `tool_lsp*.go`) | one connection to a language server; pending requests | request, notify, collect diagnostics, shut down | answers out of order, late, or never | an answer reaches its request; every request ends |
| **MCP broker** (`cmd/jinn/mcp*.go`) | sessions, calls under way, a rotating log | call, cancel, log, shut down | cancellation against completion; rotation by several processes | a call is answered once |
| **Inspector** (`cmd/jinn/inspect*.go`) | a persistent engine, an HTTP listener | serve, time out, shut down | requests at shutdown | the engine outlives its requests |
| **Router, schemas, engine** (`router.go`, `engine.go`, `tool_registry.go`, ...) | none across requests | decode, validate, dispatch | none of its own | rejects what the schema rejects |
| **Command risk classifier** (`command_risk*.go`) | none | classify a command line | a pure function | never calls a dangerous command safe |
| **Text in and out** (`compress*.go`, `truncate_smart.go`, `output*.go`, `tool_read*.go`, `tool_search.go`, `tool_find.go`, `diff*.go`, `edit_apply.go`, `patch*.go`) | none | format, shorten, search, compute edits | boundaries | what is shown is what is there |
| **Paths** (`security.go`, `mutation_files_*.go`) | none | resolve and confine | symbolic links | stays in the working directory |
| **Command line, questionnaire, schema signatures, scripts, examples** | none | parse, ask, render | none | - |

How the parts meet: a plan runs tools through the engine's `Dispatch`, so that a plan's operations are mutations and
shell commands, and a plan with a `cwd` makes an engine of its own which shares the history, but not the lock names,
of its owner. Every mutation calls the undo history. The explorer's batch command calls `mcpbatch.Execute` after the
approval check. The broker and the inspector call `Dispatch` for each request, in goroutines. Cancellation is always
the context of the outermost call.

The list of hazards, each with the line where it bites and the properties that cover it, is in `PROJECT.json`.

## Modules and the code

| Module | Contents |
|---|---|
| `Mutation` | the mutation protocol and the undo history |
| `MCMutation` | instances for TLC; four configurations |
| `UndoLog` | what the undo history promises: a log of changes, each announced before it is made, which `Mutation` implements |
| `MutationProofs` | type correctness, mutual exclusion, no lost update, the statements about entries, blobs and batches, and the implementation of `UndoLog` |
| `McpBatch` | `Execute` of `internal/mcpbatch` |
| `MCMcpBatch` | instance for TLC |
| `McpBatchProofs` | type correctness and the five statements about calls, results and failures |
| `PlanEngine` | the walk of `run_plan` with nested plans |
| `MCPlanEngine` | a family of plans for TLC |
| `PlanEngineProofs` | the invariant of the stack of runs and the statements that follow from it |
| `ShellRun` | `executeShellCommand`: the command, its pipes, the capture and the call |
| `CallPromise` | what `run_shell` promises its caller, which `ShellRun` implements |
| `MCShellRun` | instance for TLC |
| `ShellRunProofs` | the invariant, four statements and the implementation of `CallPromise` |
| `Memory` | the memory store: scoped entries, idempotent requests, collection, migration |
| `WebFetch` | fetches and searches, their fallbacks and retries, the shared renderer and its `Close` |
| `WebCache` | the directory of cached pages that several processes share |
| `SpillRegistry` | which spill files may be read back, and which are deleted |
| `WebProofs` | the owner of the renderer, the lock of the cache and what a removal takes |
| `MemoryProofs` | a request is run once and its claim is honest |
| `SpillRegistryProofs` | a written registration is kept |
| `MCServices` | instances of `Memory`, `WebFetch`, `WebCache` and `SpillRegistry` for TLC; two configurations |
| `Paging` | the pages of `read_file`, `multi_read` and `web_fetch`, and a reader that follows their continuations |
| `ShellLexer` | how the risk classifier reads a command line |
| `CommandRisk` | the risk of a command line |
| `RiskGate` | scripts built from commands and constructs of bash, and the gate of `run_shell` in front of them |
| `Edits` | what edits, replacements and patches make of a text |
| `PlanConditions` | how a condition of a plan is written, checked and evaluated |
| `LspSession` | a call of `lsp_query` or `lsp_batch` and its language server |
| `ToolProofs` | conditions decide, pages cover what is read, a query gets the answer to its own request, edits land |
| `MCTools` | instances of the seven from `Paging` to `LspSession` for TLC; three configurations |

`MCServices` and `MCTools` put components that share no state into one instance: a variable (`service`, `tool`) chooses one
of them at the start, the others stay at rest. `Mutation` takes the content that `Edits` computes as given, `PlanEngine` the
outcome that `PlanConditions` decides, `WebFetch` a page that `WebCache` has or has not, and `ShellRun` a command that
`RiskGate` has let through: each of these is a choice the larger model leaves open.

Definitions named `X_Something` with the comment "mutant" are plausible bugs of the definition `X` they stand before.
No behaviour uses them; each shows that a property notices what it is meant to notice.

### Mutation

A process (`Procs`) runs one tool call at a time: `pc` says where it is, `req` what it runs. `file` is the workspace,
`index` the entries of `index.json` by snapshot id, `blobs` the blob files. `mutOwner`, `tgtOwner` and `histOwner` are the
three flocks: the workspace mutation lock (`mutations.lock` of an engine), the lock of one target, and the lock of the
history. The first two are named after the working directory of the engine, which is why they are indexed by `Scopes`:
the root engine and the engines that `run_plan` makes for its `cwd`. All engines share files and history.

| Code | Actions |
|---|---|
| a mutating tool is called with what its caller last read (`if_checksum`, `if_absent`) | `BeginMutation` |
| `withTargetLocks`, `withTargetLocksOnly`: mutation lock, then the locks of the targets in order | `LockMutation`, `LockTargets` |
| validation of every target before any is changed | `Preflight`, `Refuse` |
| `verifyPreflightState` before each file of a write or a batch (`edit_file` does without) | `Reverify`, `ReverifyFails` |
| `recordSnapshotLockedStrict`: blob, index, blobs of evicted entries | `WriteBlob`, `WriteBlobFails`, `SaveIndex`, `SaveIndexFails`, `RemoveEvicted` |
| `atomicWriteFileStaged`: temporary file, last comparison, rename, directory sync | `Stage`, `Rename` |
| `removeFileDurable` | `Unlink` |
| `markSnapshotState` with the next file of a batch, or the end of the call | `MarkCommitted`, `MarkFailed`, `Proceed` |
| `undoRestore`: lookup under the history lock, then the locks, then the replacement | `BeginRestore`, `ReadBlob`, `Recheck`, `PutBack` |
| `undoClear` | `BeginClear`, `ClearFirst`, `ClearRest` |
| `undo list` and `preview`, each with its reconciliation of prepared entries | `List` |
| a process dies; another program edits a file | `Crash`, `Edit` |

A digest is the content itself and a snapshot id the ordinal of the snapshot. Faults are a constant: `io` (a step fails
and nothing changed), `sync` (the directory sync fails after the change), `save` and `torn_save` (the index save fails
before or after its rename), `torn_clear`, `blob` (a blob cannot be written, or what follows its rename fails; a blob
cannot be removed, an error nobody looks at), `crash`, `edit`. Four ghosts: `applied`, the snapshots whose
replacement did happen; `leaked`, those whose blob a failed step or a death left behind; `unmarked`, those whose call died
before its mark or could not save it; and `late`, the calls whose target another program changed after the last comparison
the protocol makes. That last window cannot be closed without the cooperation of the other program, so the property about lost updates
leaves it out, and nothing else.

### McpBatch

The scheduler (`scheduler`, `scheduled`) hands indices to workers over an unbuffered channel: a `Send` is one step of both.
A worker is `idle` (receiving), `received` (before it looks at the context), `calling`, `failing` (before the
compare-and-swap of `failed`), `cancelling` (before it cancels the context) or `stopped`. `Check` and `Send`/`GiveUp` are two
steps because `failed` may be set in between; in the select either branch may be taken when both are ready, as in Go. The
status of a failed call is chosen from the error and the state of the context after the call (`ErrorStatus`). `CallErrors`
is the set of errors a client returns on its own.

### PlanEngine

`stack` holds the runs under way, the outermost first: a nested `run_plan` pushes a run, and when it ends its result
becomes the result of the operation that started it. A run knows its plan and node, `depth` (the absolute graph depth of
the code), `maxDepth` and `authorized` (the fields of `planExecutionContext`), the state of the node's operations and the
edge it evaluates. Operations of a serial node take turns; those of a parallel node run at once. `reserved` is the shared
budget. `via`, `path`, `ran` and `aborted` are ghosts that record how a node was reached, how many nodes lie on the path
through all nested runs, how many operations were started, and whether some run reported an abort.

| Code | Definitions |
|---|---|
| `dispatchPlanOps`, `validatePlan` | `Submit`, `Accepted`, `Valid`, `NoShell` |
| `planExecutionContextFor` | `Outermost`, `Nested` |
| `runPlanOp`, `runMutatingOp`, `planToolRisk` | `Admits`, `Forced`, `Block`, `Start` |
| `runPlanTree`: start of an iteration | `Enter`, `NotEntered`, `OverBudget` |
| `runPlanTree`: the commands of a node | `Turn`, `Block`, `Start`, `Finish`, `StartNested` |
| `runPlanTree`: after the commands | `Judge` |
| `runPlanTree`: the edges | `EvaluateEdge`, `EdgesExhausted`, `Outcomes` |
| `newPlanRunResult`, `planToolResult`, `planRunSucceeded` | `Reports`, `Told`, `Succeeded` |

An operation is a kind (shell command, tool, web tool, nested plan) and a risk, the verdict of the risk classifier or of
the lists of tools. A condition is one of six kinds: `always`; two kinds that look at the exit code; `data` (a JSON path or
a number, which may go either way); `probe` (a file test, which may also fail); `match` (the fuzzy one). The transcript may
outgrow its budget after any node.

### ShellRun

The command is three processes: the shell, a background job in its group, and a daemon that has left the group; each holds
some of the write ends of the two pipes. A pipe is a number of bytes. For each pipe a goroutine reads what there is and
hands it to the capture, one `Write` at a time, as the mutex of the capture has it. Of the capture the model keeps the
counts: bytes accepted, bytes in the spill file, whether an error was kept. The call goes through two selects, `select`
for the exit of the shell and `drain` for the end of the pipes; in each of them any branch that is ready may be taken.
`Kill` is immediate: the code waits for the shell it killed before it goes on. `expired` stands for both timers, which run
out at the same time.

| Code | Definitions |
|---|---|
| `runWithTimeoutControl` | `Start`, `Exits`, `GiveUp`, `Give`, `Kill` |
| `executeShellCommand` after the exit | `Close`, `Drained`, `Interrupt` |
| the two copying goroutines | `Read`, `Ended`, `Write` |
| `shellOutputCapture.Write`, `ensureSpillLocked`, `EnsureSpill` | `Accepted`, `Write`, `Spill` |
| `shapeShellOutput`, `runShell` | `Return`, `Outcome` |

`CallPromise` knows only what a caller can judge: whether the deadline has passed, whether the caller cancelled, the exit code,
whether the command wrote more than is kept, and what was told. It is refined with `overflow` as `written > SpillMax`.

### Memory

A write transaction is `memTx`: at most one at a time, its rows and requests unseen until `CompleteIdempotent` installs them.
That is what SQLite promises for `_txlock=immediate`; a crash or an error drops it.

| Code | Definitions |
|---|---|
| `memoryTool`, `resolveMemoryScope` | `MemoryTool`, `ArgsRefused`, `ResolveMemoryScope` |
| `ensureSchema`, `migrateMemoryColumns`, `rebuildMemoryTable` | `EnsureSchema`, `AddColumn`, `RebuildMemoryTable` |
| `runIdempotent`, `completeIdempotent`, `replayIdempotent` | `RunIdempotent`, `CompleteIdempotent`, `ReplayIdempotent` |
| `memoryUpsertTx`, forget, `memoryGCTx`, `idempotencyGCTx` | `Work`, `Upsert`, `Collected`, `Pruned` |
| recall; a statement that fails; a process that dies | `MemoryRecall`, `MemFail`, `MemCrash` |

The database may be new, of this version, or left behind by an older one (`MemStarts`). `memRuns` is a ghost: how often the work of
a request was committed while its claim was remembered.

### WebFetch

A call is at a place of the code (`pc`) with the rung of the ladder it is on (`from`): the cache, a static request, the renderer,
Jina. `get` is one attempt over the network, which may redirect, fail, be retried or be answered, with a usable page or not.

| Code | Definitions |
|---|---|
| `Fetch`, `Search`, `normalizeRenderOptions`, `validateSearchRequest` | `Fetch`, `FetchRefused`, `SearchRefused` |
| `fetchWithRender`, `Client.Do`, `checkRedirect`, `requestAttempts` | `Received`, `OrJina`, `RenderFailed`, `Answered`, `Redirect`, `Retry` |
| `ensureRenderer` | `EnsureRenderer`, `AwaitRenderer`, `MakeRenderer`, `InstallRenderer`, `DiscardRenderer` |
| `Service.Close` | `Close`, `CloseRenderer`, `CloseReturns` |
| `chromedpRenderer.Render` | `TakeSlot`, `BrowserRequest`, `BrowserLoaded`, `ProxyBytes`, `BrowserFails`, `Snapshot` |

A renderer is named after the call that made it. The browser and the network are external: they may do anything the code
lets through.

### WebCache

`load` is a sweep, an `OpenEntry`, a `JudgeEntry` and perhaps a removal; `store` is `StoreTemp`, `StoreRename` and a sweep. The sweep
reads names (`Sweep`) before it takes the lock (`TakeLock`, `WithCacheLock`). Under the lock `removeExpired` takes three steps
for an entry: it opens and judges it again (`ExamineEntry`), compares the path with the file it opened (`CompareEntry`) and removes what
is at the path (`RemoveEntry`). Only the lock keeps another process from renaming a new page over the path between the last two. The clock moves between any
two steps, and a process dies at any of them.

### SpillRegistry

`Spill` creates the file, `RegisterSpill` reads the registry under its lock and decides what to forget; a registry that cannot be read
or parsed is an empty one (`ReadSpillRegistry`), to which the record is added. `DeleteRecordedSpill`
deletes one forgotten file, `WriteRegistry` writes the registry or fails to. A reader takes two steps without the lock: it looks at
the file (`StatSpill`), then at the registry (`IsRegisteredShellSpill`). A file is its inode and its version, so that a name used
twice is two files. `spillTried` and `spillTaken` are ghosts: the registrations in the order of the lock, whether each was written and whether it read
the registry blind, and the files somebody else touched.

### Paging

One state is a reader that has got `pagGot` and asks for `pagAsk`; the answer's continuation is the next question. Lines of a file are
their sizes; a fetched document is a sequence of bytes in which `L`, `C` are the two bytes of one character. What a reader of a file has
got is a sequence of pages, each the first and the last line it shows.

| Code | Definitions |
|---|---|
| `resolveReadWindow`, `explicitOrDefaultWindow` | `WindowEnd` |
| `renderSelectedWindow`: numbers, and trailing line ends trimmed before anything is cut | `Rendered`, `LastRendered` |
| `applyTruncateStrategy`, `truncateOutputSmart`, `truncateOutputEnd` | `Truncated`, `CutLine`, `Marked` |
| `byteTruncateResult`, `assembleReadResult` | `BytesKept`, `ReadPage` |
| `readNextCall`, `readTextFile` | `NextEnd`, `ReadFile` |
| `ProjectContent`, `ProjectFetchContentAt` | `ProjectContent`, `NextLineByte`, `FetchPage` |
| `multiRead` | `MultiRead` |

`braceCutLine` is the constant `PagCuts`: after which lines the blocks opened since a page began are closed. The strategies `tail` and `middle`
and the argument `tail` are left out: their pages are not meant to be continued. `PagesCover` asks of the pages of a file that they go on in order,
repeat no line and leave none out, but for the blank lines that end a page without numbers, which the code trims
(`CoverLines`). It speaks of files whose lines fit in a page with their numbers (`Fits`), which those of the run do.

### ShellLexer, CommandRisk, RiskGate

A command line is a sequence of symbols: a character with a meaning for the shell, or a word. `ShellLexer` holds the functions of
`command_risk_parse.go` and `CommandRisk` those of `command_risk.go` under their names; the tables of verbs and
options are those of the code where a rule hangs on them. `RiskGate` builds a line from simple commands as scripts are
built (`In`: lists, pipes, substitutions, functions, wrappers, quoted scripts), so that what it would run is known, and then asks
`run_shell` (`RunShell`, `RunShellDisabled`). `In` is about bash and external. `Buildable` says where a construct may stand
in bash, and two restrictions of its own: a parenthesis is written onto a plain command word only (`(rm x)`, not `({ rm x; })` or `(x=1 rm)`,
where the lexer takes parenthesis and word for one verb it does not know; see [what the checks found](#what-the-checks-found)), and a wrapper is put around a simple command only.

### Edits

A text is a sequence of characters: letters, a blank, a typographic quote and its plain form, three line ends. `MapNormalizedText`
is the normalization with its map back to the text, which everything else goes by.

| Code | Definitions |
|---|---|
| `applyEdit`, `reindentNewText`, `normalize.go` | `ApplyEdit`, `ReindentNewText`, `MapNormalizedText`, `Replacement` |
| `multi_edit` | `MultiEdit`, `DetectOverlaps`, `SortRawEntriesPositional`, `ApplyPendingEdit`, `EditsApplied` |
| `search_replace` | `SearchReplace`, `Matches`, `SrApplyOne` |
| `apply_patch`, one update | `ApplyPatch`, `ResolveNext`, `ResolveChunk`, `SeekSequence`, `DeriveUpdatedContent`, `PutRecords` |

The reference is `AtOnce`: all regions, from left to right, replaced at once in the text as it was. For `multi_edit`, `EditsLand` speaks of edits
that are found as they stand, that are different, and whose texts to look for do not overlap themselves (`SelfOverlaps`; see
[what the checks found](#what-the-checks-found)); the result is that of `AtOnce` up to line ends, and exactly as long as the
text has one kind of line end and an edit does not take the last of them away.

### PlanConditions

A behaviour is one condition: as written (`condGiven`), coerced (`CoercePlan`), validated (`ValidateCondition`) and evaluated on a
result (`EvaluateCondition`). A result is given by what the code asks of it: its characters, the number it reads as, the number a
capture group finds, its JSON leaves. Numbers count halves, so that integers and others are told apart.

`ConditionsDecide` compares a shorthand with its text as the documents mean it: `stderr =~ /x/` is about stderr (`Named`). The code searches
both streams, so that the property speaks of such a condition where the other stream is empty (`Alone`); and of data that cannot be
read it speaks only without `negate`, which the code does not apply there.

### LspSession

Four actors: the caller with its select over result, timer and context (`LspReturn`, `LspExpire`, `LspCancel`, `LspTimedOut`);
the goroutine that talks to the server, one request at a time (`DidOpen`, `SendRequest`, `ReadReply`, `ReadFails`,
`ShutdownExpires`, `StopClient`); `client.stop`, which only the first to come carries out (`Stopped`, `LspReap`); and the
server, which may answer late, in another order, with an error, unasked or never, and may leave a child behind that holds its stderr
(`ServerAnswers`, `ServerSpeaks`, `ServerForks`), which may or may not end (`OrphanEnds`). `lspLocal` are the results of the goroutine, `lspItems` what
the call reports.

## Runs

| Run | Question | Bounds |
|---|---|---|
| `faults` | Do the locks and the last comparisons prevent lost updates, does the history store stay whole, and is it the log `UndoLog` promises, whatever fails? | 2 processes, 3 calls, 1 file, 2 contents, history of 2 entries and 3 bytes, 1 foreign edit, all faults but torn saves and torn clears |
| `honest` | Does each settled entry tell the truth while a list may reconcile at any moment, is a blob without an entry always the work of a failure, and is the report of a half-done batch true? | 2 processes, 2 calls of 2 files, history of 2 entries and 4 bytes, every fault, without foreign edits |
| `mcpbatch` | Statuses, causes, single sends, stopping; does every batch end? | 2 workers, 5 calls, `fail_fast` on and off |
| `plan` | Authority, read-only scope, depth, gates, disabled shell, blocks and aborts under nesting; does every call of `run_plan` end? | one in eleven of the combinations of 384 outer, 32 middle and 2 inner plans, budget 5, depth 3 |
| `shell` | Is the outcome one that happened, is output or a process left behind, does every call end in time? | 3 processes, 2 pipes of 2 bytes, 4 bytes written, tail of 1 and capture of 3 bytes |
| `services` | Does a request run once, is every renderer released, does a fresh page and a registered spill stay? | memory: 2 clients, 3 calls of 9 kinds, clock 1, retention 0, each table an older jinn may leave; web: 2 calls of 6 kinds, 1 slot, 1 redirect, 2 attempts; cache: 2 processes, 2 pages, 2 stores, batches of 1; spills: 2 processes, 2 names, 3 files, a registry of 2 |
| `tools` | Do pages cover what is read, does nesting keep the risk, do edits land, do conditions decide, do answers reach their queries, does every session end unless a child of its server holds the stderr? | files of up to 5 lines, documents of up to 6 bytes; 2 commands in every pair of 27 constructs; pairs of edits of one file and triples over two, patches of up to 2 hunks; about 1,700 conditions on 96 results; 8 LSP calls, 1 unasked message |
| `lost_undo`, `nested_write`, `memory_migration`, `patch_hunks`, `lsp_children` | five statements of the documents and comments that the code does not keep | see [below](#what-the-checks-found) |

Why the bounds are enough to be interesting:

- *Mutation.* Two processes contend for every lock, and the third call finds what the first two left. Two contents and
  absence distinguish before, after and neither, which is all reconciliation looks at. A history of two entries evicts at
  the third snapshot, and contents of one and two bytes make the byte limit bite before the entry limit, or after it. One
  foreign edit suffices to hit any window; `late` tells which. Batches are checked with two files because the report
  concerns a file done and a file failed.
- *McpBatch.* Five calls on two workers leave three calls to be scheduled after the first answers, so that failures overlap
  with sends, two failures race for the cancellation, and one call more than `StopsFast` allows could still be sent.
- *PlanEngine.* Three levels are the least at which authority or depth could skip a level. The plans of each level vary in
  exactly the attributes the code looks at: what the nodes run, whether they mutate, force or run in parallel, their edges
  (cycles included), the plan's force and depth limit. A budget of five runs out in the second node or in a nested plan.
- *ShellRun.* A tail of one byte and a capture of three make the second byte open the spill file and the fourth exceed the
  limit; reads of two bytes straddle it. The three processes are the three cases of a kill: the process itself, one the
  signal reaches, one it does not.
- *Memory.* Three calls are a request, its retry and a collection between them; two clients make each of them concurrent. A
  retention of zero lets a claim expire with the first tick. Older tables are found empty or full.
- *WebFetch.* Two calls are one that makes the renderer and one that waits for it; with `Close` they meet in every order. One slot
  makes the second wait, one request and one byte exhaust the budgets.
- *WebCache.* Two stores are a page and its replacement; one tick expires the first and not the second. Batches of one leave
  the cursor in the middle of two pages.
- *SpillRegistry.* Three files in a registry of two evict; three files under two names reuse one.
- *Paging.* Windows of two lines, or up to an `end_line` of three, two lines for shortened answers, nine bytes for a page and two for the
  marker: files of five lines meet each of them, blank lines stand at every place, and lines of six bytes cut a page by bytes. Documents of six bytes hold characters and line ends across each limit of
  up to three.
- *RiskGate.* Every rule of the lexer concerns a construct and what is directly in it, and pairs nest them all.
- *Edits.* Three edits are the least for an order with a wrong neighbour; texts mix line ends, blanks and quotes at each end.
- *LspSession.* Two queries are the least for an answer that comes too late for one and meets the other.

The bounds that cut behaviours off, everything else ends by itself: `MaxCalls` and `MaxEdits` of `Mutation`, `MaxWritten` of
`ShellRun`, `MemMaxClock` and `MemMaxCalls`, `CacheMaxClock` and `CacheMaxStores`, `SpillMaxClock`, `SpillMaxFiles` and
`SpillMaxTouches`, `GateDepth`, `LspNoise`.

Deadlock is checked in the runs of the first four components, where `List`, `Returned` and similar steps stand for a system that
is asked nothing more. The configurations of `MCServices` and `MCTools` switch the check off: their calls are answered, their
texts read and their clocks at the end, and nothing is left to do. That nobody waits for ever is stated there by `RenderersReleased`
(whoever waits waits for a renderer being made) and `LspEnds`. Of the mutation locks it is not stated: an engine takes its target locks
under its mutation lock, so that no circle of waiting could arise there. Symmetry is used for processes and files, in safety runs only.

## Fairness

`FairSpec` of `McpBatch` is weak fairness
of the scheduler and of each worker, as the Go runtime gives; that a call ends rests on the timeout the code sets for each
call. `FairSpec` of `PlanEngine` is weak fairness of the walk; that an operation ends rests on the timeouts of the tools and
of the shell. `FairSpec` of `ShellRun` is weak fairness of the passing of time, of the call and of its two goroutines; the
command owes nothing, it may run, print and hold its pipes for ever. `LspSpec` is weak fairness of the steps of the caller and of the
goroutine, of the two timers (`LspExpire`, `ShutdownExpires`) and of reaping a killed server whose stderr nobody holds; nothing is assumed of the server
or of its children. `cmd.Wait` waits for a child that holds the server's stderr, and the code has nothing that ends such a child: `LspEnds` says in
its own text that it speaks of runs in which no child holds it for ever, and `lsp_children` shows what happens otherwise. Cancellation, crashes, faults and foreign edits are never fair: nothing relies on their happening.

## Proofs

`tlapm` checks every proof to its leaves. Assumptions are the named ones of the modules, and TLC evaluates them in each run:
names that must differ, limits that are natural numbers, a blob that fits in the history, and for plans that commands and
edges are sequences and flags are Boolean. No proof bounds processes, files, contents, calls, workers, plans, nesting or
limits.

**MutationProofs.** `TypeCorrect` proves `TypeOK` from `TypeInv`, which adds `CallOK`: what a request looks like at each place
of the code, in particular that the position of a call under way is one of its operations. `MutexCorrect` proves that the
calls past the mutation lock of one engine are at most one (each holds the lock; `LockInv` relates `pc` and `mutOwner`).
`NoLostUpdate` proves `ReplacesWhatItChecked` for one engine: by mutual exclusion nobody but another program changes a file
while a call is between its last comparison and its replacement, and `late` records when that happened. With two engines
the property is false, see below; the assumption is explicit in the theorem.

The statements about the history rest on `HistoryInv`: who keeps the history lock from one step to the next (`HistInv`), under
which id each call records and that this id is new (`RecordOK`), that ids are given out once and bound every entry (`IdsInv`).
It holds for any number of engines and all faults.

| Theorem | What is added to `HistoryInv` | Assumes |
|---|---|---|
| `UncertainStays` | nothing: an action property | nothing |
| `EntriesAreBacked` | `BlobInv`: the blob of a snapshot being recorded is there before its entry | no torn save, no clear that stops half way: the first is a bug found, the second what `Clearing` cannot see after a death |
| `BlobsAreNotLeaked` | who accounts for each blob: an entry, a step under way, or the failure or death that left it behind (`leaked`) | nothing |
| `EntriesAreHonest` | `VerdictOK`: what a call that has replaced its file, or has not, is about to write | nothing; an entry whose call died or could not save its mark is excepted in the property (`unmarked`): only a reconciliation can judge it |
| `OwnEntryStaysInTheIndex` | `LockInv`: who else shortens the index waits for the mutation lock | one engine |
| `PartialReportsAreHonest` | `BatchInv`: the targets done are the newest entries of the history but for the current one, and committed | one engine; `MaxOps` entries of at most `B` bytes each fit in the history |

The last two need to know what `Evict` leaves, hence what the recursive running total `BytesUpTo` computes. The induction
theorems of the library take operators and cannot be used, but that < is well founded on the naturals is a fact about a set:
`LeastNat` and `NatSetInduction` derive from it an induction over sets of numbers, `TotalDefined` that the recursive function is
defined, `BytesBound` what it bounds, and `EvictSpares` that eviction takes no entry newer than a point from which both
limits are met. The same premises appear in the property (`as long as the batch fits in the history`).

`HistoryIsALog` proves that `Mutation` implements `UndoLog`, for one engine and all faults but torn saves and clears that stop half way. The
refinement mapping takes the index for the log (none while it is being cleared), and what a call has recorded, replaced or read for what its
client is doing. `UndoLog` says that a change is announced before it is made, as the newest of the log, made at most once and on a file that holds
what the log says it held (unless another program changed it behind the comparison), called committed by its client only if it
was made and aborted only if not, and that an undo gives a file back what the log said it held before a change that took place. Each step of `Mutation` is a step of
`UndoLog` or none. This rests on `Refined`, the conjunction of `HistoryInv`, of `LockInv` and `CheckedInv` (a file that was compared is
still as compared), of `BlobInv`, and of `LogInv`: what is recorded is in the index with what the call knows of it (`EntryOK`, `OwnEntryKept`), and the verdict a call is about to
write is true (`VerdictOK`).

**McpBatchProofs.** One inductive invariant `BatchInv`: which index each worker holds and that no two hold the same
(`JobsInv`), what the place of a worker says about the slot it will fill (`HeldInv`), and what a slot says about its call
(`SlotsInv`): a slot is empty only because its call has not been sent yet or because a worker holds it. The invariant is needed
because `Accounted` speaks of the end only and `SentOnce` of counters alone: neither is inductive. `NoResultOverwritten` is an
action property proved from the same invariant. `FailFastStops` counts, with the cardinality theorems of the library: by `LateInv`
the calls started after the failure, those received and the one offered are together at most as many as the workers. `FailureReported` adds
`CauseInv` (where the failure is on its way from the worker that met it to its slot) and assumes `PlainErrors`: the client reports a
cancellation only when its context is done, as the contexts of Go do.

**PlanEngineProofs.** `FrameInv` says of each run that its plan was validated, that its operations under way were admitted,
and that its path is as long as its depth says. `Encloses(f, g)` relates a run to every run nested in it, at any distance:
authority only if forced, a limit no higher, below a mutating node. It is stated for all pairs, not for neighbours, so that no
induction over the stack is needed: a push relates the new run to each run below the top through the top (`min` and
conjunction are transitive), a pop forgets a run, and other steps replace the top by a run with the same plan, authority
and limit. From it follow `ForceHeld`, `ReadOnly`, `DepthHeld`, `GateHeld`, `ShellHeld` and `AbortHeld`. `BlockHeld` adds
`AllBlockInv`: the operations behind a blocked one of a serial node are still pending in every run of the stack.

**ShellRunProofs.** `ShellInv` says why a call no longer waits (`RunInv`: a reason that happened), where every byte is
(`FlowInv`: captured, in a pipe or in the hands of a goroutine, as long as the read ends are open and the capture is not
full), that nobody can write to a pipe whose end was seen (`CopyInv`), and what the spill file holds (`SpillInv`). With it
a return is a step of `CallPromise`, every other step an event of it or none (`Implements`). All but `TypeCorrect` assume
that the command does not exit with 124 itself: without that assumption `KeepsPromise` is false, as a timeout would be told
that did not happen.

**WebProofs.** `WebInv` tells the owner of the open renderer from the place of the call that made it (`OwnerInv`), that a call waits
only while another makes a renderer, and that the slots taken are the calls that browse; `RenderersAreReleased` follows. For the
cache, `CacheInv` says at which places a process owns the lock (`LockIsHeld`) and, with it, what a removal may rely on (`ExaminedHolds`): the entry it
opened has expired, and once it has compared the path, that entry is what the path holds until it removes it, since every rename over a path takes the
lock. `FreshAreKept` follows for the step that removes, which looks at nothing itself. `WebAssumption` says that there are finitely many
calls, that slots are a number and that a name is free, `CacheAssumption` that a name is free.

**MemoryProofs.** `MemInv` relates the committed tables to the one open transaction (which extends them and is forgotten by a
crash), each claim to a call that was made (`ClaimsInv`), and how often a request ran to its claim (`RunsInv`). An answer is then that of a call of the
same command under the same request id (`ClaimsStayHonest`, no premise). That it is the result of the caller's own call
(`RequestsAreRunOnce`) needs `OneKeyPerRequest`: a client that reuses an id for the same command with another key gets the
first one's answer, in the code as in the model.

**SpillRegistryProofs.** The property has two halves, about registrations and about files, and each is made of what a step can only add to: once the file of a spill may
be `Gone` (too old, touched, or pushed out), or its record `Dropped` (too old, pushed out, superseded, or lost to a registration that could not read the
registry), it stays so (`StillGone`, `StillDropped`). `SpillInv` says that no two files have one number (`NumbersInv`), that the file of a spill is as it was made
unless it may be gone (`FilesInv`), that the registry lists written records of different names in the order of their registrations, all but those dropped
(`RecordsInv`), and what the holder of the lock is about to write (`DeletingInv`): of the records on disk it leaves out only those that its own registration
makes go (`Leaving`). The deletions happen before the write that justifies them and the write may not happen: that is why a file may be gone one registration
before its record is dropped, and `SpillsKept` says so. `OnlySelects` says what the selection of valid records computes (its recursion is unfolded with the induction over sets of
numbers above), `ManyLater` counts: who is cut off the front of the list has been followed by as many registrations as the list keeps.

**ToolProofs.** Four components that answer single calls share this module.

`ConditionsAlwaysDecide` proves `ConditionsDecide`. `CondInv` says that a condition under way has the shape its constructors give it
(`GivenInv`) and that one past `ValidateCondition` names a kind, an operator and a pattern the evaluation knows (`ValidInv`). The evaluation
then splits on the kind. For patterns, `Left` counts what is left of an escaped text (its recursion is unfolded as above), and
`UnescapeKeepsPattern` says that what coercion does to a written pattern leaves a pattern.

`PagesAlwaysCover` proves `PagesCover`: the reader of a fetched document or of several files at once has got exactly what stands before
the place it asks for next, so that at the end it has got all. `PagInv` has a part for each (`Reading`, `Fetching`, `Batching`). The reader of a
file has `CoverLines` up to that place: one page begins there and shows a line at least, or nothing but blank lines it trimmed, and goes on
behind the last it shows or behind the blank ones (`PageIsWhole`), whatever the strategy, the marker and the window do. A cursor into a document `Names` the byte it stands for, and a page ends where a character ends
(`BehindBreak`), whichever limit cuts it. How many lines fit in a page is a running sum (`SumOf`), found by the last that fits (`LastFitting`).

`QueriesGetTheirOwn`: by `LspInv` an identifier awaited is newer than every reply under way to an earlier request, and what a
slot of the batch holds was read for that identifier.

`EditsAlwaysLand` proves `EditsLand`, for texts of any length and any number of edits. Its hypotheses are in the property: a file counts whose
edits were found as they stand and do not overlap themselves (`FoundAsIs`), a patch whose hunks say where they go (`Sought`); without them the
code does otherwise (see [what the checks found](#what-the-checks-found)). `EditInv` has a part for each tool, and all speak of
`Within`: regions from left to right.
- *search_replace and patches* put in from the last to the first, so that what is in front keeps its place: with the regions behind the first
  m replaced (`DoneBehind`), the m-th still stands where it stood (`BehindStep`). `PlacesFacts` and `HunksWithin` say that the places of the
  hunks are such regions and inside the file; that is why no index is out of range.
- *multi_edit* looks for each edit anew in what the others left, in an order the argument leaves open: `SortedFacts` says of the sort only
  that it keeps every edit and adds none. `Progress` says the text is `AtOnce` of the regions with those done having their new texts and the
  others what was there; `Accounted`, that each edit is done or still to do, not both. That an edit is still found at its region, and nowhere
  else, is `PutAt`: `applyEdit` refuses an edit it finds twice, and the text has it at the region, because around one region two
  fillings of the others differ only before and behind it (`SwapOne`). That the regions do not overlap is what `DetectOverlaps` let through.
  Line ends are apart: a text of one kind keeps it or loses its last line end (`LineEndStep`), which is what `LandApart` allows.

TLC cannot evaluate `EditInv`, which quantifies over all sequences of regions; the run checks `EditsLand` itself.

`CondAssumption` says what conditions and results are made of, `PagAssumption` that limits are natural numbers and files and documents
sequences, `EditAssumption` that a call has the fields its tool requires and looks for something (the code refuses an empty text to look for).

Only model-checked: `NestingKeepsRisk` and
everything temporal: liveness under fairness is out of the prover's reach. `ShellLexer` and `CommandRisk` use RECURSIVE operators,
which no module with a theorem may reach. `NoResultOverwritten`, `LockIsHeld`, `MutexCorrect` and `ClaimsStayHonest` are proved and not run.

## What the checks found

Five are runs that TLC finds violated. All are findings in `PROJECT.json`, with the quoted promise.

1. `lost_undo`. `undo list` resolves prepared entries although the call that owns one may be running. It finds the old content,
   marks the entry aborted, the call then renames its file and dies before its mark: the change is on disk and undo refuses it.
2. `nested_write`. The names of the locks depend on the working directory of the engine: an engine of a plan with a `cwd` and the
   root engine do not exclude each other on a file they share, and one overwrites what the other wrote. For the same reason
   an undo clear in such a plan can remove the entry of a mutation under way.
3. `memory_migration`. Two processes open a database an older jinn left behind. The first rebuilds the table and saves; the
   second rebuilds it again, by the columns it read before, and the scope, pin and expiry of what was saved are gone.
4. `patch_hunks`. A hunk that only adds lines is placed at the end of the file, a later hunk before it; put in from the last
   to the first of the list, the added lines land elsewhere or the slice is out of range.
5. `lsp_children`. A query that has timed out kills its server and waits for it in `cmd.Wait`, which goes on until every child that
   inherited the server's stderr has ended; no `WaitDelay` bounds it, and the documented 10 seconds do not hold.

Found while modelling, without a run:

- An index save that fails after its rename removes the new blob although the index on disk names it (`torn_save` among the faults of
  `honest`; `faults`, which states `BlobBacked`, leaves it out).
- A blob whose snapshot fails after the blob is in place, or whose removal fails, stays without an entry until the history is cleared
  (`leaked` in `NoOrphanBlobs`).
- A spill registry that cannot be read or parsed counts as empty and is written back: all other registrations are lost, and their
  files stay (`blind` in `SpillsKept`).
- A batch larger than the history evicts its own first snapshots and then reports their undo ids.
- A command that exits with 124 itself is taken for one that was killed: its pipes are drained without deadline (`OwnCodes` of
  the run `shell` leaves 124 out).
- A spill file that could not be written in full is still announced as the full output (`SpillWhole` says "unless writing to it
  failed").
- A language server may outlive the call that started it.
- `multi_edit` applies the edits of a file in the order of their places, the documentation says in the order of the array.
- `multi_edit` counts what it looks for as `strings.Count` does, each occurrence behind the one before. A text that overlaps itself is
  counted once where it stands twice and may be found, after an edit before it, at its second place: with the edits c to ab and aba to z the
  text caba becomes zba, not abz.
- New text takes the line ends of the file as the edits before it left it. When one of them removes the only CRLF, what follows gets LF.
- `negate` does not apply to conditions whose data cannot be read, and a condition on stdout or stderr searches both (`ConditionsDecide` leaves
  both cases out).
- A parenthesis written onto an assignment or a brace, `(x=1 rm -r x)` or `({ rm -r x; })`, hides the command from the risk classifier, which rates the line
  caution (`Buildable` leaves such lines out).
- A page without line numbers loses the blank lines at its end, and the continuation goes on behind them (`CoverLines`).
- `truncate="smart"` on a file without C syntax marks a page that has just the limit of lines as truncated; when that makes it too
  long, its continuation may lie behind the end of the file.
- A line of `read_file` that fits in a page without its number but not with it is offered as the continuation for ever (`Fits` in
  `PagesCover` leaves such lines out).

## What is not modelled

- *Mutation*: the staleness tracker, which compares modification times within one process; entries without a state, from
  before the states were introduced; calls without preconditions, for which the last comparison is with what validation
  read; what an edit or a patch computes. Taking several target locks is one step: whoever does it holds the mutation lock of
  its engine, and inside one engine the target locks are never contended. Reconciliation under the history lock is one
  step.
- *McpBatch*: decoding and validation of the input, durations, projection of results.
- *PlanEngine*: limits on the sizes of plans (64 nodes, 16 commands, 32 edges), the size and fitting of the transcript (it may
  overflow after any node), statistics, and the working directories of nested plans (opening one may fail). The evaluation of
  conditions is `PlanConditions`; regular expressions stand there for literal text.
- *ShellRun*: the modes and the dry run, failures to set up directories and pipes, the environment and the sandbox, the shape of the
  output, the separate buffers for the two streams, and the job objects of Windows. The risk gate and the classification of exit codes are `RiskGate`.
- *Memory*: listing, value types and kinds; the names under which clients are told apart.
- *WebFetch*: names, addresses and headers, the conversion of HTML, the protocol of the browser, the decoding of search results.
- *RiskGate*: the reasons a verdict gives; numbers and device names beyond representatives; options of programs outside of
  the rules.
- *Edits*: the parser of the patch format, which file an update goes to, regular expressions other than literals.
- *LspSession*: the groups of a batch one after the other, positions, symbols and workspace edits in the replies.
- The parts listed in `PROJECT.json` as not modelled, each with its reason.

## Plan

What is left, in this order:

1. Parts not modelled yet: the approval of batches against a live manifest, composed with `McpBatch`; the broker and the inspector (requests,
   cancellation, shutdown); the storage of registries and snapshots, the pattern of `SpillRegistry`; the rendering of text.
2. `NestingKeepsRisk` as a theorem, which needs the lexer without RECURSIVE operators.

----------------------------- MODULE LspSession -----------------------------
(***************************************************************************)
(* lsp_query and lsp_batch: one language server, the goroutine that talks  *)
(* to it over two pipes, and the caller who waits for that goroutine, a    *)
(* timer and the context at once (lsp_client.go, lsp_protocol.go,          *)
(* lsp_actions.go, lsp_symbols.go, tool_lsp.go, tool_lsp_batch.go).  A     *)
(* batch runs one such group for each server, one after the other; a group *)
(* is modelled.                                                            *)
(***************************************************************************)
EXTENDS Integers, Sequences, FiniteSets

CONSTANTS
    LspCalls,      \* [batch, queries]: one query, or those of a batch
    LspNoise       \* bound on what the server sends unasked

ASSUME LspAssumption == LspNoise \in Nat

VARIABLES
    lspCall,       \* the call
    lspCaller,     \* where the caller is
    lspReason,     \* why it stopped the client
    lspItems,      \* what it reports of each query
    lspWorker,     \* where the goroutine is
    lspJobs,       \* the queries it has not finished
    lspLocal,      \* its own results
    lspAwait,      \* the request it waits for
    lspNextId,     \* lspClient.nextID
    lspPushed,     \* pushDiagnostics
    lspStop,       \* stopOnce: "no", "waiting" for the process, "done"
    lspServer,     \* the process
    lspHeld,       \* a child of the server holds its stderr
    lspInbox,      \* requests the server has not answered
    lspOut,        \* the frames in its output
    lspSent        \* how much it has sent unasked

lspClientVars == <<lspJobs, lspLocal, lspAwait, lspNextId, lspPushed>>
lspServerVars == <<lspServer, lspHeld, lspInbox, lspOut, lspSent>>
lspCallerVars == <<lspCall, lspCaller, lspReason, lspItems>>
lspVars == <<lspCallerVars, lspWorker, lspClientVars, lspStop, lspServerVars>>

NoRequest == [id |-> 0, job |-> 0, what |-> "none"]
Of(job, what) == [ok |-> TRUE, job |-> job, what |-> what]
Failed(why) == [ok |-> FALSE, job |-> 0, what |-> why]
NoItem == Failed("none")

-----------------------------------------------------------------------------
(* Queries: parseLSPArgs, resolveLSPPosition.                              *)

Positioned(q) == q.action \in {"definition", "references", "hover", "rename"}
NeedsPosition(q) == q.action \notin {"symbols", "diagnostics"}
BySymbol(q) == NeedsPosition(q) /\ "line" \notin q.given /\ "symbol" \in q.given
LspRefused(q) ==
    \/ {"action", "path"} \ q.given # {}
    \/ q.action = "rename" /\ "new_name" \notin q.given
    \/ /\ NeedsPosition(q) /\ ~BySymbol(q)
       /\ \/ "line" \notin q.given
          \/ "character" \notin q.given /\ ("symbol" \notin q.given \/ ~q.symbolOnLine)
    \/ ~q.installed /\ ~(q.action = "symbols" /\ q.go)
\* Go diagnostics come from "gopls check", symbols without gopls from the parser.
LspDirect(q) == q.go /\ (q.action = "diagnostics" \/ (q.action = "symbols" /\ ~q.installed))

Jobs == DOMAIN lspCall.queries
Query(job) == lspCall.queries[job]
Pending == {job \in Jobs : lspItems[job] = NoItem}
InOrder(S) == [k \in 1 .. Cardinality(S) |-> CHOOSE x \in S : Cardinality({y \in S : y < x}) = k - 1]

LspInit ==
    /\ lspCall \in LspCalls /\ lspCaller = "idle" /\ lspReason = "none"
    /\ lspItems = [job \in Jobs |-> NoItem]
    /\ lspWorker = "none" /\ lspJobs = <<>> /\ lspLocal = lspItems
    /\ lspAwait = NoRequest /\ lspNextId = 1 /\ lspPushed = {}
    /\ lspStop = "no" /\ lspServer = "none" /\ lspHeld = FALSE
    /\ lspInbox = {} /\ lspOut = <<>> /\ lspSent = 0

-----------------------------------------------------------------------------
(* The caller: lspQueryWithLauncher, runLSPBatchGroup.                     *)

LspCall ==
    /\ lspCaller = "idle"
    /\ \E direct \in [Jobs -> {Of(0, "tool"), Failed("error"), Failed("timeout"), Failed("canceled")}] :
          /\ \A job \in Jobs : ~LspDirect(Query(job)) => ~direct[job].ok /\ direct[job].what = "error"
          /\ lspItems' = [job \in Jobs |-> IF LspRefused(Query(job)) THEN Failed("refused")
                                           ELSE IF LspDirect(Query(job)) THEN direct[job] ELSE NoItem]
    /\ lspCaller' = IF \A job \in Jobs : LspRefused(Query(job)) \/ LspDirect(Query(job))
                    THEN "returned" ELSE "launch"
    /\ UNCHANGED <<lspCall, lspReason, lspWorker, lspClientVars, lspStop, lspServerVars>>

LspLaunch ==
    /\ lspCaller = "launch"
    /\ \/ /\ lspCaller' = "waiting" /\ lspWorker' = "initialize" /\ lspServer' = "up"
          /\ lspJobs' = InOrder(Pending)
          /\ UNCHANGED lspItems
       \/ /\ lspCaller' = "returned"
          /\ lspItems' = [job \in Jobs |-> IF job \in Pending THEN Failed("start") ELSE lspItems[job]]
          /\ UNCHANGED <<lspWorker, lspServer, lspJobs>>
    /\ UNCHANGED <<lspCall, lspReason, lspLocal, lspAwait, lspNextId, lspPushed, lspStop,
                   lspHeld, lspInbox, lspOut, lspSent>>

Delivered == lspWorker \in {"shutdown", "stop", "over"}
\* markLSPBatchInterrupted: what has succeeded is kept.
Merged(local, reason) == [job \in Jobs |->
    IF job \notin Pending THEN lspItems[job]
    ELSE IF reason # "none" /\ ~local[job].ok THEN Failed(reason) ELSE local[job]]
LspReturn ==
    /\ Delivered
    /\ lspCaller = "waiting" \/ (lspCaller = "collecting" /\ lspStop = "done")
    /\ lspCaller' = "returned"
    /\ lspItems' = Merged(lspLocal, lspReason)
    /\ UNCHANGED <<lspCall, lspReason, lspWorker, lspClientVars, lspStop, lspServerVars>>

\* client.stop: the first to come closes the pipes, kills the server and waits
\* for it; every other waits for the first.
Stopped_NoKill ==  \* mutant: the pipes are closed and the server is left to notice
    IF lspStop = "no" THEN lspStop' = "waiting" /\ UNCHANGED lspServer
    ELSE UNCHANGED <<lspStop, lspServer>>
Stopped ==
    IF lspStop = "no" THEN lspStop' = "waiting" /\ lspServer' = "dead"
    ELSE UNCHANGED <<lspStop, lspServer>>
\* The timer fires, or the context of a batch is done.
LspExpire ==
    /\ lspCaller = "waiting"
    /\ lspReason' = "timeout"
    /\ lspCaller' = "collecting"
    /\ Stopped
    /\ UNCHANGED <<lspCall, lspItems, lspWorker, lspClientVars, lspHeld, lspInbox, lspOut, lspSent>>
LspCancel ==
    /\ lspCaller = "waiting" /\ lspCall.batch
    /\ lspReason' = "canceled"
    /\ lspCaller' = "collecting"
    /\ Stopped
    /\ UNCHANGED <<lspCall, lspItems, lspWorker, lspClientVars, lspHeld, lspInbox, lspOut, lspSent>>
\* A single query that has expired does not wait for the goroutine.
LspTimedOut ==
    /\ lspCaller = "collecting" /\ ~lspCall.batch /\ lspStop = "done"
    /\ lspCaller' = "returned"
    /\ lspItems' = [job \in Jobs |-> IF job \in Pending THEN Failed("timeout") ELSE lspItems[job]]
    /\ UNCHANGED <<lspCall, lspReason, lspWorker, lspClientVars, lspStop, lspServerVars>>
\* The context of the process: exec.CommandContext kills it.
LspKilled ==
    /\ lspServer = "up"
    /\ lspServer' = "dead"
    /\ UNCHANGED <<lspCallerVars, lspWorker, lspClientVars, lspStop, lspHeld, lspInbox, lspOut, lspSent>>

\* cmd.Wait: the process, and the goroutine that copies its stderr.
LspReap ==
    /\ lspStop = "waiting" /\ lspServer = "dead" /\ ~lspHeld
    /\ lspStop' = "done"
    /\ UNCHANGED <<lspCallerVars, lspWorker, lspClientVars, lspServerVars>>

-----------------------------------------------------------------------------
(* The goroutine: one request at a time, sent and then waited for.         *)

Job == IF lspJobs = <<>> THEN 0 ELSE Head(lspJobs)
Closed == lspStop # "no"

\* The query is over, with this result: didClose, and the next one.
Finish(item) ==
    /\ lspLocal' = [lspLocal EXCEPT ![Job] = item]
    /\ lspJobs' = Tail(lspJobs)
    /\ lspWorker' = IF Tail(lspJobs) = <<>> THEN "shutdown" ELSE "open"
\* diagnostics: what was pushed stands in for an error or an empty answer.
Diagnosed(item) ==
    IF Query(Job).action = "diagnostics" /\ Query(Job).file \in lspPushed THEN Of(Job, "push") ELSE item
RequestFailed ==
    /\ lspAwait' = NoRequest
    /\ CASE lspWorker = "initialize" ->
              /\ lspLocal' = [job \in Jobs |-> Failed("error")] /\ lspJobs' = <<>>
              /\ lspWorker' = "shutdown"
         [] lspWorker = "resolve"  -> Finish(Failed("error"))
         [] lspWorker = "query"    -> Finish(Diagnosed(Failed("error")))
         [] lspWorker = "shutdown" -> lspWorker' = "stop" /\ UNCHANGED <<lspLocal, lspJobs>>
RequestAnswered(frame) ==
    /\ lspAwait' = NoRequest
    /\ CASE lspWorker = "initialize" -> lspWorker' = "open" /\ UNCHANGED <<lspLocal, lspJobs>>
         [] lspWorker = "resolve"  -> \* exactly one symbol of that name, or an error
              \/ lspWorker' = "query" /\ frame.body = "full" /\ UNCHANGED <<lspLocal, lspJobs>>
              \/ Finish(Failed("symbol"))
         [] lspWorker = "query"    ->
              Finish(IF frame.body = "empty" THEN Diagnosed(Of(frame.job, frame.what)) ELSE Of(frame.job, frame.what))
         [] lspWorker = "shutdown" -> lspWorker' = "stop" /\ UNCHANGED <<lspLocal, lspJobs>>

\* readRegularFile and didOpen.
DidOpen ==
    /\ lspWorker = "open"
    /\ \/ ~Closed /\ lspWorker' = (IF BySymbol(Query(Job)) THEN "resolve" ELSE "query") /\ UNCHANGED <<lspLocal, lspJobs>>
       \/ Finish(Failed("error"))
    /\ UNCHANGED <<lspCallerVars, lspAwait, lspNextId, lspPushed, lspStop, lspServerVars>>

\* dispatchLSPAction refuses an action it does not know.
UnknownAction ==
    /\ lspWorker = "query" /\ lspAwait = NoRequest
    /\ ~Positioned(Query(Job)) /\ NeedsPosition(Query(Job))
    /\ Finish(Failed("refused"))
    /\ UNCHANGED <<lspCallerVars, lspAwait, lspNextId, lspPushed, lspStop, lspServerVars>>

\* writeMsg fails once the pipe is closed or the server gone.
SendRequest ==
    /\ lspWorker \in {"initialize", "resolve", "query", "shutdown"} /\ lspAwait = NoRequest
    /\ lspWorker = "query" => Positioned(Query(Job)) \/ ~NeedsPosition(Query(Job))
    /\ lspNextId' = lspNextId + 1
    /\ IF Closed \/ lspServer = "dead" THEN RequestFailed /\ UNCHANGED lspInbox
       ELSE /\ lspAwait' = [id |-> lspNextId, job |-> Job, what |-> lspWorker]
            /\ lspInbox' = lspInbox \cup {lspAwait'}
            /\ UNCHANGED <<lspWorker, lspLocal, lspJobs>>
    /\ UNCHANGED <<lspCallerVars, lspPushed, lspStop, lspServer, lspHeld, lspOut, lspSent>>

\* The reply this request waits for.
Wanted_Any(frame) == frame.kind = "reply"  \* mutant: replies come in the order of the requests
Wanted(frame) == frame.kind = "reply" /\ frame.id = lspAwait.id
\* readReply, one frame: notifications are retained, requests of the server
\* answered, other replies dropped.
ReadReply ==
    LET frame == Head(lspOut) IN
    /\ lspAwait # NoRequest /\ lspOut # <<>>
    /\ lspOut' = Tail(lspOut)
    /\ lspPushed' = IF frame.kind # "push" THEN lspPushed
                    ELSE IF frame.body = "full" THEN lspPushed \cup {frame.file} ELSE lspPushed \ {frame.file}
    /\ IF Wanted(frame) /\ frame.body # "error" THEN RequestAnswered(frame)
       ELSE IF Wanted(frame) \/ frame.kind = "garbage" \/ (frame.kind = "request" /\ (Closed \/ lspServer = "dead"))
       THEN RequestFailed
       ELSE UNCHANGED <<lspWorker, lspLocal, lspJobs, lspAwait>>
    /\ UNCHANGED <<lspCallerVars, lspNextId, lspStop, lspServer, lspHeld, lspInbox, lspSent>>
\* The end of the output, or its pipe closed under the reader.
ReadFails ==
    /\ lspAwait # NoRequest
    /\ Closed \/ (lspServer = "dead" /\ lspOut = <<>>)
    /\ RequestFailed
    /\ UNCHANGED <<lspCallerVars, lspNextId, lspPushed, lspStop, lspServerVars>>

\* shutdownBounded: half a second, then the client is stopped.
ShutdownExpires ==
    /\ lspWorker = "shutdown" /\ lspStop = "no"
    /\ Stopped
    /\ UNCHANGED <<lspCallerVars, lspWorker, lspClientVars, lspHeld, lspInbox, lspOut, lspSent>>
StopClient ==
    /\ lspWorker = "stop"
    /\ IF lspStop = "done" THEN lspWorker' = "over" /\ UNCHANGED <<lspStop, lspServer>>
       ELSE lspStop = "no" /\ Stopped /\ UNCHANGED lspWorker
    /\ UNCHANGED <<lspCallerVars, lspClientVars, lspHeld, lspInbox, lspOut, lspSent>>

-----------------------------------------------------------------------------
(* The server, which may do what it likes, hang included.                  *)

\* Replies need not come in the order of the requests, nor say anything.
ServerAnswers ==
    /\ lspServer = "up"
    /\ \E m \in lspInbox, body \in {"full", "empty", "error"} :
          /\ lspInbox' = lspInbox \ {m}
          /\ lspOut' = Append(lspOut, [kind |-> "reply", id |-> m.id, job |-> m.job, what |-> m.what,
                                       body |-> body, file |-> "none"])
    /\ UNCHANGED <<lspCallerVars, lspWorker, lspClientVars, lspStop, lspServer, lspHeld, lspSent>>
ServerSpeaks ==
    /\ lspServer = "up" /\ lspSent < LspNoise
    /\ lspSent' = lspSent + 1
    /\ \E kind \in {"push", "request", "garbage"}, body \in {"full", "empty"} :
          /\ kind = "push" \/ body = "empty"
          /\ kind = "push" => Job # 0
          /\ lspOut' = Append(lspOut, [kind |-> kind, id |-> 0, job |-> 0, what |-> kind, body |-> body,
                                       file |-> IF kind = "push" THEN Query(Job).file ELSE "none"])
    /\ UNCHANGED <<lspCallerVars, lspWorker, lspClientVars, lspStop, lspServer, lspHeld, lspInbox>>
ServerForks ==
    /\ lspServer = "up" /\ ~lspHeld
    /\ lspHeld' = TRUE
    /\ UNCHANGED <<lspCallerVars, lspWorker, lspClientVars, lspStop, lspServer, lspInbox, lspOut, lspSent>>
\* Its child ends, or closes what it has inherited; nobody makes it.
OrphanEnds ==
    /\ lspHeld /\ lspServer = "dead"
    /\ lspHeld' = FALSE
    /\ UNCHANGED <<lspCallerVars, lspWorker, lspClientVars, lspStop, lspServer, lspInbox, lspOut, lspSent>>

LspCallerStep == LspCall \/ LspLaunch \/ LspReturn \/ LspTimedOut
LspWorkerStep == DidOpen \/ UnknownAction \/ SendRequest \/ ReadReply \/ ReadFails \/ StopClient
LspNext ==
    \/ LspCallerStep \/ LspExpire \/ LspCancel \/ LspKilled \/ LspReap
    \/ LspWorkerStep \/ ShutdownExpires
    \/ ServerAnswers \/ ServerSpeaks \/ ServerForks \/ OrphanEnds

\* The goroutines run, timers fire, and a process that was killed, and whose
\* stderr nobody holds, is reaped.  Nothing is assumed of the server, of what it
\* leaves behind, and of the cancellation.
LspFairness ==
    /\ WF_lspVars(LspCallerStep) /\ WF_lspVars(LspExpire) /\ WF_lspVars(LspReap)
    /\ WF_lspVars(LspWorkerStep) /\ WF_lspVars(ShutdownExpires)
LspSpec == LspInit /\ [][LspNext]_lspVars /\ LspFairness

-----------------------------------------------------------------------------
(* Properties.                                                             *)

\* A query reports the answer to its own request, although an earlier query may
\* have given up on a request that the server answers later and everything
\* comes through one pipe; and an interrupted batch reports every query that
\* had succeeded, and no other, as answered ("one bad query does not discard
\* the others", docs/tool-reference.md; readReply, markLSPBatchInterrupted).
AnswersOwn ==
    /\ \A job \in Jobs : lspLocal[job].ok => lspLocal[job].job = job /\ lspLocal[job].what \in {"query", "push"}
    /\ lspCaller = "returned" /\ lspCall.batch /\ lspWorker # "none" => \A job \in Jobs :
          ~LspRefused(Query(job)) /\ ~LspDirect(Query(job)) /\ lspLocal[job].ok => lspItems[job] = lspLocal[job]

\* A call that started a server returns, and the server is stopped and reaped,
\* whatever the server does: hang, die, flood its output; only a child of it that
\* keeps its stderr for ever can hold the call, for which cmd.Wait has no bound
\* (the select of lspQueryWithLauncher and runLSPBatchGroup, shutdownBounded, stop).
LspOver == lspCaller = "returned" /\ lspWorker = "over" /\ lspStop = "done"
LspEnds == (lspHeld ~> ~lspHeld) => ((lspCaller = "waiting") ~> LspOver)

\* A query returns, whatever its server leaves behind ("Hard timeout: 10 seconds
\* per query", docs/tool-reference.md).
LspReturns == (lspCaller = "waiting") ~> (lspCaller = "returned")
=============================================================================

------------------------------ MODULE WebFetch ------------------------------
(***************************************************************************)
(* The web service of internal/webfetch: fetches and searches over HTTP    *)
(* with retries and redirects, the order in which readers and renderings   *)
(* are tried, and the browser renderer that starts on first use, is shared *)
(* by every fetch and goes away with Close.  The URL cache behind it is    *)
(* WebCache's; here a fetch may find its page there or not.                *)
(***************************************************************************)
EXTENDS Integers, FiniteSets

CONSTANTS
    WebCalls,        \* the calls made of one service
    WebRequests,     \* what they may ask for
    WebSlots,        \* MaxConcurrency
    WebMaxRequests,  \* the requests one rendering may make
    WebMaxBytes,     \* and the bytes it may move
    WebMaxHops,      \* maxRedirectHops
    WebMaxAttempts   \* maxAttempts

VARIABLES
    webCall,         \* the calls
    webRenderer,     \* Service.renderer: the call that made it, or NoOne
    webRenderErr,    \* Service.renderErr is set
    webInit,         \* Service.renderInit: the call at it, or NoOne
    webInited,       \* the init channels that are closed
    webOpen,         \* renderers made and not closed
    webSlots,        \* slots taken of the renderer
    webClosed,       \* Service.closed
    webClose         \* the call of Close

webVars == <<webCall, webRenderer, webRenderErr, webInit, webInited, webOpen, webSlots, webClosed, webClose>>
webShared == <<webRenderer, webRenderErr, webInit, webInited, webOpen, webSlots, webClosed, webClose>>

NoOne == "no one"

ASSUME WebAssumption == IsFiniteSet(WebCalls) /\ NoOne \notin WebCalls /\ WebSlots \in Nat

-----------------------------------------------------------------------------
(* Requests.                                                               *)

\* normalizeRenderOptions, and the reader check before it.
FetchRefused(r) ==
    \/ ~r.raw /\ r.reader \notin {"jina", "defuddle", "auto"}  \* a raw fetch has no reader
    \/ r.render \notin {"never", "auto", "always"}
    \/ r.wait \notin {"", "load", "networkidle"}
    \/ r.wait # "" /\ r.render = "never"
    \/ r.raw /\ r.render # "never"
    \/ r.reader = "jina" /\ r.render # "never"

\* validateSearchRequest, rejectBraveOptions and the provider's key.
SearchRefused(r) ==
    \/ r.query = "" \/ ~r.key
    \/ r.provider \notin {"brave", "exa"}
    \/ r.provider = "brave" /\ (r.category \/ r.date)
    \/ r.limit \notin 1 .. 50

Refused(r) == IF r.kind = "search" THEN SearchRefused(r) ELSE FetchRefused(r)

\* Only requests that change nothing are sent again (requestAttempts).
Attempts(call) == IF call.from = "search" /\ call.req.provider = "exa" THEN 1 ELSE WebMaxAttempts

WebIdle == [pc |-> "idle"]
Call(r, pc, from) ==
    [pc |-> pc, req |-> r, from |-> from, try |-> 1, hops |-> 0, stopped |-> FALSE,
     html |-> "none", uses |-> NoOne, tab |-> <<>>]
Get(call, from) == [call EXCEPT !.pc = "get", !.from = from, !.try = 1, !.hops = 0]
Done(answer) == [pc |-> "done", answer |-> answer]
Parse(call, html) == [call EXCEPT !.pc = "parse", !.html = html, !.uses = NoOne, !.tab = <<>>]

-----------------------------------------------------------------------------
(* The ladder of fetchWithRender: what comes after a step that failed.     *)

GiveUp(call) == Done(IF call.stopped THEN "canceled" ELSE "error")
\* Every rung down asks first whether the caller is still there.
OrJina(call) == IF call.stopped \/ call.req.reader # "auto" THEN GiveUp(call) ELSE Get(call, "jina")
\* A page that could not be rendered is read as it was served.
RenderFailed(call) ==
    IF ~call.stopped /\ call.req.render = "auto" THEN Parse(call, "fallback")
    ELSE OrJina([call EXCEPT !.uses = NoOne, !.tab = <<>>])
GetFailed(call) ==
    IF call.from = "static" THEN OrJina(call) ELSE GiveUp(call)
\* validateJinaResponse, isHTMLContentType, classifyHTML, decodeJSON: usable or not.
Received(call, usable, shell) ==
    IF ~usable THEN GetFailed(call)
    ELSE IF call.from # "static" THEN Done(call.from)
    ELSE IF call.req.render = "auto" /\ shell THEN [call EXCEPT !.pc = "ensure"]
    ELSE Parse(call, "static")

-----------------------------------------------------------------------------
(* Fetch, Search and the HTTP client under them.                           *)

WebInit ==
    /\ webCall = [c \in WebCalls |-> WebIdle]
    /\ webRenderer = NoOne /\ webRenderErr = FALSE /\ webInit = NoOne /\ webInited = {}
    /\ webOpen = {} /\ webSlots = 0
    /\ webClosed = FALSE
    /\ webClose = [pc |-> "none", renderer |-> NoOne, init |-> NoOne]

\* The reader tried first, when no rendering comes before it.
FirstReader(r) ==
    IF r.kind = "search" THEN "search" ELSE IF r.raw THEN "raw" ELSE IF r.reader = "jina" THEN "jina" ELSE "static"

At(c, pc) == webCall[c].pc = pc
Become(c, call) == webCall' = [webCall EXCEPT ![c] = call]

\* A page found in the cache has to satisfy the policy of today (validateTarget
\* on its final URL) or is fetched all the same.
Fetch(c, r) ==
    /\ At(c, "idle")
    /\ \/ Refused(r) /\ Become(c, Done("refused"))
       \/ /\ ~Refused(r) /\ r.kind = "fetch" /\ ~r.raw
          /\ Become(c, Done("cached"))
       \/ /\ ~Refused(r)
          /\ Become(c, IF r.kind # "search" /\ ~r.raw /\ r.reader # "jina" /\ r.render = "always"
                       THEN Call(r, "ensure", "none") ELSE Call(r, "get", FirstReader(r)))
    /\ UNCHANGED webShared

\* The caller goes away or its deadline passes.
Stop(c) ==
    /\ ~At(c, "idle") /\ ~At(c, "done") /\ ~webCall[c].stopped
    /\ webCall' = [webCall EXCEPT ![c].stopped = TRUE]
    /\ UNCHANGED webShared

\* checkRedirect: bounded, and to hosts that are allowed.
Redirect(c) ==
    LET call == webCall[c] IN
    /\ At(c, "get") /\ ~call.stopped
    /\ \E allowed \in BOOLEAN :
          Become(c, IF call.hops = WebMaxHops \/ ~allowed THEN GetFailed(call)
                    ELSE [call EXCEPT !.hops = @ + 1])
    /\ UNCHANGED webShared

\* One attempt of Client.Do: resolve, dial (dialContext refuses a host with any
\* private address), send, read up to the limit.
Answered(c) ==
    LET call == webCall[c] IN
    /\ At(c, "get")
    /\ \/ ~call.stopped /\ \E usable, shell \in BOOLEAN : Become(c, Received(call, usable, shell))
       \/ Become(c, GetFailed(call))  \* a status, a size, a policy, or ctx is done
    /\ UNCHANGED webShared
\* shouldRetry, or the network: the next attempt, redirects from the start.
Retry(c) ==
    LET call == webCall[c] IN
    /\ At(c, "get") /\ ~call.stopped /\ call.try < Attempts(call)
    /\ Become(c, [call EXCEPT !.try = @ + 1, !.hops = 0])
    /\ UNCHANGED webShared

\* parseDefuddleHTML.
ParseHTML(c) ==
    LET call == webCall[c] IN
    /\ At(c, "parse")
    /\ \/ ~call.stopped /\ Become(c, Done(call.html))
       \/ Become(c, OrJina(call))
    /\ UNCHANGED webShared

-----------------------------------------------------------------------------
(* ensureRenderer: one fetch makes the renderer while the others wait.     *)

EnsureRenderer(c) ==
    LET call == webCall[c] IN
    /\ At(c, "ensure")
    /\ \/ /\ webClosed \/ (webRenderer = NoOne /\ webRenderErr)
          /\ Become(c, RenderFailed(call)) /\ UNCHANGED webInit
       \/ /\ ~webClosed /\ webRenderer # NoOne
          /\ Become(c, [call EXCEPT !.pc = "slot", !.uses = webRenderer]) /\ UNCHANGED webInit
       \/ /\ ~webClosed /\ webRenderer = NoOne /\ ~webRenderErr /\ webInit # NoOne
          /\ Become(c, [call EXCEPT !.pc = "wait", !.uses = webInit]) /\ UNCHANGED webInit
       \/ /\ ~webClosed /\ webRenderer = NoOne /\ ~webRenderErr /\ webInit = NoOne
          /\ Become(c, [call EXCEPT !.pc = "make"]) /\ webInit' = c
    /\ UNCHANGED <<webRenderer, webRenderErr, webInited, webOpen, webSlots, webClosed, webClose>>

AwaitRenderer(c) ==
    LET call == webCall[c] IN
    /\ At(c, "wait")
    /\ \/ call.uses \in webInited /\ Become(c, [call EXCEPT !.pc = "ensure", !.uses = NoOne])
       \/ call.stopped /\ Become(c, RenderFailed(call))
    /\ UNCHANGED webShared

\* factory(config), outside the lock.
MakeRenderer(c) ==
    /\ At(c, "make")
    /\ \E made \in BOOLEAN :
          /\ webOpen' = IF made THEN webOpen \cup {c} ELSE webOpen
          /\ webCall' = [webCall EXCEPT ![c].pc = "install"]
    /\ UNCHANGED <<webRenderer, webRenderErr, webInit, webInited, webSlots, webClosed, webClose>>

InstallRenderer_Anyway(c) ==
    LET call == webCall[c] IN
    /\ At(c, "install")
    /\ webInit' = NoOne
    /\ webInited' = webInited \cup {c}
    /\ IF c \in webOpen
       THEN /\ webRenderer' = c /\ UNCHANGED webRenderErr
            /\ Become(c, [call EXCEPT !.pc = "slot", !.uses = c])
       ELSE /\ webRenderErr' = TRUE /\ UNCHANGED webRenderer
            /\ Become(c, RenderFailed(call))
    /\ UNCHANGED <<webOpen, webSlots, webClosed, webClose>>
\* Back under the lock: a service closed meanwhile gets no renderer.
InstallRenderer(c) ==
    LET call == webCall[c] IN
    /\ At(c, "install")
    /\ webInit' = NoOne
    /\ IF webClosed
       THEN /\ Become(c, [call EXCEPT !.pc = "discard"])
            /\ UNCHANGED <<webRenderer, webRenderErr, webInited>>
       ELSE /\ webInited' = webInited \cup {c}
            /\ IF c \in webOpen
               THEN /\ webRenderer' = c /\ UNCHANGED webRenderErr
                    /\ Become(c, [call EXCEPT !.pc = "slot", !.uses = c])
               ELSE /\ webRenderErr' = TRUE /\ UNCHANGED webRenderer
                    /\ Become(c, RenderFailed(call))
    /\ UNCHANGED <<webOpen, webSlots, webClosed, webClose>>
\* The renderer nobody will use is closed before those who wait are told.
DiscardRenderer(c) ==
    /\ At(c, "discard")
    /\ webOpen' = webOpen \ {c}
    /\ webInited' = webInited \cup {c}
    /\ Become(c, RenderFailed(webCall[c]))
    /\ UNCHANGED <<webRenderer, webRenderErr, webInit, webSlots, webClosed, webClose>>

\* Close: take the renderer away under the lock, close it outside, wait for
\* one being made, or for as long as the caller of Close does.
Close ==
    /\ ~webClosed
    /\ webClosed' = TRUE
    /\ webClose' = [pc |-> "closing", renderer |-> webRenderer, init |-> webInit]
    /\ webRenderer' = NoOne
    /\ UNCHANGED <<webCall, webRenderErr, webInit, webInited, webOpen, webSlots>>
CloseRenderer ==
    /\ webClose.pc = "closing"
    /\ webOpen' = webOpen \ {webClose.renderer}
    /\ webClose' = [webClose EXCEPT !.pc = "waiting"]
    /\ UNCHANGED <<webCall, webRenderer, webRenderErr, webInit, webInited, webSlots, webClosed>>
CloseReturns ==
    /\ webClose.pc = "waiting"
    /\ \/ /\ webClose.init \in webInited \cup {NoOne}
          /\ webClose' = [webClose EXCEPT !.pc = "closed"]
       \/ webClose' = [webClose EXCEPT !.pc = "gave up"]
    /\ UNCHANGED <<webCall, webRenderer, webRenderErr, webInit, webInited, webOpen, webSlots, webClosed>>

-----------------------------------------------------------------------------
(* chromedpRenderer.Render: a slot, a proxy and a browser of its own.      *)

Tab == [requests |-> 0, inFlight |-> 0, bytes |-> 0, failed |-> ""]
\* renderCtx ends with the caller, the renderer or its own timeout.
TakeSlot(c) ==
    LET call == webCall[c] IN
    /\ At(c, "slot")
    /\ \/ /\ webSlots < WebSlots
          /\ webSlots' = webSlots + 1
          /\ Become(c, [call EXCEPT !.pc = "browse", !.tab = Tab])
       \/ UNCHANGED webSlots /\ Become(c, RenderFailed(call))
    /\ UNCHANGED <<webRenderer, webRenderErr, webInit, webInited, webOpen, webClosed, webClose>>

Browsing(c) == At(c, "browse") /\ webCall[c].tab.failed = ""
Browse(c, tab) == webCall' = [webCall EXCEPT ![c].tab = tab] /\ UNCHANGED webShared

\* handleEvent and addRequest: one request too many ends the rendering.  Event
\* streams and sockets are not waited for (ignoreForNetworkIdle).
BrowserRequest(c) ==
    LET tab == webCall[c].tab IN
    /\ Browsing(c)
    /\ \E waited \in 0 .. 1 :
          Browse(c, IF tab.requests = WebMaxRequests
                    THEN [tab EXCEPT !.requests = @ + 1, !.failed = "budget"]
                    ELSE [tab EXCEPT !.requests = @ + 1, !.inFlight = @ + waited])
BrowserLoaded(c) ==
    LET tab == webCall[c].tab IN
    /\ Browsing(c) /\ tab.inFlight > 0
    /\ Browse(c, [tab EXCEPT !.inFlight = @ - 1])
\* addNetworkBytes: what the proxy forwards in either direction.
ProxyBytes(c) ==
    LET tab == webCall[c].tab IN
    /\ Browsing(c) /\ tab.requests > 0
    /\ Browse(c, [tab EXCEPT !.bytes = @ + 1, !.failed = IF tab.bytes = WebMaxBytes THEN "budget" ELSE ""])
\* tracker.fail, proxyBudget.fail: the main document is refused, too many
\* redirects, the proxy or the browser breaks.
BrowserFails(c) ==
    /\ Browsing(c)
    /\ Browse(c, [webCall[c].tab EXCEPT !.failed = "failed"])

\* Navigation, the wait for a quiet network, the snapshot: then the budgets
\* are asked once more, and the status, size and HTML of the page.
Snapshot(c) ==
    LET call == webCall[c]
        quiet == call.req.wait = "networkidle" => call.tab.inFlight = 0
    IN  /\ At(c, "browse")
        /\ webSlots' = webSlots - 1
        /\ \/ call.tab.failed = "" /\ quiet /\ ~call.stopped /\ Become(c, Parse(call, "rendered"))
           \/ Become(c, RenderFailed(call))
        /\ UNCHANGED <<webRenderer, webRenderErr, webInit, webInited, webOpen, webClosed, webClose>>

WebNext ==
    \/ \E c \in WebCalls :
          \/ \E r \in WebRequests : Fetch(c, r)
          \/ Stop(c) \/ Redirect(c) \/ Answered(c) \/ Retry(c) \/ ParseHTML(c)
          \/ EnsureRenderer(c) \/ AwaitRenderer(c) \/ MakeRenderer(c) \/ InstallRenderer(c)
          \/ DiscardRenderer(c) \/ TakeSlot(c) \/ BrowserRequest(c) \/ BrowserLoaded(c)
          \/ ProxyBytes(c) \/ BrowserFails(c) \/ Snapshot(c)
    \/ Close \/ CloseRenderer \/ CloseReturns

WebSpec == WebInit /\ [][WebNext]_webVars

-----------------------------------------------------------------------------
(* Properties.                                                             *)

WebTypeOK ==
    /\ webOpen \subseteq WebCalls /\ webInited \subseteq WebCalls
    /\ webRenderer \in WebCalls \cup {NoOne} /\ webInit \in WebCalls \cup {NoOne}
    /\ webSlots \in 0 .. WebSlots

\* However first use, failure, cancellation and Close interleave: there is never
\* more than one renderer; one that is open belongs to the service, to the fetch
\* making it or to Close; a slot is taken by a fetch that browses; whoever waits
\* for a renderer waits for one being made or told of; and when Close has not
\* given up waiting, every renderer is closed (ensureRenderer, Close).
RenderersReleased ==
    /\ WebTypeOK
    /\ Cardinality(webOpen) <= 1
    /\ \A r \in webOpen :
          \/ r = webRenderer
          \/ webCall[r].pc \in {"install", "discard"}
          \/ webClose.pc = "closing" /\ webClose.renderer = r
    /\ webSlots = Cardinality({c \in WebCalls : At(c, "browse")})
    /\ \A c \in WebCalls : At(c, "wait") =>
          webCall[c].uses \in webInited \/ webCall[webCall[c].uses].pc \in {"make", "install", "discard"}
    /\ webClose.pc = "closed" => webOpen = {} /\ \A c \in WebCalls : ~At(c, "make") /\ ~At(c, "install")
=============================================================================

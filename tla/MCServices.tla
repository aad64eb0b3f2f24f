----------------------------- MODULE MCServices -----------------------------
(***************************************************************************)
(* The stores and services that jinn processes share, for TLC: memory, web *)
(* fetches, their cache and the spill registry.  They have no state in     *)
(* common, so a behaviour takes one of them and leaves the others alone.   *)
(***************************************************************************)
EXTENDS Memory, WebFetch, WebCache, SpillRegistry

VARIABLE service  \* the one that takes steps

Call1(op, scope, id, value, pin, ttl, request) ==
    [op |-> op, scope |-> scope, id |-> id, key |-> "k", value |-> value,
     pin |-> pin, ttl |-> ttl, request |-> request]
\* Requests under one id by two commands, without an id, by a scope or all of
\* them, and one that names no scope.
MCMemArgs == {
    Call1("save", "project", "p", "v", TRUE, Never, "r1"),
    Call1("save", "", "p", "w", FALSE, 1, "r1"),
    Call1("save", "project", "p", "w", FALSE, Never, "r2"),
    Call1("forget", "project", "p", "", FALSE, Never, "r1"),
    Call1("forget", "project", "p", "", FALSE, Never, NoID),
    Call1("gc", "", "", "", FALSE, Never, "r2"),
    Call1("gc", "project", "p", "", FALSE, Never, NoID),
    Call1("save", "task", "", "v", FALSE, Never, NoID),
    Call1("recall", "project", "p", "", FALSE, Never, NoID)}

Fetched(reader, render, wait, raw) ==
    [kind |-> "fetch", reader |-> reader, render |-> render, wait |-> wait, raw |-> raw]
Searched(provider) ==
    [kind |-> "search", query |-> "q", key |-> TRUE, provider |-> provider,
     category |-> TRUE, date |-> FALSE, limit |-> 5]
\* The whole ladder, a rendering that has to be, readers without one, both
\* search services, one of them asked for what it has not.
MCWebRequests == {
    Fetched("auto", "auto", "networkidle", FALSE), Fetched("defuddle", "always", "", FALSE),
    Fetched("jina", "never", "", FALSE), Fetched("jina", "never", "", TRUE),
    Searched("exa"), Searched("brave")}

servicesVars == <<service, memVars, webVars, cacheVars, spillVars>>
Init ==
    /\ service \in {"memory", "web", "cache", "spills"}
    /\ MemInit /\ WebInit /\ CacheInit /\ SpillInit
    /\ service # "memory" => memColumns = Columns /\ memRows = <<>>
Next ==
    /\ UNCHANGED service
    /\ \/ service = "memory" /\ MemNext /\ UNCHANGED <<webVars, cacheVars, spillVars>>
       \/ service = "web" /\ WebNext /\ UNCHANGED <<memVars, cacheVars, spillVars>>
       \/ service = "cache" /\ CacheNext /\ UNCHANGED <<memVars, webVars, spillVars>>
       \/ service = "spills" /\ SpillNext /\ UNCHANGED <<memVars, webVars, cacheVars>>
Spec == Init /\ [][Next]_servicesVars
=============================================================================

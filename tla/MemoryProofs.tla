---------------------------- MODULE MemoryProofs ----------------------------
(***************************************************************************)
(* Theorems about the memory tool of Memory, for any number of processes   *)
(* that share the database, any calls and any clock.                       *)
(***************************************************************************)
EXTENDS Memory, TLAPS

Busy == {"schema", "migrate", "begin", "work", "commit", "replay", "read"}
BusyT == [pc : Busy, args : MemArgs, columns : SUBSET Columns]
AllSlots == Slots \cup {Unscoped(s) : s \in Slots}

\* A call under way was not refused, and reads without a transaction or comes
\* to one with something to do.
CallOK(call) ==
    \/ call.pc = "idle"
    \/ /\ call \in BusyT /\ ~ArgsRefused(call.args)
       /\ call.pc = "read" <=> call.args.op = "recall"

\* The result of a call is that of its own command, from itself or from a call
\* made under the same request id.
SameRequest(a, b) == b = a \/ (a.request # NoID /\ b.request = a.request /\ b.op = a.op)
AnswerOK(call) ==
    call.pc = "idle" /\ call # NoCall /\ call.ok /\ call.args.op # "recall" =>
        /\ call.args \in MemArgs
        /\ \E b \in MemArgs : SameRequest(call.args, b) /\ call.result = ResultOf(b)

CallsInv ==
    /\ DOMAIN memCall = MemClients
    /\ \A c \in MemClients :
          /\ CallOK(memCall[c]) /\ AnswerOK(memCall[c])
          /\ memCall[c].pc = "migrate" => memColumns # NoTable
          /\ memCall[c].pc \in {"work", "commit"} => memTx.owner = c

TableInv ==
    /\ DOMAIN memRows \subseteq AllSlots
    /\ memColumns \subseteq Columns \/ memColumns = NoTable

\* Every claim was completed by the call that made it.
ClaimsInv ==
    /\ DOMAIN memRequests \subseteq RequestIDs
    /\ \A r \in DOMAIN memRequests : \E a \in MemArgs :
          /\ a.request = r
          /\ memRequests[r].command = a.op /\ memRequests[r].result = ResultOf(a)

\* What is not remembered has not been run since it was forgotten.
RunsInv ==
    \A r \in RequestIDs : memRuns[r] \in {0, 1} /\ (r \notin DOMAIN memRequests => memRuns[r] = 0)

\* The transaction claims a request that was not there, and its other claims
\* are those that are.
TxClaim(a) ==
    /\ a.request \notin DOMAIN memRequests
    /\ DOMAIN memTx.requests \subseteq DOMAIN memRequests \cup ({a.request} \ {NoID})
    /\ \A r \in DOMAIN memTx.requests :
          IF r = a.request
          THEN /\ DOMAIN memTx.requests[r] = {"command", "result", "born"}
               /\ memTx.requests[r].command = a.op
          ELSE memTx.requests[r] = memRequests[r]
TxInv ==
    memTx # NoTx =>
        /\ memTx.owner \in MemClients /\ memCall[memTx.owner].pc \in {"work", "commit"}
        /\ memTx = [owner |-> memTx.owner, rows |-> memTx.rows, requests |-> memTx.requests]
        /\ DOMAIN memTx.rows \subseteq AllSlots
        /\ TxClaim(memCall[memTx.owner].args)

MemInv == CallsInv /\ TableInv /\ ClaimsInv /\ RunsInv /\ TxInv
-----------------------------------------------------------------------------
(* Slots, columns and rows.                                                *)

LEMMA UnscopedSlot ==
  ASSUME NEW s \in AllSlots
  PROVE  Unscoped(s) \in AllSlots
<1>1. \A t \in Slots : Unscoped(Unscoped(t)) = Unscoped(t)
  BY DEF Slots, EntrySlot, Unscoped
<1> QED
  BY <1>1 DEF AllSlots

LEMMA RebuiltSlots ==
  ASSUME NEW rows, NEW seen, DOMAIN rows \subseteq AllSlots
  PROVE  DOMAIN Rebuilt(rows, seen) \subseteq AllSlots
BY UnscopedSlot DEF Rebuilt

LEMMA WorkedSlots ==
  ASSUME NEW rows, NEW a \in MemArgs, DOMAIN rows \subseteq AllSlots, ~ArgsRefused(a), a.op # "recall"
  PROVE  DOMAIN WorkedRows(rows, a) \subseteq AllSlots
<1>1. CASE a.op = "save"
  <2>1. ResolveMemoryScope(a) # {}
    BY <1>1 DEF ArgsRefused, Sweeps
  <2>2. EntrySlot(a) \in AllSlots
    BY <2>1 DEF AllSlots, Slots
  <2>3. WorkedRows(rows, a) = Upsert(rows, a)
    BY <1>1 DEF WorkedRows
  <2>4. DOMAIN Upsert(rows, a) = DOMAIN rows \cup {EntrySlot(a)}
    BY DEF Upsert
  <2> QED
    BY <2>2, <2>3, <2>4
<1>2. CASE a.op = "forget"
  BY <1>2 DEF WorkedRows, Restrict
<1>3. CASE a.op = "gc"
  BY <1>3 DEF WorkedRows, Restrict, Collected
<1> QED
  BY <1>1, <1>2, <1>3, MemAssumption

LEMMA NoSuchColumn == "no table" \notin Columns /\ Columns # NoTable
<1>1. DOMAIN Added = 1 .. 3 /\ Added[1] # "no table" /\ Added[2] # "no table" /\ Added[3] # "no table"
  BY DEF Added
<1>2. \A i \in DOMAIN Added : Added[i] # "no table"
  <2> SUFFICES ASSUME NEW i \in 1 .. 3
               PROVE  Added[i] # "no table"
    BY <1>1
  <2>1. i = 1 \/ i = 2 \/ i = 3
    OBVIOUS
  <2> QED
    BY <1>1, <2>1
<1>3. Core # "no table"
  BY DEF Core
<1> QED
  BY <1>2, <1>3 DEF Columns, Range, NoTable

LEMMA AddedColumn ==
  ASSUME NEW seen, {i \in DOMAIN Added : Added[i] \notin seen} # {}
  PROVE  Added[CHOOSE i \in {i \in DOMAIN Added : Added[i] \notin seen} :
                  \A j \in {k \in DOMAIN Added : Added[k] \notin seen} : i <= j] \in Columns
<1> DEFINE missing == {i \in DOMAIN Added : Added[i] \notin seen}
<1>1. DOMAIN Added = 1 .. 3
  BY DEF Added
<1>2. missing \in SUBSET (1 .. 3) /\ missing # {}
  BY <1>1
<1> HIDE DEF missing
<1>3. \E i \in missing : \A j \in missing : i <= j
  <2>1. CASE 1 \in missing
    BY <1>2, <2>1
  <2>2. CASE 1 \notin missing /\ 2 \in missing
    BY <1>2, <2>2
  <2>3. CASE 1 \notin missing /\ 2 \notin missing
    <3>1. \A j \in missing : j = 3
      BY <1>2, <2>3
    <3>2. PICK i \in missing : TRUE
      BY <1>2
    <3>3. \A j \in missing : i <= j
      BY <3>1
    <3> QED
      BY <3>2, <3>3
  <2> QED
    BY <2>1, <2>2, <2>3
<1>4. (CHOOSE i \in missing : \A j \in missing : i <= j) \in missing
  BY <1>3
<1>5. \A i \in 1 .. 3 : Added[i] \in Columns
  BY DEF Columns, Range, Added
<1> QED
  BY <1>2, <1>4, <1>5 DEF missing
-----------------------------------------------------------------------------
(* Steps.                                                                  *)

\* Nobody's transaction is that of a call that is not in one.
LEMMA NotItsTx ==
  ASSUME MemInv, NEW c \in MemClients, memCall[c].pc \notin {"work", "commit"}
  PROVE  memTx.owner # c /\ (Rollback(c) => UNCHANGED memTx)
<1>1. memTx.owner = c => memTx # NoTx
  BY MemAssumption DEF NoTx
<1>2. memTx.owner # c
  BY <1>1 DEF MemInv, TxInv
<1> QED
  BY <1>2 DEF Rollback

LEMMA OneCall ==
  ASSUME MemInv, NEW c \in MemClients, NEW new, memCall' = [memCall EXCEPT ![c] = new]
  PROVE  /\ DOMAIN memCall' = MemClients /\ memCall'[c] = new
         /\ \A d \in MemClients : d # c => memCall'[d] = memCall[d]
BY DEF MemInv, CallsInv

\* A step of a call outside transactions.
LEMMA QuietStep ==
  ASSUME MemInv, NEW c \in MemClients, NEW new, memCall' = [memCall EXCEPT ![c] = new],
         CallOK(new), AnswerOK(new),
         memCall[c].pc \notin {"work", "commit"}, new.pc \notin {"work", "commit"},
         UNCHANGED <<memRequests, memTx, memRuns>>, TableInv',
         memColumns # NoTable \/ new.pc = "migrate" => memColumns' # NoTable
  PROVE  MemInv'
<1>1. /\ DOMAIN memCall' = MemClients /\ memCall'[c] = new
      /\ \A d \in MemClients : d # c => memCall'[d] = memCall[d]
  BY OneCall
<1>2. CallsInv'
  <2> SUFFICES ASSUME NEW d \in MemClients
               PROVE  /\ CallOK(memCall'[d]) /\ AnswerOK(memCall'[d])
                      /\ memCall'[d].pc = "migrate" => memColumns' # NoTable
                      /\ memCall'[d].pc \in {"work", "commit"} => memTx'.owner = d
    BY <1>1 DEF CallsInv
  <2>1. CASE d = c
    BY <1>1, <2>1
  <2>2. CASE d # c
    BY <1>1, <2>2 DEF MemInv, CallsInv
  <2> QED
    BY <2>1, <2>2
<1>3. ClaimsInv' /\ RunsInv'
  BY DEF MemInv, ClaimsInv, RunsInv
<1>4. TxInv'
  <2> SUFFICES ASSUME memTx # NoTx
               PROVE  memTx.owner \in MemClients /\ memCall'[memTx.owner] = memCall[memTx.owner]
    BY DEF MemInv, TxInv, TxClaim
  <2>1. memTx.owner \in MemClients /\ memTx.owner # c
    BY NotItsTx DEF MemInv, TxInv
  <2> QED
    BY <1>1, <2>1
<1> QED
  BY <1>2, <1>3, <1>4 DEF MemInv

LEMMA AnswerShape ==
  ASSUME MemInv, NEW c \in MemClients, NEW ok, NEW result, Answer(c, ok, result)
  PROVE  memCall' = [memCall EXCEPT ![c] = [pc |-> "idle", ok |-> ok, args |-> memCall[c].args, result |-> result]]
BY DEF Answer

\* A transaction ends, and its call with it.
LEMMA EndStep ==
  ASSUME MemInv, NEW c \in MemClients, NEW new, memCall' = [memCall EXCEPT ![c] = new],
         CallOK(new), AnswerOK(new), new.pc = "idle",
         memCall[c].pc \in {"work", "commit"}, memTx' = NoTx,
         TableInv', ClaimsInv', RunsInv', UNCHANGED memColumns
  PROVE  MemInv'
<1>1. /\ DOMAIN memCall' = MemClients /\ memCall'[c] = new
      /\ \A d \in MemClients : d # c => memCall'[d] = memCall[d]
  BY OneCall
<1>2. \A d \in MemClients : d # c => memCall[d].pc \notin {"work", "commit"}
  BY DEF MemInv, CallsInv
<1>3. CallsInv'
  <2> SUFFICES ASSUME NEW d \in MemClients
               PROVE  /\ CallOK(memCall'[d]) /\ AnswerOK(memCall'[d])
                      /\ memCall'[d].pc = "migrate" => memColumns' # NoTable
                      /\ memCall'[d].pc \notin {"work", "commit"}
    BY <1>1 DEF CallsInv
  <2>1. CASE d = c
    BY <1>1, <2>1
  <2>2. CASE d # c
    BY <1>1, <1>2, <2>2 DEF MemInv, CallsInv
  <2> QED
    BY <2>1, <2>2
<1>4. TxInv'
  BY DEF TxInv
<1> QED
  BY <1>3, <1>4 DEF MemInv

LEMMA BusyCall ==
  ASSUME MemInv, NEW c \in MemClients, memCall[c].pc # "idle"
  PROVE  /\ memCall[c] \in BusyT /\ ~ArgsRefused(memCall[c].args)
         /\ memCall[c].pc = "read" <=> memCall[c].args.op = "recall"
BY DEF MemInv, CallsInv, CallOK

LEMMA Going ==
  ASSUME MemInv, NEW c \in MemClients, memCall[c].pc \notin {"idle", "read"},
         NEW pc \in Busy, pc # "read"
  PROVE  /\ CallOK([memCall[c] EXCEPT !.pc = pc]) /\ AnswerOK([memCall[c] EXCEPT !.pc = pc])
         /\ [memCall[c] EXCEPT !.pc = pc].pc = pc
         /\ [memCall[c] EXCEPT !.pc = pc].args = memCall[c].args
<1> DEFINE new == [memCall[c] EXCEPT !.pc = pc]
<1>1. new \in BusyT /\ new.pc = pc /\ new.args = memCall[c].args /\ new.pc # "idle"
  BY BusyCall DEF BusyT, Busy
<1> HIDE DEF new
<1>2. CallOK(new) /\ AnswerOK(new)
  BY <1>1, BusyCall DEF CallOK, AnswerOK
<1> QED
  BY <1>1, <1>2 DEF new

\* A call that fails answers nothing.
LEMMA Failing ==
  ASSUME NEW args, NEW result
  PROVE  /\ CallOK([pc |-> "idle", ok |-> FALSE, args |-> args, result |-> result])
         /\ AnswerOK([pc |-> "idle", ok |-> FALSE, args |-> args, result |-> result])
BY DEF CallOK, AnswerOK

\* A call outside transactions fails and changes nothing.
LEMMA FailStep ==
  ASSUME MemInv, NEW c \in MemClients, Answer(c, FALSE, <<>>),
         memCall[c].pc \notin {"work", "commit"},
         UNCHANGED <<memRows, memColumns, memRequests, memTx, memRuns>>
  PROVE  MemInv'
<1> DEFINE new == [pc |-> "idle", ok |-> FALSE, args |-> memCall[c].args, result |-> <<>>]
<1>1. memCall' = [memCall EXCEPT ![c] = new]
  BY AnswerShape
<1>2. CallOK(new) /\ AnswerOK(new) /\ new.pc = "idle"
  BY Failing
<1>3. TableInv'
  BY DEF MemInv, TableInv
<1> HIDE DEF new
<1> QED
  BY <1>1, <1>2, <1>3, QuietStep

LEMMA ToolStep ==
  ASSUME MemInv, NEW c \in MemClients, NEW a \in MemArgs, MemoryTool(c, a)
  PROVE  MemInv'
<1>1. memCall[c].pc = "idle" /\ TableInv' /\ UNCHANGED <<memRequests, memTx, memRuns, memColumns>>
  BY DEF MemoryTool, MemInv, TableInv
<1>2. CASE ArgsRefused(a)
  <2> DEFINE new == [pc |-> "idle", ok |-> FALSE, args |-> a, result |-> <<>>]
  <2>1. memCall' = [memCall EXCEPT ![c] = new]
    BY <1>2 DEF MemoryTool
  <2>2. CallOK(new) /\ AnswerOK(new) /\ new.pc = "idle"
    BY Failing
  <2> HIDE DEF new
  <2> QED
    BY <1>1, <2>1, <2>2, QuietStep
<1>3. CASE ~ArgsRefused(a)
  <2> DEFINE to == IF a.op = "recall" THEN "read" ELSE IF c \in memOpen THEN "begin" ELSE "schema"
             new == [pc |-> to, args |-> a, columns |-> {}]
  <2>1. memCall' = [memCall EXCEPT ![c] = new]
    BY <1>3 DEF MemoryTool
  <2>2. new \in BusyT /\ new.pc = to /\ new.args = a
    BY DEF BusyT, Busy
  <2>3. new.pc \in {"read", "begin", "schema"} /\ (new.pc = "read" <=> a.op = "recall")
    BY <2>2
  <2> HIDE DEF new
  <2>4. CallOK(new) /\ AnswerOK(new)
    BY <1>3, <2>2, <2>3 DEF CallOK, AnswerOK
  <2> QED
    BY <1>1, <2>1, <2>3, <2>4, QuietStep
<1> QED
  BY <1>2, <1>3

LEMMA SchemaStep ==
  ASSUME MemInv, NEW c \in MemClients, EnsureSchema(c)
  PROVE  MemInv'
<1> DEFINE new == [memCall[c] EXCEPT !.pc = "migrate", !.columns = memColumns']
<1>1. memCall[c].pc = "schema" /\ memCall[c] \in BusyT
  BY BusyCall DEF EnsureSchema
<1>2. memColumns' \in SUBSET Columns /\ memColumns' # NoTable
  BY NoSuchColumn DEF EnsureSchema, MemInv, TableInv
<1>3. new \in BusyT /\ new.pc = "migrate" /\ new.args = memCall[c].args
  BY <1>1, <1>2 DEF BusyT, Busy
<1>4. memCall' = [memCall EXCEPT ![c] = new]
  BY DEF EnsureSchema
<1>5. TableInv'
  BY <1>2 DEF EnsureSchema, MemInv, TableInv
<1> HIDE DEF new
<1>6. CallOK(new) /\ AnswerOK(new)
  BY <1>1, <1>3, BusyCall DEF CallOK, AnswerOK
<1> QED
  BY <1>1, <1>2, <1>3, <1>4, <1>5, <1>6, QuietStep DEF EnsureSchema

LEMMA ColumnStep ==
  ASSUME MemInv, NEW c \in MemClients, AddColumn(c)
  PROVE  MemInv'
<1> DEFINE missing == {i \in DOMAIN Added : Added[i] \notin memCall[c].columns}
           col == Added[CHOOSE i \in missing : \A j \in missing : i <= j]
<1>1. /\ memCall[c].pc = "migrate" /\ memCall[c] \in BusyT /\ memColumns # NoTable
      /\ memColumns \subseteq Columns
  BY BusyCall DEF AddColumn, MemInv, CallsInv, TableInv
<1>2. UNCHANGED <<memRows, memRequests, memTx, memRuns>>
  BY DEF AddColumn
<1>3. \/ Goto(c, "begin") /\ UNCHANGED memColumns
      \/ Answer(c, FALSE, <<>>) /\ UNCHANGED memColumns
      \/ /\ missing # {} /\ memColumns' = memColumns \cup {col}
         /\ memCall' = [memCall EXCEPT ![c].columns = @ \cup {col}]
  BY DEF AddColumn
<1>4. missing # {} => col \in Columns
  BY AddedColumn
<1> HIDE DEF missing, col
<1>5. CASE Goto(c, "begin") /\ UNCHANGED memColumns
  <2>1. TableInv'
    BY <1>2, <1>5 DEF MemInv, TableInv
  <2> QED
    BY <1>1, <1>2, <1>5, <2>1, Going, QuietStep DEF Goto, Busy
<1>6. CASE Answer(c, FALSE, <<>>) /\ UNCHANGED memColumns
  BY <1>1, <1>2, <1>6, FailStep
<1>7. CASE /\ missing # {} /\ memColumns' = memColumns \cup {col}
           /\ memCall' = [memCall EXCEPT ![c].columns = @ \cup {col}]
  <2> DEFINE new == [memCall[c] EXCEPT !.columns = @ \cup {col}]
  <2>1. new \in BusyT /\ new.pc = "migrate" /\ new.args = memCall[c].args
    BY <1>1, <1>4, <1>7 DEF BusyT, Busy
  <2>2. memCall' = [memCall EXCEPT ![c] = new]
    BY <1>7
  <2> HIDE DEF new
  <2>3. CallOK(new) /\ AnswerOK(new)
    BY <1>1, <2>1, BusyCall DEF CallOK, AnswerOK
  <2>4. memColumns' \subseteq Columns /\ memColumns' # NoTable
    BY <1>1, <1>4, <1>7, NoSuchColumn DEF NoTable
  <2>5. TableInv'
    BY <1>2, <2>4 DEF MemInv, TableInv
  <2> QED
    BY <1>1, <1>2, <2>1, <2>2, <2>3, <2>4, <2>5, QuietStep
<1> QED
  BY <1>3, <1>5, <1>6, <1>7

LEMMA RebuildStep ==
  ASSUME MemInv, NEW c \in MemClients, RebuildMemoryTable(c)
  PROVE  MemInv'
<1>1. memCall[c].pc = "migrate" /\ memColumns # NoTable /\ UNCHANGED <<memRequests, memTx, memRuns>>
  BY DEF RebuildMemoryTable, MemInv, CallsInv
<1>2. CASE Answer(c, FALSE, <<>>) /\ UNCHANGED <<memRows, memColumns>>
  BY <1>1, <1>2, FailStep
<1>3. CASE Goto(c, "begin") /\ memRows' = Rebuilt(memRows, memCall[c].columns) /\ memColumns' = Columns
  <2>1. TableInv'
    BY <1>3, RebuiltSlots DEF MemInv, TableInv
  <2>2. memColumns' # NoTable
    BY <1>3, NoSuchColumn
  <2> QED
    BY <1>1, <1>3, <2>1, <2>2, Going, QuietStep DEF Goto, Busy
<1> QED
  BY <1>2, <1>3 DEF RebuildMemoryTable

LEMMA ReadStep ==
  ASSUME MemInv, NEW c \in MemClients, MemoryRecall(c)
  PROVE  MemInv'
<1>1. memCall[c].pc = "read" /\ UNCHANGED <<memRows, memRequests, memTx, memRuns, memColumns>>
  BY DEF MemoryRecall
<1>2. PICK ok, result : Answer(c, ok, result)
  BY DEF MemoryRecall
<1> DEFINE new == [pc |-> "idle", ok |-> ok, args |-> memCall[c].args, result |-> result]
<1>3. memCall' = [memCall EXCEPT ![c] = new]
  BY <1>2, AnswerShape
<1>4. new.pc = "idle" /\ new.args.op = "recall"
  BY <1>1, BusyCall
<1> HIDE DEF new
<1>5. CallOK(new) /\ AnswerOK(new)
  BY <1>4 DEF CallOK, AnswerOK
<1>6. TableInv'
  BY <1>1 DEF MemInv, TableInv
<1> QED
  BY <1>1, <1>3, <1>4, <1>5, <1>6, QuietStep

LEMMA ReplayStep ==
  ASSUME MemInv, NEW c \in MemClients, ReplayIdempotent(c)
  PROVE  MemInv'
<1> DEFINE a == memCall[c].args
<1>1. memCall[c].pc = "replay" /\ UNCHANGED <<memRows, memColumns, memRequests, memTx, memRuns>>
  BY DEF ReplayIdempotent
<1>2. CASE Answer(c, FALSE, <<>>)
  BY <1>1, <1>2, FailStep
<1>3. CASE /\ a.request \in DOMAIN memRequests /\ memRequests[a.request].command = a.op
           /\ Answer(c, TRUE, memRequests[a.request].result)
  <2> DEFINE result == memRequests[a.request].result
             new == [pc |-> "idle", ok |-> TRUE, args |-> a, result |-> result]
  <2>1. memCall' = [memCall EXCEPT ![c] = new]
    BY <1>3, AnswerShape
  <2>2. new.pc = "idle" /\ new.args = a /\ new.result = result
    OBVIOUS
  <2>3. a \in MemArgs
    BY <1>1, BusyCall DEF BusyT
  <2>4. PICK b \in MemArgs : b.request = a.request /\ a.op = b.op /\ result = ResultOf(b)
    BY <1>3 DEF MemInv, ClaimsInv
  <2>5. a.request # NoID
    BY <1>3 DEF MemInv, ClaimsInv, RequestIDs
  <2> HIDE DEF new, result, a
  <2>6. SameRequest(a, b)
    BY <2>4, <2>5 DEF SameRequest
  <2>7. CallOK(new) /\ AnswerOK(new)
    BY <2>2, <2>3, <2>4, <2>6 DEF CallOK, AnswerOK
  <2>8. TableInv'
    BY <1>1 DEF MemInv, TableInv
  <2> QED
    BY <1>1, <2>1, <2>2, <2>7, <2>8, QuietStep
<1> QED
  BY <1>2, <1>3 DEF ReplayIdempotent, Replayable

LEMMA FailingStep ==
  ASSUME MemInv, NEW c \in MemClients, MemFail(c)
  PROVE  MemInv'
<1>1. Answer(c, FALSE, <<>>) /\ Rollback(c) /\ UNCHANGED <<memRows, memColumns, memRequests, memRuns>>
  BY DEF MemFail
<1>2. CASE memCall[c].pc \notin {"work", "commit"}
  BY <1>1, <1>2, NotItsTx, FailStep
<1>3. CASE memCall[c].pc \in {"work", "commit"}
  <2> DEFINE new == [pc |-> "idle", ok |-> FALSE, args |-> memCall[c].args, result |-> <<>>]
  <2>1. memCall' = [memCall EXCEPT ![c] = new]
    BY <1>1, AnswerShape
  <2>2. CallOK(new) /\ AnswerOK(new) /\ new.pc = "idle"
    BY Failing
  <2>3. TableInv' /\ ClaimsInv' /\ RunsInv'
    BY <1>1 DEF MemInv, TableInv, ClaimsInv, RunsInv
  <2>4. memTx' = NoTx
    BY <1>1, <1>3 DEF MemInv, CallsInv, Rollback
  <2> HIDE DEF new
  <2> QED
    BY <1>1, <1>3, <2>1, <2>2, <2>3, <2>4, EndStep
<1> QED
  BY <1>2, <1>3

LEMMA CrashStep ==
  ASSUME MemInv, NEW c \in MemClients, MemCrash(c)
  PROVE  MemInv'
<1>1. /\ memCall' = [memCall EXCEPT ![c] = NoCall] /\ Rollback(c)
      /\ UNCHANGED <<memRows, memColumns, memRequests, memRuns>>
  BY DEF MemCrash
<1>2. CallOK(NoCall) /\ AnswerOK(NoCall) /\ NoCall.pc = "idle"
  BY DEF NoCall, CallOK, AnswerOK
<1>3. TableInv' /\ ClaimsInv' /\ RunsInv'
  BY <1>1 DEF MemInv, TableInv, ClaimsInv, RunsInv
<1>4. CASE memCall[c].pc \notin {"work", "commit"}
  BY <1>1, <1>2, <1>3, <1>4, NotItsTx, QuietStep
<1>5. CASE memCall[c].pc \in {"work", "commit"}
  <2>1. memTx' = NoTx
    BY <1>1, <1>5 DEF MemInv, CallsInv, Rollback
  <2> QED
    BY <1>1, <1>2, <1>3, <1>5, <2>1, EndStep
<1> QED
  BY <1>4, <1>5

LEMMA TickStep ==
  ASSUME MemInv, UNCHANGED <<memRows, memColumns, memRequests, memTx, memCall, memRuns>>
  PROVE  MemInv'
BY DEF MemInv, CallsInv, TableInv, ClaimsInv, RunsInv, TxInv, TxClaim
-----------------------------------------------------------------------------
(* The transaction.                                                        *)

\* The one transaction there is goes on, or begins.
LEMMA InTxStep ==
  ASSUME MemInv, NEW c \in MemClients, NEW pc \in {"work", "commit"}, NEW tx,
         memCall[c].pc \in {"begin", "work"}, memCall[c].pc = "begin" => memTx = NoTx,
         Goto(c, pc), memTx' = tx, tx.owner = c,
         tx = [owner |-> tx.owner, rows |-> tx.rows, requests |-> tx.requests],
         DOMAIN tx.rows \subseteq AllSlots, TxClaim(memCall[c].args)',
         UNCHANGED <<memRows, memColumns, memRequests, memRuns>>
  PROVE  MemInv'
<1> DEFINE new == [memCall[c] EXCEPT !.pc = pc]
<1>1. memCall' = [memCall EXCEPT ![c] = new]
  BY DEF Goto
<1>2. CallOK(new) /\ AnswerOK(new) /\ new.pc = pc
  <2>1. pc \in Busy /\ pc # "read" /\ memCall[c].pc \notin {"idle", "read"}
    BY DEF Busy
  <2> QED
    BY <2>1, Going
<1> HIDE DEF new
<1>3. /\ DOMAIN memCall' = MemClients /\ memCall'[c] = new
      /\ \A d \in MemClients : d # c => memCall'[d] = memCall[d]
  BY <1>1, OneCall
<1>4. \A d \in MemClients : d # c => memCall[d].pc \notin {"work", "commit"}
  <2>1. \A d \in MemClients : memCall[d].pc \in {"work", "commit"} => memTx.owner = d
    BY DEF MemInv, CallsInv
  <2>2. memTx.owner \in {c, "none"}
    BY <2>1 DEF NoTx
  <2> QED
    BY <2>1, <2>2, MemAssumption
<1>5. CallsInv'
  <2> SUFFICES ASSUME NEW d \in MemClients
               PROVE  /\ CallOK(memCall'[d]) /\ AnswerOK(memCall'[d])
                      /\ memCall'[d].pc = "migrate" => memColumns' # NoTable
                      /\ memCall'[d].pc \in {"work", "commit"} => memTx'.owner = d
    BY <1>3 DEF CallsInv
  <2>1. CASE d = c
    BY <1>2, <1>3, <2>1
  <2>2. CASE d # c
    BY <1>3, <1>4, <2>2 DEF MemInv, CallsInv
  <2> QED
    BY <2>1, <2>2
<1>6. TableInv' /\ ClaimsInv' /\ RunsInv'
  BY DEF MemInv, TableInv, ClaimsInv, RunsInv
<1>7. TxInv'
  <2>1. memTx'.owner = c /\ memCall'[c].pc \in {"work", "commit"}
    BY <1>2, <1>3
  <2>2. memTx' = [owner |-> memTx'.owner, rows |-> memTx'.rows, requests |-> memTx'.requests]
    OBVIOUS
  <2>3. DOMAIN memTx'.rows \subseteq AllSlots
    OBVIOUS
  <2>4. TxClaim(memCall[memTx.owner].args)'
    BY <2>1
  <2> QED
    BY <2>1, <2>2, <2>3, <2>4 DEF TxInv
<1> QED
  BY <1>5, <1>6, <1>7 DEF MemInv

\* A call that goes on keeps its arguments.
LEMMA SameArgs ==
  ASSUME MemInv, NEW c \in MemClients, NEW pc \in Busy, pc # "read",
         memCall[c].pc \notin {"idle", "read"}, Goto(c, pc)
  PROVE  memCall'[c].args = memCall[c].args
<1> DEFINE new == [memCall[c] EXCEPT !.pc = pc]
<1>1. memCall' = [memCall EXCEPT ![c] = new]
  BY DEF Goto
<1>2. new.args = memCall[c].args
  BY Going
<1> HIDE DEF new
<1>3. memCall'[c] = new
  BY <1>1, OneCall
<1> QED
  BY <1>2, <1>3

LEMMA BeginStep ==
  ASSUME MemInv, NEW c \in MemClients, RunIdempotent(c)
  PROVE  MemInv'
<1> DEFINE a == memCall[c].args
           claim == [command |-> a.op, result |-> <<>>, born |-> memClock]
           requests == IF a.request = NoID THEN memRequests
                       ELSE [r \in DOMAIN memRequests \cup {a.request} |->
                                IF r = a.request THEN claim ELSE memRequests[r]]
           tx == [owner |-> c, rows |-> memRows, requests |-> requests]
<1>1. memCall[c].pc = "begin" /\ memTx = NoTx /\ UNCHANGED <<memRows, memColumns, memRequests, memRuns>>
  BY DEF RunIdempotent
<1>2. CASE Goto(c, "replay") /\ UNCHANGED memTx
  <2>1. TableInv'
    BY <1>1 DEF MemInv, TableInv
  <2> QED
    BY <1>1, <1>2, <2>1, Going, QuietStep DEF Goto, Busy
<1>3. CASE ~(a.request # NoID /\ a.request \in DOMAIN memRequests) /\ Goto(c, "work") /\ memTx' = tx
  <2>1. tx.owner = c /\ tx.rows = memRows /\ tx.requests = requests
    OBVIOUS
  <2>2. tx = [owner |-> tx.owner, rows |-> tx.rows, requests |-> tx.requests]
    OBVIOUS
  <2>3. a.request \notin DOMAIN memRequests
    BY <1>3 DEF MemInv, ClaimsInv, RequestIDs
  <2>4. DOMAIN requests \subseteq DOMAIN memRequests \cup ({a.request} \ {NoID})
    OBVIOUS
  <2>5. DOMAIN claim = {"command", "result", "born"} /\ claim.command = a.op
    OBVIOUS
  <2>6. \A r \in DOMAIN requests : IF r = a.request THEN requests[r] = claim ELSE requests[r] = memRequests[r]
    BY <2>3
  <2>7. memTx'.requests = requests /\ memRequests' = memRequests /\ a' = a
    BY <1>1, <1>3, SameArgs DEF Busy
  <2> HIDE DEF claim, requests, tx
  <2>8. TxClaim(a)'
    BY <2>3, <2>4, <2>5, <2>6, <2>7 DEF TxClaim
  <2>9. DOMAIN tx.rows \subseteq AllSlots
    BY <2>1 DEF MemInv, TableInv
  <2> QED
    BY <1>1, <1>3, <2>1, <2>2, <2>8, <2>9, InTxStep
<1> QED
  BY <1>2, <1>3 DEF RunIdempotent

LEMMA WorkStep ==
  ASSUME MemInv, NEW c \in MemClients, Work(c)
  PROVE  MemInv'
<1> DEFINE a == memCall[c].args
           gone == IF a.op = "gc" THEN Pruned(memTx.requests) ELSE {}
           rows == WorkedRows(memTx.rows, a)
           requests == Restrict(memTx.requests, DOMAIN memTx.requests \ gone)
           tx == [memTx EXCEPT !.rows = rows, !.requests = requests]
<1>1. /\ memCall[c].pc = "work" /\ Goto(c, "commit") /\ memTx' = tx
      /\ UNCHANGED <<memRows, memColumns, memRequests, memRuns>>
  BY DEF Work
<1>2. memTx.owner = c /\ memTx # NoTx
  BY <1>1, MemAssumption DEF MemInv, CallsInv, NoTx
<1>3. /\ memTx = [owner |-> memTx.owner, rows |-> memTx.rows, requests |-> memTx.requests]
      /\ DOMAIN memTx.rows \subseteq AllSlots /\ TxClaim(a)
  BY <1>2 DEF MemInv, TxInv
<1>4. a \in MemArgs /\ ~ArgsRefused(a) /\ a.op # "recall"
  BY <1>1, BusyCall DEF BusyT
<1>5. DOMAIN rows \subseteq AllSlots
  BY <1>3, <1>4, WorkedSlots
<1>6. /\ DOMAIN requests \subseteq DOMAIN memTx.requests
      /\ \A r \in DOMAIN requests : requests[r] = memTx.requests[r]
  BY DEF Restrict
<1> HIDE DEF gone, rows, requests
<1>7. /\ tx.owner = c /\ tx.rows = rows /\ tx.requests = requests
      /\ tx = [owner |-> tx.owner, rows |-> tx.rows, requests |-> tx.requests]
  <2>1. tx = [owner |-> c, rows |-> rows, requests |-> requests]
    <3> DEFINE old == memTx.rows
               claims == memTx.requests
               mid == [memTx EXCEPT !.rows = rows]
    <3>1. memTx = [owner |-> c, rows |-> old, requests |-> claims]
      BY <1>2, <1>3
    <3> HIDE DEF old, claims
    <3>2. mid = [owner |-> c, rows |-> rows, requests |-> claims]
      BY <3>1
    <3> HIDE DEF mid
    <3>3. [mid EXCEPT !.requests = requests] = [owner |-> c, rows |-> rows, requests |-> requests]
      BY <3>2
    <3> QED
      BY <3>3 DEF mid
  <2> HIDE DEF tx
  <2> QED
    BY <2>1
<1> HIDE DEF tx
<1>8. memTx'.requests = requests /\ memRequests' = memRequests /\ a' = a
  BY <1>1, <1>7, SameArgs DEF Busy
<1>9. TxClaim(a)'
  BY <1>3, <1>6, <1>8 DEF TxClaim
<1> QED
  BY <1>1, <1>5, <1>7, <1>9, InTxStep

LEMMA CommitStep ==
  ASSUME MemInv, NEW c \in MemClients, CompleteIdempotent(c)
  PROVE  MemInv'
<1> DEFINE a == memCall[c].args
           requests == CompletedRequests(a)
           new == [pc |-> "idle", ok |-> TRUE, args |-> a, result |-> ResultOf(a)]
<1>1. /\ memCall[c].pc = "commit" /\ memRows' = memTx.rows /\ memRequests' = requests
      /\ memTx' = NoTx /\ UNCHANGED memColumns /\ Answer(c, TRUE, ResultOf(a))
      /\ memRuns' = [r \in RequestIDs |-> IF r \notin DOMAIN requests THEN 0
                                          ELSE IF r = a.request THEN memRuns[r] + 1 ELSE memRuns[r]]
  BY DEF CompleteIdempotent
<1>2. memTx.owner = c /\ memTx # NoTx
  BY <1>1, MemAssumption DEF MemInv, CallsInv, NoTx
<1>3. DOMAIN memTx.rows \subseteq AllSlots /\ TxClaim(a)
  BY <1>2 DEF MemInv, TxInv
<1>4. a \in MemArgs
  BY <1>1, BusyCall DEF BusyT
<1>5. memCall' = [memCall EXCEPT ![c] = new]
  BY <1>1, AnswerShape
<1>6. new.pc = "idle" /\ new.args = a /\ new.result = ResultOf(a)
  OBVIOUS
<1>7. TableInv'
  BY <1>1, <1>3 DEF MemInv, TableInv
<1>8. DOMAIN requests = DOMAIN memTx.requests
  BY DEF CompletedRequests
<1>9. \A r \in DOMAIN requests :
         IF r = a.request THEN requests[r].command = a.op /\ requests[r].result = ResultOf(a)
         ELSE r \in DOMAIN memRequests /\ requests[r] = memRequests[r]
  <2> SUFFICES ASSUME NEW r \in DOMAIN requests
               PROVE  IF r = a.request THEN requests[r].command = a.op /\ requests[r].result = ResultOf(a)
                      ELSE r \in DOMAIN memRequests /\ requests[r] = memRequests[r]
    OBVIOUS
  <2>1. CASE r = a.request
    <3>1. DOMAIN memTx.requests[r] = {"command", "result", "born"} /\ memTx.requests[r].command = a.op
      BY <1>3, <1>8, <2>1 DEF TxClaim
    <3>2. requests[r] = [memTx.requests[r] EXCEPT !.result = ResultOf(a)]
      BY <1>8, <2>1 DEF CompletedRequests
    <3> QED
      BY <2>1, <3>1, <3>2
  <2>2. CASE r # a.request
    BY <1>3, <1>8, <2>2 DEF CompletedRequests, TxClaim
  <2> QED
    BY <2>1, <2>2
<1>10. DOMAIN requests \subseteq RequestIDs
  BY <1>3, <1>4, <1>8 DEF TxClaim, MemInv, ClaimsInv, RequestIDs
<1> HIDE DEF requests, new
<1>11. ClaimsInv'
  <2>1. \A r \in DOMAIN requests : \E b \in MemArgs :
           b.request = r /\ requests[r].command = b.op /\ requests[r].result = ResultOf(b)
    <3> SUFFICES ASSUME NEW r \in DOMAIN requests
                 PROVE  \E b \in MemArgs :
                           b.request = r /\ requests[r].command = b.op /\ requests[r].result = ResultOf(b)
      OBVIOUS
    <3>1. CASE r = a.request
      BY <1>4, <1>9, <3>1
    <3>2. CASE r # a.request
      BY <1>9, <3>2 DEF MemInv, ClaimsInv
    <3> QED
      BY <3>1, <3>2
  <2> QED
    BY <1>1, <1>10, <2>1 DEF ClaimsInv
<1>12. RunsInv'
  <2> SUFFICES ASSUME NEW r \in RequestIDs
               PROVE  memRuns'[r] \in {0, 1} /\ (r \notin DOMAIN memRequests' => memRuns'[r] = 0)
    BY DEF RunsInv
  <2>1. CASE r \notin DOMAIN requests
    BY <1>1, <2>1
  <2>2. CASE r \in DOMAIN requests /\ r = a.request
    <3>1. memRuns[r] = 0
      BY <1>3, <2>2 DEF TxClaim, MemInv, RunsInv
    <3> QED
      BY <1>1, <2>2, <3>1
  <2>3. CASE r \in DOMAIN requests /\ r # a.request
    BY <1>1, <2>3 DEF MemInv, RunsInv
  <2> QED
    BY <2>1, <2>2, <2>3
<1>13. CallOK(new) /\ AnswerOK(new)
  BY <1>4, <1>6 DEF CallOK, AnswerOK, SameRequest
<1> QED
  BY <1>1, <1>5, <1>6, <1>7, <1>11, <1>12, <1>13, EndStep
-----------------------------------------------------------------------------
(* The theorems.                                                           *)

LEMMA MemInitially == MemInit => MemInv
<1> SUFFICES ASSUME MemInit
             PROVE  MemInv
  OBVIOUS
<1>1. CallsInv
  BY DEF MemInit, CallsInv, NoCall, CallOK, AnswerOK
<1>2. DOMAIN memRows \subseteq AllSlots
  BY DEF MemInit, AllSlots
<1>3. memColumns \subseteq Columns \/ memColumns = NoTable
  BY DEF MemInit, Columns
<1>4. ClaimsInv /\ RunsInv /\ TxInv
  BY DEF MemInit, ClaimsInv, RunsInv, TxInv
<1> QED
  BY <1>1, <1>2, <1>3, <1>4 DEF MemInv, TableInv

LEMMA MemInvStep == MemInv /\ [MemNext]_memVars => MemInv'
<1> SUFFICES ASSUME MemInv, [MemNext]_memVars
             PROVE  MemInv'
  OBVIOUS
<1>1. ASSUME NEW c \in MemClients, NEW a \in MemArgs, MemoryTool(c, a)
      PROVE  MemInv'
  BY <1>1, ToolStep
<1>2. ASSUME NEW c \in MemClients, EnsureSchema(c) \/ AddColumn(c) \/ RebuildMemoryTable(c)
      PROVE  MemInv'
  BY <1>2, SchemaStep, ColumnStep, RebuildStep
<1>3. ASSUME NEW c \in MemClients, RunIdempotent(c) \/ Work(c) \/ CompleteIdempotent(c)
      PROVE  MemInv'
  BY <1>3, BeginStep, WorkStep, CommitStep
<1>4. ASSUME NEW c \in MemClients, ReplayIdempotent(c) \/ MemoryRecall(c)
      PROVE  MemInv'
  BY <1>4, ReplayStep, ReadStep
<1>5. ASSUME NEW c \in MemClients, MemFail(c) \/ MemCrash(c)
      PROVE  MemInv'
  BY <1>5, FailingStep, CrashStep
<1>6. CASE MemTick \/ UNCHANGED memVars
  BY <1>6, TickStep DEF MemTick, memVars
<1> QED
  BY <1>1, <1>2, <1>3, <1>4, <1>5, <1>6 DEF MemNext

LEMMA MemInvariant == MemSpec => []MemInv
<1>1. MemInit => MemInv
  BY MemInitially
<1>2. MemInv /\ [MemNext]_memVars => MemInv'
  BY MemInvStep
<1> QED
  BY <1>1, <1>2, PTL DEF MemSpec

\* Whatever dies, fails or is collected, and whatever requests a caller reuses:
\* a request is not run twice while it is remembered, every claim that others
\* see holds the result of the call that made it, and an answer is the result
\* of the same command under the same request id (runIdempotent,
\* completeIdempotent, replayIdempotent).
ClaimsAreHonest ==
    /\ \A r \in RequestIDs : memRuns[r] <= 1
    /\ \A r \in DOMAIN memRequests : \E a \in MemArgs :
          a.request = r /\ memRequests[r].command = a.op /\ memRequests[r].result = ResultOf(a)
    /\ \A c \in MemClients :
          LET call == memCall[c] IN
          call.pc = "idle" /\ call # NoCall /\ call.ok /\ call.args.op # "recall" =>
              \E b \in MemArgs : SameRequest(call.args, b) /\ call.result = ResultOf(b)

\* Retries, collections, failures and deaths of any number of clients keep the
\* claims true.
THEOREM ClaimsStayHonest == MemSpec => []ClaimsAreHonest
<1>1. MemInv => ClaimsAreHonest
  <2> SUFFICES ASSUME MemInv
               PROVE  ClaimsAreHonest
    OBVIOUS
  <2>1. \A r \in RequestIDs : memRuns[r] <= 1
    BY DEF MemInv, RunsInv
  <2>2. \A r \in DOMAIN memRequests : \E a \in MemArgs :
           a.request = r /\ memRequests[r].command = a.op /\ memRequests[r].result = ResultOf(a)
    BY DEF MemInv, ClaimsInv
  <2>3. \A c \in MemClients : AnswerOK(memCall[c])
    BY DEF MemInv, CallsInv
  <2> QED
    BY <2>1, <2>2, <2>3 DEF ClaimsAreHonest, AnswerOK
<1> QED
  BY <1>1, MemInvariant, PTL

\* The premise callers keep: they send one request under one id, though they
\* may use the id again for another command, as "gc" beside "save".
OneKeyPerRequest ==
    \A a, b \in MemArgs : a.request = b.request /\ a.request # NoID /\ a.op = b.op => a.key = b.key

LEMMA HonestAnswers == OneKeyPerRequest /\ MemInv => RequestsRunOnce
<1> SUFFICES ASSUME OneKeyPerRequest, MemInv
             PROVE  RequestsRunOnce
  OBVIOUS
<1>1. MemTypeOK
  BY DEF MemInv, CallsInv, TableInv, ClaimsInv, TxInv, MemTypeOK, AllSlots
<1>2. \A r \in RequestIDs : memRuns[r] <= 1
  BY DEF MemInv, RunsInv
<1>3. \A r \in DOMAIN memRequests : memRequests[r].result # <<>>
  <2>1. \A a \in MemArgs : ResultOf(a) # <<>>
    BY DEF ResultOf
  <2> QED
    BY <2>1 DEF MemInv, ClaimsInv
<1>4. ASSUME NEW c \in MemClients, memCall[c].pc = "idle", memCall[c] # NoCall, memCall[c].ok,
             memCall[c].args.op # "recall"
      PROVE  memCall[c].result = ResultOf(memCall[c].args)
  <2>1. AnswerOK(memCall[c])
    BY DEF MemInv, CallsInv
  <2>2. memCall[c].args \in MemArgs
    BY <1>4, <2>1 DEF AnswerOK
  <2>3. PICK b \in MemArgs : SameRequest(memCall[c].args, b) /\ memCall[c].result = ResultOf(b)
    BY <1>4, <2>1 DEF AnswerOK
  <2>4. b.op = memCall[c].args.op /\ b.key = memCall[c].args.key
    BY <2>2, <2>3 DEF SameRequest, OneKeyPerRequest
  <2> QED
    BY <2>3, <2>4 DEF ResultOf
<1> QED
  BY <1>1, <1>2, <1>3, <1>4 DEF RequestsRunOnce

\* Among such callers every answer is the result of the caller's own call.
THEOREM RequestsAreRunOnce == OneKeyPerRequest /\ MemSpec => []RequestsRunOnce
<1>1. CASE OneKeyPerRequest
  <2>1. MemInv => RequestsRunOnce
    BY <1>1, HonestAnswers
  <2> QED
    BY <2>1, MemInvariant, PTL
<1> QED
  BY <1>1
=============================================================================

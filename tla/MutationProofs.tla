--------------------------- MODULE MutationProofs ---------------------------
(***************************************************************************)
(* Theorems about Mutation, for every set of processes, targets, contents  *)
(* and faults and every limit of the history.                              *)
(***************************************************************************)
EXTENDS Mutation, WellFoundedInduction, FiniteSetTheorems, TLAPS

\* Control consistency: which labels a call of each kind can be at, and that
\* `at` points at one of its operations.
CallOK ==
  \A p \in Procs :
    /\ (pc[p] = "idle") <=> (req[p].kind = "none")
    /\ req[p].kind \in {"none", "clear"} => req[p].at = 0
    /\ req[p].kind \in {"mutate", "restore"} => req[p].at \in 1..Len(req[p].ops)
    /\ req[p].kind = "clear" => pc[p] \in {"lock", "clear", "clear rest"}
    /\ pc[p] \in {"clear", "clear rest"} => req[p].kind = "clear"

TypeInv == TypeOK /\ CallOK

\* Eviction only drops entries; what it keeps it keeps as it is.
LEMMA EvictKeeps ==
  ASSUME NEW idx, NEW last
  PROVE  /\ DOMAIN Evict(idx, last) \subseteq DOMAIN idx
         /\ \A i \in DOMAIN Evict(idx, last) : Evict(idx, last)[i] = idx[i]
BY DEF Evict

\* The operation a process works on is one of its request's.
LEMMA CurTyped ==
  ASSUME TypeInv, NEW p \in Procs, pc[p] # "idle", req[p].kind # "clear"
  PROVE  Cur(p) \in Op
<1>1. req[p] \in Request
  BY DEF TypeInv, TypeOK
<1>2. req[p].at \in 1..Len(req[p].ops) /\ req[p].ops \in Seq(Op)
  BY <1>1 DEF TypeInv, CallOK, Request
<1> QED
  BY <1>2 DEF Cur

LEMMA CallTyped ==
  ASSUME NEW kind \in {"none", "mutate", "restore", "clear"}, NEW s \in Scopes,
         NEW ops \in Seq(Op), NEW at \in Nat, NEW id \in Nat
  PROVE  Call(kind, s, ops, at, id) \in Request
BY DEF Call, Request, States

LEMMA NoRequestTyped == NoRequest \in Request /\ NoRequest.kind = "none" /\ NoRequest.at = 0
<1>1. <<>> \in Seq(Op) /\ (CHOOSE s \in Scopes : TRUE) \in Scopes
  BY NamesAssumption
<1> QED
  BY <1>1, CallTyped DEF NoRequest, Call

\* A call that ends leaves locks, control and request well typed.
LEMMA ReturnTyped ==
  ASSUME TypeInv, NEW p \in Procs, Return(p)
  PROVE  /\ mutOwner' \in [Scopes -> Procs \cup {Nobody}]
         /\ tgtOwner' \in [Scopes \X Targets -> Procs \cup {Nobody}]
         /\ histOwner' \in Procs \cup {Nobody}
         /\ pc' \in [Procs -> Labels]
         /\ req' \in [Procs -> Request]
         /\ late' \in [Procs -> BOOLEAN]
         /\ CallOK'
<1>1. /\ mutOwner' \in [Scopes -> Procs \cup {Nobody}]
      /\ tgtOwner' \in [Scopes \X Targets -> Procs \cup {Nobody}]
      /\ histOwner' \in Procs \cup {Nobody}
  BY DEF Return, DropLocks, TypeInv, TypeOK
<1>2. /\ pc' \in [Procs -> Labels]
      /\ req' \in [Procs -> Request]
      /\ late' \in [Procs -> BOOLEAN]
  BY NoRequestTyped DEF Return, Goto, TypeInv, TypeOK, Labels
<1>3. CallOK'
  BY NoRequestTyped DEF Return, Goto, TypeInv, TypeOK, CallOK
<1> QED
  BY <1>1, <1>2, <1>3

\* Types and control are right at the start ...
THEOREM InitTyped == Init => TypeInv
<1> SUFFICES ASSUME Init PROVE TypeInv
  OBVIOUS
<1>1. TypeOK
  BY NoRequestTyped, NamesAssumption DEF Init, TypeOK, Labels
<1>2. CallOK
  BY NoRequestTyped DEF Init, CallOK
<1> QED
  BY <1>1, <1>2 DEF TypeInv

-----------------------------------------------------------------------------
(* Beginning a call.                                                       *)

LEMMA ToldTyped ==
  ASSUME TypeInv, NEW ops \in OpsOf
  PROVE  Told(ops) \in Seq(Op) /\ 1 \in 1..Len(Told(ops))
<1> DEFINE O == [kind : {"write", "edit", "delete"}, target : Targets, new : Holdings]
<1>1. PICK n \in Nat : n >= 1 /\ ops \in [1..n -> O]
  <2>1. CASE \E o \in O : ops = <<o>>
    <3>1. PICK o \in O : ops = <<o>>
      BY <2>1
    <3>2. ops \in [1..1 -> O]
      BY <3>1
    <3> QED
      BY <3>2
  <2>2. CASE \E n \in 2..MaxOps : ops \in [1..n -> O]
    BY <2>2, LimitsAssumption
  <2>3. \/ \E o \in O : ops = <<o>>
        \/ \E n \in 2..MaxOps : ops \in [1..n -> O]
    BY DEF OpsOf
  <2> QED
    BY <2>1, <2>2, <2>3
<1>2. Told(ops) \in [1..n -> Op]
  <2>1. DOMAIN ops = 1..n
    BY <1>1
  <2>2. ASSUME NEW k \in 1..n PROVE Told(ops)[k] \in Op
    <3>1. ops[k] \in O
      BY <1>1
    <3>2. file[ops[k].target] \in Holdings
      BY <3>1 DEF TypeInv, TypeOK
    <3> QED
      BY <2>1, <3>1, <3>2 DEF Op, Told
  <2> QED
    BY <2>1, <2>2 DEF Told
<1> QED
  BY <1>1, <1>2

\* What beginning a call does to the process that begins it.
LEMMA BeginTyped ==
  ASSUME TypeInv, NEW p \in Procs, pc[p] = "idle",
         NEW kind \in {"mutate", "restore", "clear"}, NEW s \in Scopes,
         NEW ops \in Seq(Op), NEW at \in Nat, NEW id \in Nat,
         IF kind = "clear" THEN at = 0 ELSE at \in 1..Len(ops),
         req' = [req EXCEPT ![p] = Call(kind, s, ops, at, id)],
         Goto(p, "lock")
  PROVE  req' \in [Procs -> Request] /\ pc' \in [Procs -> Labels] /\ CallOK'
<1> DEFINE r == Call(kind, s, ops, at, id)
<1>1. r \in Request /\ r.kind = kind /\ r.at = at /\ r.ops = ops
  BY CallTyped DEF Call
<1> HIDE DEF r
<1>2. req' = [req EXCEPT ![p] = r]
  BY DEF r
<1>3. req' \in [Procs -> Request] /\ pc' \in [Procs -> Labels]
  BY <1>1, <1>2 DEF Goto, TypeInv, TypeOK, Labels
<1>4. \A q \in Procs : IF q = p THEN pc'[q] = "lock" /\ req'[q] = r
                        ELSE pc'[q] = pc[q] /\ req'[q] = req[q]
  BY <1>2 DEF Goto, TypeInv, TypeOK
<1>5. CallOK'
  BY <1>1, <1>4 DEF TypeInv, CallOK
<1> QED
  BY <1>3, <1>5

LEMMA BeginMutationTyped ==
  ASSUME TypeInv, NEW p \in Procs, BeginMutation(p)
  PROVE  TypeInv'
<1>1. PICK s \in Scopes, ops \in OpsOf :
        req' = [req EXCEPT ![p] = Call("mutate", s, Told(ops), 1, 0)]
  BY DEF BeginMutation
<1>2. Told(ops) \in Seq(Op) /\ 1 \in 1..Len(Told(ops))
  BY ToldTyped
<1>3. req' \in [Procs -> Request] /\ pc' \in [Procs -> Labels] /\ CallOK'
  BY <1>1, <1>2, BeginTyped DEF BeginMutation
<1> QED
  BY <1>3 DEF BeginMutation, disk, locks, ghost, past, TypeInv, TypeOK

LEMMA ResolveTyped ==
  ASSUME NEW e \in Entry, NEW u
  PROVE  Resolve(e, u) \in States
BY DEF Resolve, Entry, States

LEMMA ReconcileTyped ==
  ASSUME TypeInv, NEW u
  PROVE  /\ DOMAIN Reconcile(u) = DOMAIN index
         /\ \A i \in DOMAIN Reconcile(u) : Reconcile(u)[i] \in Entry
<1>1. DOMAIN Reconcile(u) = DOMAIN index
  BY DEF Reconcile
<1>2. ASSUME NEW i \in DOMAIN index PROVE Reconcile(u)[i] \in Entry
  <2>1. index[i] \in Entry /\ Resolve(index[i], u) \in States
    BY ResolveTyped DEF TypeInv, TypeOK
  <2>2. Reconcile(u)[i] = [index[i] EXCEPT !.state = Resolve(index[i], u)]
    BY DEF Reconcile
  <2> QED
    BY <2>1, <2>2 DEF Entry
<1> QED
  BY <1>1, <1>2

LEMMA BeginRestoreTyped ==
  ASSUME TypeInv, NEW p \in Procs, BeginRestore(p)
  PROVE  TypeInv'
<1>1. PICK u \in Unreadable : index' = Reconcile(u)
  BY DEF BeginRestore, Saved
<1>2. PICK i \in DOMAIN index, s \in Scopes :
        req' = [req EXCEPT ![p] = Call("restore", s, <<Restoring(index'[i])>>, 1, i)]
  BY DEF BeginRestore
<1>3. DOMAIN index' = DOMAIN index /\ \A j \in DOMAIN index' : index'[j] \in Entry
  BY <1>1, ReconcileTyped
<1>4. i \in Nat /\ index'[i] \in Entry
  BY <1>3 DEF TypeInv, TypeOK
<1>5. Restoring(index'[i]) \in Op
  BY <1>4 DEF Restoring, Entry, Op, TypeInv, TypeOK
<1>6. <<Restoring(index'[i])>> \in Seq(Op) /\ 1 \in 1..Len(<<Restoring(index'[i])>>)
  BY <1>5
<1>7. req' \in [Procs -> Request] /\ pc' \in [Procs -> Labels] /\ CallOK'
  BY <1>2, <1>4, <1>6, BeginTyped DEF BeginRestore
<1> QED
  BY <1>3, <1>7 DEF BeginRestore, locks, ghost, past, TypeInv, TypeOK

LEMMA BeginClearTyped ==
  ASSUME TypeInv, NEW p \in Procs, BeginClear(p)
  PROVE  TypeInv'
<1>1. PICK s \in Scopes : req' = [req EXCEPT ![p] = Call("clear", s, <<>>, 0, 0)]
  BY DEF BeginClear
<1>2. <<>> \in Seq(Op)
  OBVIOUS
<1>3. req' \in [Procs -> Request] /\ pc' \in [Procs -> Labels] /\ CallOK'
  BY <1>1, <1>2, BeginTyped DEF BeginClear
<1> QED
  BY <1>3 DEF BeginClear, disk, locks, ghost, past, TypeInv, TypeOK

-----------------------------------------------------------------------------
(* The steps of a call.                                                    *)

\* A step that only moves the control of a call under way.
LEMMA GotoTyped ==
  ASSUME TypeInv, NEW p \in Procs, NEW label \in Labels, Goto(p, label),
         pc[p] # "idle", label # "idle", UNCHANGED req,
         IF req[p].kind = "clear" THEN label \in {"clear", "clear rest"}
                                  ELSE label \notin {"clear", "clear rest"}
  PROVE  pc' \in [Procs -> Labels] /\ CallOK'
BY DEF Goto, TypeInv, TypeOK, CallOK

\* A step that moves the control and changes other fields than the kind, the
\* operations and the position.
LEMMA ChangeTyped ==
  ASSUME TypeInv, NEW p \in Procs, NEW label \in Labels, Goto(p, label),
         pc[p] # "idle", label # "idle", req[p].kind # "clear",
         label \notin {"clear", "clear rest"},
         NEW r \in Request, req' = [req EXCEPT ![p] = r],
         r.kind = req[p].kind, r.ops = req[p].ops, r.at = req[p].at
  PROVE  req' \in [Procs -> Request] /\ pc' \in [Procs -> Labels] /\ CallOK'
BY DEF Goto, TypeInv, TypeOK, CallOK

LEMMA DecideTyped ==
  ASSUME TypeInv, NEW p \in Procs, NEW v \in States, Decide(p, v),
         pc[p] # "idle", req[p].kind # "clear"
  PROVE  req' \in [Procs -> Request] /\ pc' \in [Procs -> Labels] /\ CallOK'
<1>1. req[p] \in Request
  BY DEF TypeInv, TypeOK
<1>2. [req[p] EXCEPT !.verdict = v] \in Request
  BY <1>1 DEF Request
<1>3. req' = [req EXCEPT ![p] = [req[p] EXCEPT !.verdict = v]]
  BY DEF Decide
<1>4. Goto(p, "mark") /\ "mark" \in Labels
  BY DEF Decide, Labels
<1>5. LET r == [req[p] EXCEPT !.verdict = v]
      IN  r.kind = req[p].kind /\ r.ops = req[p].ops /\ r.at = req[p].at
  BY <1>1 DEF Request
<1> QED
  BY <1>2, <1>3, <1>4, <1>5, ChangeTyped

\* Control: a process is not a clear once it is past the mutation lock.
LEMMA NotClear ==
  ASSUME TypeInv, NEW p \in Procs, pc[p] \notin {"idle", "lock", "clear", "clear rest"}
  PROVE  pc[p] # "idle" /\ req[p].kind # "clear" /\ Cur(p) \in Op
BY CurTyped DEF TypeInv, CallOK

LEMMA LockTyped ==
  ASSUME TypeInv, NEW p \in Procs,
         LockMutation(p) \/ LockTargets(p) \/ Preflight(p) \/ Refuse(p)
  PROVE  TypeInv'
<1>1. CASE LockMutation(p)
  <2>1. req[p] \in Request
    BY DEF TypeInv, TypeOK
  <2>2. pc' \in [Procs -> Labels] /\ CallOK'
    BY <1>1, GotoTyped DEF LockMutation, Labels
  <2>3. mutOwner' \in [Scopes -> Procs \cup {Nobody}]
    BY <1>1, <2>1 DEF LockMutation, Request, TypeInv, TypeOK
  <2> QED
    BY <1>1, <2>2, <2>3 DEF LockMutation, disk, ghost, past, TypeInv, TypeOK
<1>2. CASE LockTargets(p)
  <2>1. pc' \in [Procs -> Labels] /\ CallOK'
    BY <1>2, GotoTyped, NotClear DEF LockTargets, Labels
  <2>2. tgtOwner' \in [Scopes \X Targets -> Procs \cup {Nobody}]
    BY <1>2 DEF LockTargets, TypeInv, TypeOK
  <2> QED
    BY <1>2, <2>1, <2>2 DEF LockTargets, disk, ghost, past, TypeInv, TypeOK
<1>3. CASE Preflight(p)
  <2>1. pc' \in [Procs -> Labels] /\ CallOK'
    BY <1>3, GotoTyped, NotClear DEF Preflight, Labels
  <2> QED
    BY <1>3, <2>1 DEF Preflight, disk, locks, ghost, past, TypeInv, TypeOK
<1>4. CASE Refuse(p)
  BY <1>4, ReturnTyped DEF past, Refuse, disk, TypeInv, TypeOK
<1> QED
  BY <1>1, <1>2, <1>3, <1>4

LEMMA ReverifyTyped ==
  ASSUME TypeInv, NEW p \in Procs, Reverify(p) \/ ReverifyFails(p) \/ WriteBlobFails(p)
  PROVE  TypeInv'
<1>1. CASE Reverify(p)
  <2>1. pc' \in [Procs -> Labels] /\ CallOK'
    BY <1>1, GotoTyped, NotClear DEF Reverify, Labels
  <2> QED
    BY <1>1, <2>1 DEF Reverify, disk, locks, ghost, past, TypeInv, TypeOK
<1>2. CASE ReverifyFails(p)
  BY <1>2, ReturnTyped DEF past, ReverifyFails, disk, TypeInv, TypeOK
<1>3. CASE WriteBlobFails(p)
  <2>1. Cur(p) \in Op /\ nextId \in Nat \ {0}
    BY <1>3, NotClear DEF WriteBlobFails, TypeInv, TypeOK
  <2>2. DOMAIN blobs' \subseteq Nat /\ \A i \in DOMAIN blobs' : blobs'[i] \in Contents
    BY <1>3, <2>1 DEF WriteBlobFails, PutBlob, Op, Holdings, TypeInv, TypeOK
  <2>3. nextId' \in Nat \ {0}
    BY <1>3, <2>1 DEF WriteBlobFails
  <2> QED
    BY <1>3, <2>2, <2>3, ReturnTyped DEF WriteBlobFails, TypeInv, TypeOK
<1> QED
  BY <1>1, <1>2, <1>3

LEMMA WriteBlobTyped ==
  ASSUME TypeInv, NEW p \in Procs, WriteBlob(p)
  PROVE  TypeInv'
<1>1. pc[p] # "idle" /\ req[p].kind # "clear" /\ Cur(p) \in Op
  BY NotClear DEF past, WriteBlob, PutBlob
<1>2. req[p] \in Request /\ nextId \in Nat
  BY DEF TypeInv, TypeOK
<1>3. [req[p] EXCEPT !.id = nextId] \in Request
  BY <1>2 DEF Request
<1>4. req' = [req EXCEPT ![p] = [req[p] EXCEPT !.id = nextId]]
  BY DEF WriteBlob, PutBlob
<1>5. LET r == [req[p] EXCEPT !.id = nextId]
      IN  r.kind = req[p].kind /\ r.ops = req[p].ops /\ r.at = req[p].at
  BY <1>2 DEF Request
<1>6. req' \in [Procs -> Request] /\ pc' \in [Procs -> Labels] /\ CallOK'
  BY <1>1, <1>3, <1>4, <1>5, ChangeTyped DEF WriteBlob, PutBlob, Labels
<1>7. DOMAIN blobs' \subseteq Nat /\ \A i \in DOMAIN blobs' : blobs'[i] \in Contents
  BY <1>1, <1>2 DEF WriteBlob, PutBlob, Op, Holdings, TypeInv, TypeOK
<1>8. nextId' \in Nat \ {0} /\ histOwner' \in Procs \cup {Nobody}
  BY DEF WriteBlob, PutBlob, TypeInv, TypeOK
<1>9. UNCHANGED <<file, index, mutOwner, tgtOwner, calls, edits, applied, late>>
  BY DEF WriteBlob, PutBlob, ghost, past
<1> QED
  BY <1>6, <1>7, <1>8, <1>9 DEF TypeInv, TypeOK

LEMMA IndexTyped ==
  ASSUME TypeInv, NEW p \in Procs, pc[p] = "index",
         NEW idx, idx = Evict(Appended(p), req[p].id)
  PROVE  DOMAIN idx \subseteq Nat /\ \A i \in DOMAIN idx : idx[i] \in Entry
<1>1. Cur(p) \in Op /\ req[p].id \in Nat
  BY NotClear DEF TypeInv, TypeOK, Request
<1>2. NewEntry(p) \in Entry
  BY <1>1 DEF NewEntry, Op, Entry, States
<1>3. DOMAIN Appended(p) \subseteq Nat /\ \A i \in DOMAIN Appended(p) : Appended(p)[i] \in Entry
  BY <1>1, <1>2 DEF Appended, TypeInv, TypeOK
<1> QED
  BY <1>3, EvictKeeps

LEMMA SaveIndexTyped ==
  ASSUME TypeInv, NEW p \in Procs, SaveIndex(p) \/ SaveIndexFails(p) \/ RemoveEvicted(p)
  PROVE  TypeInv'
<1> DEFINE kept == Evict(Appended(p), req[p].id)
<1>1. req[p] \in Request
  BY DEF TypeInv, TypeOK
<1>2. pc[p] = "index" => DOMAIN kept \subseteq Nat /\ \A i \in DOMAIN kept : kept[i] \in Entry
  BY IndexTyped
<1>3. DOMAIN Appended(p) \subseteq Nat
  BY <1>1 DEF Appended, Request, TypeInv, TypeOK
<1>4. CASE SaveIndex(p)
  <2> DEFINE gone == DOMAIN Appended(p) \ DOMAIN kept
             r == [req[p] EXCEPT !.drop = gone]
  <2>1. index' = kept /\ req' = [req EXCEPT ![p] = r]
    BY <1>4 DEF SaveIndex, Saved
  <2>2. gone \subseteq Nat
    BY <1>3
  <2> HIDE DEF gone
  <2>3. r \in Request /\ r.kind = req[p].kind /\ r.ops = req[p].ops /\ r.at = req[p].at
    BY <1>1, <2>2 DEF Request
  <2> HIDE DEF r, kept
  <2>4. req' \in [Procs -> Request] /\ pc' \in [Procs -> Labels] /\ CallOK'
    BY <1>4, <2>1, <2>3, NotClear, ChangeTyped DEF SaveIndex, Labels
  <2> QED
    BY <1>2, <1>4, <2>1, <2>4 DEF SaveIndex, locks, ghost, past, TypeInv, TypeOK
<1>5. CASE SaveIndexFails(p)
  <2>1. DOMAIN index' \subseteq Nat /\ \A i \in DOMAIN index' : index'[i] \in Entry
    BY <1>2, <1>5 DEF SaveIndexFails, SaveFails, TypeInv, TypeOK
  <2>2. DOMAIN blobs' \subseteq Nat /\ \A i \in DOMAIN blobs' : blobs'[i] \in Contents
    BY <1>5 DEF SaveIndexFails, Without, TypeInv, TypeOK
  <2> QED
    BY <1>5, <2>1, <2>2, ReturnTyped DEF SaveIndexFails, TypeInv, TypeOK
<1>6. CASE RemoveEvicted(p)
  <2> DEFINE r == [req[p] EXCEPT !.drop = {}]
  <2>1. req' = [req EXCEPT ![p] = r]
    BY <1>6 DEF RemoveEvicted
  <2>2. r \in Request /\ r.kind = req[p].kind /\ r.ops = req[p].ops /\ r.at = req[p].at
    BY <1>1 DEF Request
  <2> HIDE DEF r
  <2>3. req' \in [Procs -> Request] /\ pc' \in [Procs -> Labels] /\ CallOK'
    BY <1>6, <2>1, <2>2, NotClear, ChangeTyped DEF RemoveEvicted, Labels
  <2>4. DOMAIN blobs' \subseteq Nat /\ \A i \in DOMAIN blobs' : blobs'[i] \in Contents
    BY <1>6 DEF RemoveEvicted, Without, TypeInv, TypeOK
  <2> QED
    BY <1>6, <2>3, <2>4 DEF RemoveEvicted, ghost, past, TypeInv, TypeOK
<1> QED
  BY <1>4, <1>5, <1>6

LEMMA ReplaceTyped ==
  ASSUME TypeInv, NEW p \in Procs, Stage(p) \/ Rename(p) \/ Unlink(p)
  PROVE  TypeInv'
<1>1. pc[p] # "idle" /\ req[p].kind # "clear" /\ Cur(p) \in Op /\ req[p].id \in Nat
  BY NotClear DEF Stage, Rename, Unlink, TypeInv, TypeOK, Request
<1>2. Replaced(p) => file' \in [Targets -> Holdings] /\ applied' \subseteq Nat
  BY <1>1 DEF Replaced, Op, TypeInv, TypeOK
<1>3. CASE Stage(p)
  <2>1. req' \in [Procs -> Request] /\ pc' \in [Procs -> Labels] /\ CallOK'
    <3>1. CASE Goto(p, "replace") /\ UNCHANGED req
      BY <1>1, <3>1, GotoTyped DEF Labels, TypeInv, TypeOK
    <3>2. CASE Decide(p, "aborted")
      BY <1>1, <3>2, DecideTyped DEF States
    <3> QED
      BY <1>3, <3>1, <3>2 DEF Stage
  <2> QED
    BY <1>3, <2>1 DEF Stage, disk, locks, ghost, past, TypeInv, TypeOK
<1>4. CASE Rename(p) \/ Unlink(p)
  <2>1. \E v \in States : Decide(p, v)
    BY <1>4 DEF Rename, Unlink, States
  <2>2. req' \in [Procs -> Request] /\ pc' \in [Procs -> Labels] /\ CallOK'
    BY <1>1, <2>1, DecideTyped
  <2>3. file' \in [Targets -> Holdings] /\ applied' \subseteq Nat
    BY <1>2, <1>4 DEF Rename, Unlink, TypeInv, TypeOK
  <2> QED
    BY <1>4, <2>2, <2>3 DEF Rename, Unlink, locks, TypeInv, TypeOK
<1> QED
  BY <1>3, <1>4

LEMMA MarkedTyped ==
  ASSUME TypeInv, NEW i \in DOMAIN index, NEW v \in States
  PROVE  /\ DOMAIN Marked(i, v) = DOMAIN index
         /\ \A j \in DOMAIN index : Marked(i, v)[j] \in Entry
<1>1. index[i] \in Entry
  BY DEF TypeInv, TypeOK
<1>2. [index[i] EXCEPT !.state = v] \in Entry
  BY <1>1 DEF Entry
<1> DEFINE e == [index[i] EXCEPT !.state = v]
<1>3. Marked(i, v) = [index EXCEPT ![i] = e]
  BY DEF Marked
<1> HIDE DEF e
<1> QED
  BY <1>2, <1>3 DEF e, TypeInv, TypeOK

LEMMA ProceedTyped ==
  ASSUME TypeInv, NEW p \in Procs, pc[p] = "mark", Proceed(p)
  PROVE  /\ mutOwner' \in [Scopes -> Procs \cup {Nobody}]
         /\ tgtOwner' \in [Scopes \X Targets -> Procs \cup {Nobody}]
         /\ histOwner' \in Procs \cup {Nobody}
         /\ pc' \in [Procs -> Labels]
         /\ req' \in [Procs -> Request]
         /\ late' \in [Procs -> BOOLEAN]
         /\ CallOK'
<1>1. req[p] \in Request /\ req[p].kind \in {"mutate", "restore"}
  BY DEF TypeInv, TypeOK, CallOK, Request
<1>2. req[p].at \in 1..Len(req[p].ops) /\ req[p].ops \in Seq(Op) /\ req[p].scope \in Scopes
      /\ req[p].done \subseteq Nat /\ req[p].id \in Nat
  BY <1>1 DEF TypeInv, CallOK, Request
<1>3. CASE req[p].at < Len(req[p].ops)
  <2> DEFINE c == Call("mutate", req[p].scope, req[p].ops, req[p].at + 1, 0)
             ids == req[p].done \cup {req[p].id}
             r == [c EXCEPT !.done = ids]
  <2>1. c \in Request /\ c.kind = "mutate" /\ c.at = req[p].at + 1 /\ c.ops = req[p].ops
    BY <1>2, CallTyped DEF Call
  <2>2. ids \subseteq Nat
    BY <1>2
  <2> HIDE DEF c, ids
  <2>3. r \in Request /\ r.kind = "mutate" /\ r.at = req[p].at + 1 /\ r.ops = req[p].ops
    BY <2>1, <2>2 DEF Request
  <2>4. /\ req' = [req EXCEPT ![p] = r] /\ Goto(p, "reverify")
        /\ UNCHANGED locks /\ late' = [late EXCEPT ![p] = FALSE]
    BY <1>3 DEF Proceed, c, ids
  <2>5. r.at \in 1..Len(r.ops)
    BY <1>2, <1>3, <2>3
  <2> HIDE DEF r
  <2>6. req' \in [Procs -> Request] /\ pc' \in [Procs -> Labels]
    BY <2>3, <2>4 DEF Goto, Labels, TypeInv, TypeOK
  <2>7. CallOK'
    BY <2>3, <2>4, <2>5 DEF Goto, TypeInv, TypeOK, CallOK
  <2> QED
    BY <2>4, <2>6, <2>7 DEF locks, TypeInv, TypeOK
<1>4. CASE ~(req[p].at < Len(req[p].ops))
  BY <1>4, ReturnTyped DEF Proceed
<1> QED
  BY <1>3, <1>4

LEMMA MarkTyped ==
  ASSUME TypeInv, NEW p \in Procs, MarkCommitted(p) \/ MarkFailed(p)
  PROVE  TypeInv'
<1>1. req[p] \in Request /\ pc[p] = "mark"
  BY DEF MarkCommitted, MarkFailed, TypeInv, TypeOK
<1>2. DOMAIN index' \subseteq Nat /\ \A i \in DOMAIN index' : index'[i] \in Entry
  <2>1. UNCHANGED index \/ \E v \in States : req[p].id \in DOMAIN index /\ index' = Marked(req[p].id, v)
    BY <1>1 DEF MarkCommitted, MarkFailed, Saved, SaveFails, Request, States
  <2> QED
    BY <2>1, MarkedTyped DEF TypeInv, TypeOK
<1>3. CASE MarkCommitted(p) /\ Proceed(p)
  BY <1>1, <1>2, <1>3, ProceedTyped DEF past, MarkCommitted, TypeInv, TypeOK
<1>4. CASE MarkCommitted(p) /\ ~Proceed(p)
  <2> DEFINE r == [req[p] EXCEPT !.verdict = "uncertain"]
  <2>1. req' = [req EXCEPT ![p] = r] /\ UNCHANGED <<pc, locks, late>>
    BY <1>4 DEF MarkCommitted
  <2>2. r \in Request /\ r.kind = req[p].kind /\ r.at = req[p].at /\ r.ops = req[p].ops
    BY <1>1 DEF Request, States
  <2> HIDE DEF r
  <2>3. req' \in [Procs -> Request] /\ CallOK'
    BY <2>1, <2>2 DEF TypeInv, TypeOK, CallOK
  <2> QED
    BY <1>2, <1>4, <2>1, <2>3 DEF past, MarkCommitted, locks, TypeInv, TypeOK
<1>5. CASE MarkFailed(p)
  BY <1>2, <1>5, ReturnTyped DEF MarkFailed, TypeInv, TypeOK
<1> QED
  BY <1>3, <1>4, <1>5

LEMMA RestoreTyped ==
  ASSUME TypeInv, NEW p \in Procs, ReadBlob(p) \/ Recheck(p) \/ PutBack(p)
  PROVE  TypeInv'
<1>1. pc[p] # "idle" /\ req[p].kind # "clear" /\ Cur(p) \in Op
  BY NotClear DEF ReadBlob, Recheck, PutBack
<1>2. CASE ReadBlob(p)
  <2>1. CASE Return(p)
    BY <1>2, <2>1, ReturnTyped DEF past, ReadBlob, disk, TypeInv, TypeOK
  <2>2. CASE Goto(p, "recheck") /\ UNCHANGED <<locks, req, late>>
    BY <1>1, <1>2, <2>2, GotoTyped DEF past, ReadBlob, disk, locks, Labels, TypeInv, TypeOK
  <2> QED
    BY <1>2, <2>1, <2>2 DEF ReadBlob
<1>3. CASE Recheck(p)
  <2>1. CASE Return(p)
    BY <1>3, <2>1, ReturnTyped DEF past, Recheck, disk, TypeInv, TypeOK
  <2>2. CASE Goto(p, "put back") /\ UNCHANGED <<locks, req, late>>
    BY <1>1, <1>3, <2>2, GotoTyped DEF past, Recheck, disk, locks, Labels, TypeInv, TypeOK
  <2> QED
    BY <1>3, <2>1, <2>2 DEF Recheck
<1>4. CASE PutBack(p)
  <2>1. file' \in [Targets -> Holdings]
    BY <1>1, <1>4 DEF PutBack, Op, TypeInv, TypeOK
  <2>2. CASE Return(p)
    BY <1>4, <2>1, <2>2, ReturnTyped DEF past, PutBack, TypeInv, TypeOK
  <2>3. CASE Decide(p, "uncertain") /\ UNCHANGED <<locks, late>>
    BY <1>1, <1>4, <2>1, <2>3, DecideTyped DEF past, PutBack, locks, States, TypeInv, TypeOK
  <2> QED
    BY <1>4, <2>2, <2>3 DEF PutBack
<1> QED
  BY <1>2, <1>3, <1>4

LEMMA ClearTyped ==
  ASSUME TypeInv, NEW p \in Procs, ClearFirst(p) \/ ClearRest(p)
  PROVE  TypeInv'
<1>1. /\ DOMAIN index' \subseteq Nat /\ \A i \in DOMAIN index' : index'[i] \in Entry
      /\ DOMAIN blobs' \subseteq Nat /\ \A i \in DOMAIN blobs' : blobs'[i] \in Contents
  BY DEF ClearFirst, ClearRest, Without, TypeInv, TypeOK
<1>2. CASE ClearFirst(p)
  <2>1. pc' \in [Procs -> Labels] /\ CallOK'
    BY <1>2, GotoTyped DEF ClearFirst, Labels, TypeInv, CallOK
  <2> QED
    BY <1>1, <1>2, <2>1 DEF ClearFirst, ghost, past, TypeInv, TypeOK
<1>3. CASE ClearRest(p)
  BY <1>1, <1>3, ReturnTyped DEF past, ClearRest, TypeInv, TypeOK
<1> QED
  BY <1>2, <1>3
-----------------------------------------------------------------------------
(* The environment, and every step together.                               *)

LEMMA EnvironmentTyped ==
  ASSUME TypeInv, List \/ (\E p \in Procs : Crash(p)) \/ (\E t \in Targets : Edit(t))
  PROVE  TypeInv'
<1>1. CASE List
  <2>1. UNCHANGED index \/ \E u : index' = Reconcile(u)
    BY <1>1 DEF List, Saved, SaveFails
  <2>2. DOMAIN index' \subseteq Nat /\ \A i \in DOMAIN index' : index'[i] \in Entry
    BY <2>1, ReconcileTyped DEF TypeInv, TypeOK
  <2> QED
    BY <1>1, <2>2 DEF List, locks, ghost, past, TypeInv, TypeOK, CallOK
<1>2. CASE \E p \in Procs : Crash(p)
  BY <1>2, ReturnTyped DEF Crash, disk, TypeInv, TypeOK
<1>3. ASSUME NEW t \in Targets, Edit(t) PROVE TypeInv'
  <2>1. file' \in [Targets -> Holdings] /\ edits' \in Nat
    BY <1>3 DEF Edit, TypeInv, TypeOK
  <2>2. late' \in [Procs -> BOOLEAN]
    BY <1>3 DEF Edit, TypeInv, TypeOK
  <2> QED
    BY <1>3, <2>1, <2>2 DEF past, Edit, locks, TypeInv, TypeOK, CallOK
<1> QED
  BY <1>1, <1>2, <1>3

\* ... and every step of every process and of the environment keeps them.
THEOREM StepTyped == TypeInv /\ [Next]_vars => TypeInv'
<1> SUFFICES ASSUME TypeInv, [Next]_vars PROVE TypeInv'
  OBVIOUS
<1>1. CASE UNCHANGED vars
  BY <1>1 DEF vars, disk, locks, ghost, past, TypeInv, TypeOK, CallOK
<1>2. ASSUME NEW p \in Procs, Begin(p) PROVE TypeInv'
  BY <1>2, BeginMutationTyped, BeginRestoreTyped, BeginClearTyped DEF Begin
<1>3. ASSUME NEW p \in Procs, Step(p) PROVE TypeInv'
  BY <1>3, LockTyped, ReverifyTyped, WriteBlobTyped, SaveIndexTyped, ReplaceTyped,
     MarkTyped, RestoreTyped, ClearTyped DEF Step
<1> QED
  BY <1>1, <1>2, <1>3, EnvironmentTyped DEF Next

\* Type correctness: files, history, locks and calls keep their types, for
\* every number of processes, files and contents.
THEOREM TypeCorrect == Spec => []TypeOK
<1>1. TypeInv => TypeOK
  BY DEF TypeInv
<1> QED
  BY <1>1, InitTyped, StepTyped, PTL DEF Spec

-----------------------------------------------------------------------------
(* Mutual exclusion of the mutating calls, and what it protects.           *)

\* A call past the mutation lock owns the lock of its engine.
Inside(p) == pc[p] \notin {"idle", "lock"}

LockInv == \A p \in Procs : Inside(p) => mutOwner[req[p].scope] = p

\* The inductive form of ReplacesWhatItChecked: it holds from the last
\* comparison, which for a delete is before its snapshot and for a restore of
\* an absent file is the preflight.
CheckedInv ==
  \A p \in Procs :
    LastCompared(p) /\ ~late[p] => file[Cur(p).target] = Cur(p).want

LEMMA PositionInSequence ==
  ASSUME NEW S, NEW s \in Seq(S), NEW n \in 1..Len(s)
  PROVE  n \in DOMAIN s /\ n > 0
<1>1. DOMAIN s = 1..Len(s) /\ Len(s) \in Nat
  OBVIOUS
<1> QED
  BY <1>1

\* A call at an operation points at one of its operations.
LEMMA AtAnOperation ==
  ASSUME TypeInv, NEW p \in Procs, pc[p] \notin {"idle", "lock", "clear", "clear rest"}
  PROVE  req[p].at \in DOMAIN req[p].ops /\ req[p].at > 0
<1>1. req[p].kind \in {"mutate", "restore"}
  BY DEF TypeInv, TypeOK, CallOK, Request
<1>2. req[p].at \in 1..Len(req[p].ops) /\ req[p].ops \in Seq(Op)
  BY <1>1 DEF TypeInv, TypeOK, CallOK, Request
<1> QED
  BY <1>2, PositionInSequence

\* What a step of p leaves to the other processes.
LEMMA OthersKeep ==
  ASSUME TypeInv, NEW p \in Procs, Begin(p) \/ Step(p) \/ Crash(p),
         NEW q \in Procs \ {p}
  PROVE  pc'[q] = pc[q] /\ req'[q] = req[q] /\ late'[q] = late[q]
<1> USE DEF TypeInv, TypeOK, Goto, ghost, past, Return, Decide, locks
<1>1. CASE Begin(p)
  BY <1>1 DEF Begin, BeginMutation, BeginRestore, BeginClear
<1>2. CASE Crash(p)
  BY <1>2 DEF Crash
<1>3. CASE LockMutation(p) \/ LockTargets(p) \/ Preflight(p) \/ Refuse(p)
  BY <1>3 DEF LockMutation, LockTargets, Preflight, Refuse
<1>4. CASE Reverify(p) \/ ReverifyFails(p) \/ WriteBlobFails(p)
  BY <1>4 DEF past, Reverify, ReverifyFails, WriteBlobFails
<1>5. CASE WriteBlob(p)
  BY <1>5 DEF WriteBlob, PutBlob
<1>6. CASE SaveIndex(p) \/ SaveIndexFails(p) \/ RemoveEvicted(p)
  BY <1>6 DEF SaveIndex, SaveIndexFails, RemoveEvicted
<1>7. CASE Stage(p) \/ Rename(p) \/ Unlink(p)
  BY <1>7 DEF Stage, Rename, Unlink
<1>8. CASE MarkCommitted(p) \/ MarkFailed(p)
  BY <1>8 DEF MarkCommitted, MarkFailed, Proceed
<1>9. CASE ReadBlob(p) \/ Recheck(p) \/ PutBack(p)
  BY <1>9 DEF ReadBlob, Recheck, PutBack
<1>10. CASE ClearFirst(p) \/ ClearRest(p)
  BY <1>10 DEF ClearFirst, ClearRest
<1> QED
  BY <1>1, <1>2, <1>3, <1>4, <1>5, <1>6, <1>7, <1>8, <1>9, <1>10 DEF Step

\* Locks only change hands when they are free, and are dropped by their owner.
LEMMA LockKept ==
  ASSUME TypeInv, NEW p \in Procs, Begin(p) \/ Step(p) \/ Crash(p), NEW s \in Scopes
  PROVE  \/ mutOwner'[s] = mutOwner[s]
         \/ mutOwner[s] = Nobody /\ LockMutation(p) /\ mutOwner'[s] = p /\ s = req[p].scope
         \/ mutOwner[s] = p /\ Return(p)
<1>1. ASSUME Return(p) PROVE mutOwner'[s] = mutOwner[s] \/ mutOwner[s] = p
  BY <1>1 DEF Return, DropLocks
<1>2. CASE LockMutation(p)
  BY <1>2 DEF LockMutation, TypeInv, TypeOK
<1>3. CASE UNCHANGED mutOwner
  BY <1>3
<1>4. UNCHANGED mutOwner \/ Return(p) \/ LockMutation(p)
  <2> USE DEF locks
  <2>1. CASE Begin(p)
    BY <2>1 DEF Begin, BeginMutation, BeginRestore, BeginClear
  <2>2. CASE Crash(p)
    BY <2>2 DEF Crash, Return
  <2>3. CASE LockTargets(p) \/ Preflight(p) \/ Refuse(p)
    BY <2>3 DEF LockTargets, Preflight, Refuse
  <2>4. CASE Reverify(p) \/ ReverifyFails(p) \/ WriteBlobFails(p)
    BY <2>4 DEF past, Reverify, ReverifyFails, WriteBlobFails
  <2>5. CASE WriteBlob(p) \/ SaveIndex(p) \/ SaveIndexFails(p) \/ RemoveEvicted(p)
    BY <2>5 DEF WriteBlob, PutBlob, SaveIndex, SaveIndexFails, RemoveEvicted
  <2>6. CASE Stage(p) \/ Rename(p) \/ Unlink(p)
    BY <2>6 DEF Stage, Rename, Unlink
  <2>7. CASE MarkCommitted(p) \/ MarkFailed(p)
    BY <2>7 DEF MarkCommitted, MarkFailed, Proceed
  <2>8. CASE ReadBlob(p) \/ Recheck(p) \/ PutBack(p)
    BY <2>8 DEF ReadBlob, Recheck, PutBack
  <2>9. CASE ClearFirst(p) \/ ClearRest(p)
    BY <2>9 DEF ClearFirst, ClearRest
  <2> QED
    BY <2>1, <2>2, <2>3, <2>4, <2>5, <2>6, <2>7, <2>8, <2>9 DEF Step
<1> QED
  BY <1>1, <1>2, <1>3, <1>4

\* A process that is inside after its step either has just taken the lock or
\* was inside before, in the same engine.
LEMMA StaysInside ==
  ASSUME TypeInv, NEW p \in Procs, Begin(p) \/ Step(p) \/ Crash(p), Inside(p)'
  PROVE  /\ req'[p].scope = req[p].scope
         /\ ~Return(p)
         /\ LockMutation(p) \/ Inside(p)
<1> USE DEF TypeInv, TypeOK, Goto, Decide, Inside
<1>1. ~Return(p)
  BY DEF Return
<1>2. ~Begin(p) /\ ~Crash(p)
  BY <1>1 DEF Begin, BeginMutation, BeginRestore, BeginClear, Crash
<1>3. LockMutation(p) \/ Inside(p)
  BY <1>2 DEF Step, LockTargets, Preflight, Refuse, Reverify, ReverifyFails, WriteBlob,
     WriteBlobFails, PutBlob, SaveIndex, SaveIndexFails, RemoveEvicted, Stage, Rename, Unlink,
     MarkCommitted, MarkFailed, ReadBlob, Recheck, PutBack, ClearFirst, ClearRest
<1>4. req'[p].scope = req[p].scope
  <2> DEFINE r == req[p]
  <2>1. r \in Request
    OBVIOUS
  <2>2. CASE UNCHANGED req
    BY <2>2
  <2>3. ASSUME NEW v, Decide(p, v) PROVE req'[p].scope = req[p].scope
    BY <2>1, <2>3 DEF Request
  <2>4. CASE WriteBlob(p) \/ SaveIndex(p) \/ RemoveEvicted(p)
    BY <2>1, <2>4 DEF WriteBlob, PutBlob, SaveIndex, RemoveEvicted, Request
  <2>5. CASE MarkCommitted(p)
    BY <1>1, <2>1, <2>5 DEF MarkCommitted, Proceed, Call, Request
  <2>6. CASE Stage(p) \/ Rename(p) \/ Unlink(p) \/ PutBack(p)
    BY <1>1, <2>2, <2>3, <2>6 DEF Stage, Rename, Unlink, PutBack
  <2>7. CASE LockMutation(p) \/ LockTargets(p) \/ Preflight(p) \/ Reverify(p)
             \/ ReadBlob(p) \/ Recheck(p) \/ ClearFirst(p)
    BY <1>1, <2>2, <2>7 DEF LockMutation, LockTargets, Preflight, Reverify, ReadBlob,
       Recheck, ClearFirst
  <2>8. CASE Refuse(p) \/ ReverifyFails(p) \/ WriteBlobFails(p) \/ SaveIndexFails(p)
             \/ MarkFailed(p) \/ ClearRest(p)
    BY <1>1, <2>8 DEF Refuse, ReverifyFails, WriteBlobFails, SaveIndexFails, MarkFailed, ClearRest
  <2> QED
    BY <1>2, <2>4, <2>5, <2>6, <2>7, <2>8 DEF past, Step
<1> QED
  BY <1>1, <1>3, <1>4

LEMMA LockStep == TypeInv /\ LockInv /\ [Next]_vars => LockInv'
<1> SUFFICES ASSUME TypeInv, LockInv, [Next]_vars PROVE LockInv'
  OBVIOUS
<1>1. CASE UNCHANGED vars
  BY <1>1 DEF vars, locks, LockInv, Inside
<1>2. CASE List \/ \E t \in Targets : Edit(t)
  BY <1>2 DEF List, Edit, locks, LockInv, Inside
<1>3. ASSUME NEW p \in Procs, Begin(p) \/ Step(p) \/ Crash(p) PROVE LockInv'
  <2> SUFFICES ASSUME NEW q \in Procs, Inside(q)' PROVE (mutOwner[req[q].scope] = q)'
    BY DEF LockInv
  <2>1. CASE q = p
    <3>1. req'[p].scope = req[p].scope /\ ~Return(p) /\ (LockMutation(p) \/ Inside(p))
      BY <1>3, <2>1, StaysInside
    <3>2. req[p].scope \in Scopes
      BY DEF TypeInv, TypeOK, Request
    <3>3. CASE LockMutation(p)
      BY <2>1, <3>1, <3>2, <3>3 DEF LockMutation, TypeInv, TypeOK
    <3>4. CASE Inside(p) /\ ~LockMutation(p)
      BY <1>3, <2>1, <3>1, <3>2, <3>4, LockKept DEF LockInv
    <3> QED
      BY <3>1, <3>3, <3>4
  <2>2. CASE q # p
    <3>1. pc'[q] = pc[q] /\ req'[q] = req[q]
      BY <1>3, <2>2, OthersKeep
    <3>2. mutOwner[req[q].scope] = q /\ req[q].scope \in Scopes
      BY <3>1 DEF Inside, LockInv, TypeInv, TypeOK, Request
    <3> QED
      BY <1>3, <2>2, <3>1, <3>2, LockKept, NamesAssumption
  <2> QED
    BY <2>1, <2>2
<1> QED
  BY <1>1, <1>2, <1>3 DEF Next

\* Only a call that is inside changes a file.
LEMMA FileChangedInside ==
  ASSUME NEW p \in Procs, Begin(p) \/ Step(p) \/ Crash(p)
  PROVE  UNCHANGED file \/ Inside(p)
BY DEF Inside, disk, Begin, BeginMutation, BeginRestore, BeginClear, Crash, Step,
   LockMutation, LockTargets, Preflight, Refuse, Reverify, ReverifyFails, WriteBlob,
   WriteBlobFails, PutBlob, SaveIndex, SaveIndexFails, RemoveEvicted, Stage, Rename, Unlink,
   MarkCommitted, MarkFailed, ReadBlob, Recheck, PutBack, ClearFirst, ClearRest

LEMMA CheckedOwnStep ==
  ASSUME TypeInv, CheckedInv, NEW p \in Procs, Begin(p) \/ Step(p) \/ Crash(p),
         LastCompared(p)', ~late'[p]
  PROVE  file'[(Cur(p))'.target] = (Cur(p))'.want
<1> USE DEF TypeInv, TypeOK, Goto, Decide
<1>1. /\ ~Return(p) /\ ~Begin(p) /\ ~Crash(p)
  BY DEF Return, Crash, Begin, BeginMutation, BeginRestore, BeginClear, LastCompared
<1>2. CASE Preflight(p)
  <2>1. UNCHANGED <<file, req>>
    BY <1>2 DEF Preflight, disk
  <2>2. req[p].at \in DOMAIN req[p].ops
    BY <1>2, AtAnOperation DEF Preflight
  <2> QED
    BY <1>2, <2>1, <2>2 DEF Preflight, Admitted, LastCompared, Cur
<1>3. CASE Reverify(p)
  BY <1>3 DEF Reverify, disk, Cur
<1>4. CASE Stage(p)
  BY <1>4 DEF Stage, disk, Cur, LastCompared
<1>5. CASE WriteBlob(p) \/ SaveIndex(p) \/ RemoveEvicted(p)
  <2>1. req[p] \in Request
    OBVIOUS
  <2>2. req'[p].ops = req[p].ops /\ req'[p].at = req[p].at
    BY <1>5, <2>1 DEF WriteBlob, PutBlob, SaveIndex, RemoveEvicted, Request
  <2>3. UNCHANGED <<file, late>> /\ Cur(p)' = Cur(p)
    BY <1>5, <2>2 DEF WriteBlob, PutBlob, SaveIndex, RemoveEvicted, ghost, past, Cur
  <2>4. LastCompared(p)
    BY <1>5, <2>3 DEF LastCompared, WriteBlob, PutBlob, SaveIndex, RemoveEvicted
  <2> QED
    BY <2>3, <2>4 DEF CheckedInv
<1>6. CASE ReadBlob(p)
  <2>1. UNCHANGED <<file, late>> /\ Cur(p)' = Cur(p) /\ LastCompared(p)
    BY <1>1, <1>6 DEF ReadBlob, disk, Cur, LastCompared
  <2> QED
    BY <2>1 DEF CheckedInv
<1>7. CASE Recheck(p)
  <2>1. UNCHANGED <<file, late>> /\ Cur(p)' = Cur(p)
    BY <1>1, <1>7 DEF Recheck, disk, Cur
  <2>2. file[Cur(p).target] = Cur(p).want \/ LastCompared(p)
    BY <1>1, <1>7 DEF Recheck, LastCompared
  <2> QED
    BY <2>1, <2>2 DEF CheckedInv
<1>8. CASE LockMutation(p) \/ LockTargets(p) \/ MarkCommitted(p) \/ Rename(p) \/ Unlink(p)
             \/ PutBack(p) \/ ClearFirst(p)
  BY <1>1, <1>8 DEF LockMutation, LockTargets, MarkCommitted, Proceed, Rename, Unlink,
     PutBack, ClearFirst, LastCompared
<1>9. CASE Refuse(p) \/ ReverifyFails(p) \/ WriteBlobFails(p) \/ SaveIndexFails(p)
             \/ MarkFailed(p) \/ ClearRest(p)
  BY <1>1, <1>9 DEF Refuse, ReverifyFails, WriteBlobFails, SaveIndexFails, MarkFailed, ClearRest
<1> QED
  BY <1>1, <1>2, <1>3, <1>4, <1>5, <1>6, <1>7, <1>8, <1>9 DEF past, Step

LEMMA CheckedStep ==
  ASSUME NEW s \in Scopes, Scopes = {s}
  PROVE  TypeInv /\ LockInv /\ CheckedInv /\ [Next]_vars => CheckedInv'
<1> SUFFICES ASSUME TypeInv, LockInv, CheckedInv, [Next]_vars,
                    NEW q \in Procs, LastCompared(q)', ~late'[q]
             PROVE  file'[(Cur(q))'.target] = (Cur(q))'.want
  BY DEF CheckedInv
<1>1. CASE UNCHANGED vars
  BY <1>1 DEF vars, disk, ghost, past, CheckedInv, LastCompared, Cur
<1>2. CASE List
  BY <1>2 DEF List, ghost, past, CheckedInv, LastCompared, Cur
<1>3. ASSUME NEW t \in Targets, Edit(t)
      PROVE  file'[(Cur(q))'.target] = (Cur(q))'.want
  <2>1. LastCompared(q) /\ Cur(q)' = Cur(q)
    BY <1>3 DEF Edit, LastCompared, Cur
  <2>2. ~late[q] /\ Cur(q).target # t
    BY <1>3, <2>1 DEF Edit
  <2>3. file'[Cur(q).target] = file[Cur(q).target]
    BY <1>3, <2>2 DEF Edit, TypeInv, TypeOK
  <2> QED
    BY <2>1, <2>2, <2>3 DEF CheckedInv
<1>4. ASSUME NEW p \in Procs, Begin(p) \/ Step(p) \/ Crash(p)
      PROVE  file'[(Cur(q))'.target] = (Cur(q))'.want
  <2>1. CASE q = p
    BY <1>4, <2>1, CheckedOwnStep
  <2>2. CASE q # p
    <3>1. pc'[q] = pc[q] /\ req'[q] = req[q] /\ late'[q] = late[q]
      BY <1>4, <2>2, OthersKeep
    <3>2. Inside(q) /\ mutOwner[s] = q
      BY <3>1 DEF Inside, LastCompared, LockInv, TypeInv, TypeOK, Request
    <3>3. ~Inside(p)
      BY <2>2, <3>2 DEF LockInv, TypeInv, TypeOK, Request
    <3>4. UNCHANGED file
      BY <1>4, <3>3, FileChangedInside
    <3> QED
      BY <3>1, <3>4 DEF CheckedInv, LastCompared, Cur
  <2> QED
    BY <2>1, <2>2
<1> QED
  BY <1>1, <1>2, <1>3, <1>4 DEF Next

\* Mutual exclusion: at most one process per engine is between taking the
\* workspace mutation lock and returning, whatever fails and whoever dies.
MutualExclusion ==
  \A p, q \in Procs :
    Inside(p) /\ Inside(q) /\ req[p].scope = req[q].scope => p = q

\* The workspace mutation lock excludes the calls of one engine from each other.
THEOREM MutexCorrect == Spec => []MutualExclusion
<1>1. Init => LockInv
  BY DEF Init, LockInv, Inside
<1>2. LockInv => MutualExclusion
  BY DEF LockInv, MutualExclusion
<1> QED
  BY <1>1, <1>2, InitTyped, StepTyped, LockStep, PTL DEF Spec

\* With one engine per workspace, every replacement replaces exactly the
\* content its call compared, unless a program outside jinn's locks changed it
\* after the last comparison.  The hypothesis is needed: engines of different
\* working directories do not share their locks.
THEOREM NoLostUpdate ==
  ASSUME NEW s \in Scopes, Scopes = {s}
  PROVE  Spec => []ReplacesWhatItChecked
<1>1. Init => LockInv /\ CheckedInv
  BY DEF Init, LockInv, CheckedInv, LastCompared, Inside
<1>2. CheckedInv => ReplacesWhatItChecked
  BY DEF CheckedInv, LastCompared, ReplacesWhatItChecked
<1>3. TypeInv /\ LockInv /\ CheckedInv /\ [Next]_vars => CheckedInv'
  BY CheckedStep
<1> QED
  BY <1>1, <1>2, <1>3, InitTyped, StepTyped, LockStep, PTL DEF Spec
-----------------------------------------------------------------------------
(* The history: who may write it, and what the calls under way know of it. *)

\* Labels at which a call keeps the history lock from one step to the next.
HoldsHistory == {"index", "evict", "clear rest"}

HistInv == \A p \in Procs : pc[p] \in HoldsHistory => histOwner = p

\* A mutating call has no snapshot of its current target, or has one.
Early == {"lock", "lock targets", "preflight", "reverify", "snapshot"}
Taken == {"index", "evict", "stage", "replace", "mark"}

\* What holds of the request of one process: a snapshot id is given out before
\* it is used and is the newest one while the call has yet to save it; what a
\* call is about to remove is out of the index already.
RecordOK(p) ==
  /\ req[p].id < nextId
  /\ pc[p] \in {"reverify", "snapshot", "index", "evict", "stage", "replace"}
       => req[p].kind = "mutate"
  /\ pc[p] \in {"read blob", "recheck", "put back"} => req[p].kind = "restore"
  /\ req[p].kind = "mutate" /\ pc[p] \in Early => req[p].id = 0
  /\ req[p].kind = "mutate" /\ pc[p] \in Taken => req[p].id # 0
  /\ pc[p] = "index" => nextId = req[p].id + 1 /\ req[p].id \notin DOMAIN index
  /\ pc[p] = "evict" => req[p].drop \cap DOMAIN index = {}
  /\ pc[p] # "evict" => req[p].drop = {}

\* Ids are given out in order, and no two calls record under the same id.
IdsInv ==
  /\ DOMAIN index \subseteq 1..(nextId - 1)
  /\ applied \subseteq 1..(nextId - 1)
  /\ \A p, q \in Procs :
       p # q /\ req[p].kind = "mutate" /\ req[q].kind = "mutate" /\ req[p].id = req[q].id
         => req[p].id = 0

HistoryInv == TypeInv /\ HistInv /\ IdsInv /\ \A p \in Procs : RecordOK(p)

LEMMA NoRequestPlain ==
  /\ NoRequest.kind = "none" /\ NoRequest.id = 0
  /\ NoRequest.drop = {} /\ NoRequest.done = {}
BY DEF NoRequest, Call

\* The history changes only at the hands of a call that holds its lock, or
\* that finds it free and holds it for that step.
LEMMA HistoryWritten ==
  ASSUME NEW p \in Procs, Begin(p) \/ Step(p) \/ Crash(p)
  PROVE  UNCHANGED <<index, blobs, nextId>> \/ histOwner = Nobody \/ pc[p] \in HoldsHistory
BY DEF HoldsHistory, disk, Begin, BeginMutation, BeginRestore, BeginClear, Crash, Step,
   LockMutation, LockTargets, Preflight, Refuse, Reverify, ReverifyFails, WriteBlob,
   WriteBlobFails, PutBlob, SaveIndex, SaveIndexFails, RemoveEvicted, Stage, Rename, Unlink,
   MarkCommitted, MarkFailed, ReadBlob, Recheck, PutBack, ClearFirst, ClearRest

\* A step of p takes the history lock only when it is free, and drops only its own.
LEMMA HistoryLockKept ==
  ASSUME TypeInv, HistInv, NEW p \in Procs, Begin(p) \/ Step(p) \/ Crash(p)
  PROVE  /\ pc'[p] \in HoldsHistory => histOwner' = p
         /\ \A q \in Procs \ {p} : histOwner = q => histOwner' = q
<1> USE NamesAssumption DEF TypeInv, TypeOK, Goto, Return, DropLocks, Decide, locks,
        HoldsHistory, HistInv
<1>1. CASE Begin(p)
  BY <1>1 DEF Begin, BeginMutation, BeginRestore, BeginClear
<1>2. CASE Crash(p)
  BY <1>2 DEF Crash
<1>3. CASE LockMutation(p) \/ LockTargets(p) \/ Preflight(p) \/ Refuse(p)
  BY <1>3 DEF LockMutation, LockTargets, Preflight, Refuse
<1>4. CASE Reverify(p) \/ ReverifyFails(p) \/ WriteBlobFails(p)
  BY <1>4 DEF past, Reverify, ReverifyFails, WriteBlobFails
<1>5. CASE WriteBlob(p)
  BY <1>5 DEF WriteBlob, PutBlob
<1>6. CASE SaveIndex(p) \/ SaveIndexFails(p) \/ RemoveEvicted(p)
  BY <1>6 DEF SaveIndex, SaveIndexFails, RemoveEvicted
<1>7. CASE Stage(p) \/ Rename(p) \/ Unlink(p)
  <2>1. CASE Stage(p)
    BY <2>1 DEF Stage
  <2>2. CASE Rename(p)
    BY <2>2 DEF Rename
  <2>3. CASE Unlink(p)
    BY <2>3 DEF Unlink
  <2> QED
    BY <1>7, <2>1, <2>2, <2>3
<1>8. CASE MarkCommitted(p) \/ MarkFailed(p)
  BY <1>8 DEF MarkCommitted, MarkFailed, Proceed
<1>9. CASE ReadBlob(p) \/ Recheck(p) \/ PutBack(p)
  BY <1>9 DEF ReadBlob, Recheck, PutBack
<1>10. CASE ClearFirst(p) \/ ClearRest(p)
  BY <1>10 DEF ClearFirst, ClearRest
<1> QED
  BY <1>1, <1>2, <1>3, <1>4, <1>5, <1>6, <1>7, <1>8, <1>9, <1>10 DEF Step

LEMMA HistStep == TypeInv /\ HistInv /\ [Next]_vars => HistInv'
<1> SUFFICES ASSUME TypeInv, HistInv, [Next]_vars, NEW q \in Procs, pc'[q] \in HoldsHistory
             PROVE  histOwner' = q
  BY DEF HistInv
<1>1. CASE UNCHANGED vars
  BY <1>1 DEF vars, locks, HistInv
<1>2. CASE List \/ \E t \in Targets : Edit(t)
  BY <1>2 DEF List, Edit, locks, HistInv
<1>3. ASSUME NEW p \in Procs, Begin(p) \/ Step(p) \/ Crash(p) PROVE histOwner' = q
  <2>1. CASE q = p
    BY <1>3, <2>1, HistoryLockKept
  <2>2. CASE q # p
    BY <1>3, <2>2, HistoryLockKept, OthersKeep DEF HistInv
  <2> QED
    BY <2>1, <2>2
<1> QED
  BY <1>1, <1>2, <1>3 DEF Next

\* A request that has recorded nothing yet, or that is over.
LEMMA FreshRecord ==
  ASSUME NEW p \in Procs, pc'[p] \in {"idle", "lock", "reverify"},
         req'[p].id < nextId', req'[p].drop = {},
         req'[p].kind = "mutate" => req'[p].id = 0,
         pc'[p] = "reverify" => req'[p].kind = "mutate"
  PROVE  RecordOK(p)'
BY DEF RecordOK, Early, Taken

LEMMA ReturnRecord ==
  ASSUME TypeInv, TypeInv', NEW p \in Procs, Return(p)
  PROVE  RecordOK(p)'
<1>1. req'[p] = NoRequest /\ pc'[p] = "idle" /\ nextId' \in Nat \ {0}
  BY DEF Return, Goto, TypeInv, TypeOK
<1> QED
  BY <1>1, NoRequestPlain DEF RecordOK

LEMMA BeginRecord ==
  ASSUME HistoryInv, NEW p \in Procs, Begin(p)
  PROVE  RecordOK(p)'
<1>1. pc'[p] = "lock" /\ UNCHANGED nextId /\ nextId \in Nat \ {0}
  BY DEF Begin, BeginMutation, BeginRestore, BeginClear, Goto, disk, HistoryInv, TypeInv, TypeOK
<1>2. ASSUME NEW c, req' = [req EXCEPT ![p] = c], c.id < nextId, c.drop = {},
             c.kind = "mutate" => c.id = 0
      PROVE  RecordOK(p)'
  <2>1. req'[p] = c
    BY <1>2 DEF HistoryInv, TypeInv, TypeOK
  <2> QED
    BY <1>1, <1>2, <2>1, FreshRecord
<1>3. CASE BeginMutation(p)
  <2>1. PICK s \in Scopes, ops \in OpsOf : req' = [req EXCEPT ![p] = Call("mutate", s, Told(ops), 1, 0)]
    BY <1>3 DEF BeginMutation
  <2> DEFINE c == Call("mutate", s, Told(ops), 1, 0)
  <2>2. c.id = 0 /\ c.drop = {} /\ 0 < nextId
    BY <1>1 DEF Call
  <2> HIDE DEF c
  <2>3. req' = [req EXCEPT ![p] = c]
    BY <2>1 DEF c
  <2>4. c.id < nextId
    BY <2>2
  <2> QED
    BY <1>2, <2>2, <2>3, <2>4
<1>4. CASE BeginRestore(p)
  <2>1. PICK i \in DOMAIN index, s \in Scopes :
          req' = [req EXCEPT ![p] = Call("restore", s, <<Restoring(index'[i])>>, 1, i)]
    BY <1>4 DEF BeginRestore
  <2> DEFINE c == Call("restore", s, <<Restoring(index'[i])>>, 1, i)
  <2>2. c.id = i /\ c.drop = {} /\ c.kind = "restore"
    BY DEF Call
  <2>3. i < nextId
    BY <1>1 DEF HistoryInv, IdsInv
  <2> HIDE DEF c
  <2>4. req' = [req EXCEPT ![p] = c]
    BY <2>1 DEF c
  <2> QED
    BY <1>2, <2>2, <2>3, <2>4
<1>5. CASE BeginClear(p)
  <2>1. PICK s \in Scopes : req' = [req EXCEPT ![p] = Call("clear", s, <<>>, 0, 0)]
    BY <1>5 DEF BeginClear
  <2> DEFINE c == Call("clear", s, <<>>, 0, 0)
  <2>2. c.id = 0 /\ c.drop = {} /\ 0 < nextId
    BY <1>1 DEF Call
  <2> HIDE DEF c
  <2>3. req' = [req EXCEPT ![p] = c]
    BY <2>1 DEF c
  <2>4. c.id < nextId
    BY <2>2
  <2> QED
    BY <1>2, <2>2, <2>3, <2>4
<1> QED
  BY <1>3, <1>4, <1>5 DEF Begin

\* A step that moves control and leaves the record as it is.
LEMMA MoveRecord ==
  ASSUME HistoryInv, NEW p \in Procs, UNCHANGED <<req, nextId>>, UNCHANGED index,
         LockMutation(p) \/ LockTargets(p) \/ Preflight(p) \/ Reverify(p) \/ Stage(p)
           \/ ReadBlob(p) \/ Recheck(p)
  PROVE  RecordOK(p)'
<1> USE DEF HistoryInv, TypeInv, TypeOK, Goto
<1>1. RecordOK(p) /\ req[p].kind \in {"none", "mutate", "restore", "clear"}
  BY DEF Request
<1>2. CASE LockMutation(p)
  BY <1>1, <1>2 DEF LockMutation, RecordOK, Early, Taken
<1>3. CASE LockTargets(p)
  BY <1>1, <1>3 DEF LockTargets, RecordOK, Early, Taken
<1>4. CASE Preflight(p)
  <2>1. req[p].kind \in {"mutate", "restore"}
    BY <1>1, <1>4, NotClear DEF Preflight, CallOK
  <2> QED
    BY <1>1, <1>4, <2>1 DEF Preflight, RecordOK, Early, Taken
<1>5. CASE Reverify(p)
  BY <1>1, <1>5 DEF Reverify, RecordOK, Early, Taken
<1>6. CASE Stage(p)
  BY <1>1, <1>6 DEF Stage, Decide, RecordOK, Early, Taken
<1>7. CASE (ReadBlob(p) \/ Recheck(p)) /\ ~Return(p)
  BY <1>1, <1>7 DEF ReadBlob, Recheck, RecordOK, Early, Taken
<1>8. CASE Return(p)
  <2>1. UNCHANGED nextId /\ req'[p] = NoRequest /\ pc'[p] = "idle"
    BY <1>8 DEF Return
  <2> QED
    BY <2>1, NoRequestPlain DEF RecordOK
<1> QED
  BY <1>2, <1>3, <1>4, <1>5, <1>6, <1>7, <1>8

\* A step that decides what became of the current target.
LEMMA DecideRecord ==
  ASSUME HistoryInv, NEW p \in Procs, NEW v, Decide(p, v), UNCHANGED <<nextId, index>>,
         pc[p] \in {"stage", "replace", "put back"}
  PROVE  RecordOK(p)'
<1> USE DEF HistoryInv, TypeInv, TypeOK, Goto
<1> DEFINE r == [req[p] EXCEPT !.verdict = v]
<1>1. req[p] \in Request /\ RecordOK(p)
  OBVIOUS
<1>2. r.id = req[p].id /\ r.kind = req[p].kind /\ r.drop = req[p].drop
  BY <1>1 DEF Request
<1>3. req'[p] = r /\ pc'[p] = "mark"
  BY DEF Decide
<1> HIDE DEF r
<1> QED
  BY <1>1, <1>2, <1>3 DEF RecordOK, Early, Taken

\* What saving the index leaves in it: the entry just appended at most is new,
\* and the entries dropped are out of it.
LEMMA KeptIndex ==
  ASSUME NEW p \in Procs
  PROVE  LET kept == Evict(Appended(p), req[p].id) IN
         /\ DOMAIN kept \subseteq DOMAIN index \cup {req[p].id}
         /\ \A i \in DOMAIN kept :
              kept[i] = IF i = req[p].id THEN NewEntry(p) ELSE index[i]
         /\ DOMAIN Appended(p) = DOMAIN index \cup {req[p].id}
<1> DEFINE kept == Evict(Appended(p), req[p].id)
<1>1. /\ DOMAIN Appended(p) = DOMAIN index \cup {req[p].id}
      /\ \A i \in DOMAIN Appended(p) :
           Appended(p)[i] = IF i = req[p].id THEN NewEntry(p) ELSE index[i]
  BY DEF Appended
<1>2. /\ DOMAIN kept \subseteq DOMAIN Appended(p)
      /\ \A i \in DOMAIN kept : kept[i] = Appended(p)[i]
  BY EvictKeeps
<1> QED
  BY <1>1, <1>2

LEMMA SnapshotRecord ==
  ASSUME HistoryInv, NEW p \in Procs, WriteBlob(p) \/ SaveIndex(p) \/ RemoveEvicted(p)
  PROVE  RecordOK(p)'
<1> USE DEF HistoryInv, TypeInv, TypeOK, Goto
<1>1. /\ req[p] \in Request /\ req[p].kind = "mutate" /\ req[p].id \in Nat
      /\ RecordOK(p) /\ nextId \in Nat \ {0}
  BY DEF WriteBlob, PutBlob, SaveIndex, RemoveEvicted, RecordOK, Request
<1>2. CASE WriteBlob(p)
  <2> DEFINE r == [req[p] EXCEPT !.id = nextId]
  <2>1. r.id = nextId /\ r.kind = "mutate" /\ r.drop = req[p].drop
    BY <1>1 DEF Request
  <2>2. req'[p] = r /\ pc'[p] = "index" /\ nextId' = nextId + 1 /\ UNCHANGED index
    BY <1>2 DEF WriteBlob, PutBlob
  <2>3. nextId \notin DOMAIN index
    BY <1>1 DEF IdsInv
  <2>4. req[p].drop = {}
    BY <1>1, <1>2 DEF RecordOK, WriteBlob, PutBlob
  <2>5. req'[p].id < nextId' /\ nextId' = req'[p].id + 1 /\ req'[p].id # 0
        /\ req'[p].id \notin DOMAIN index'
    BY <1>1, <2>1, <2>2, <2>3
  <2> HIDE DEF r
  <2> QED
    BY <2>1, <2>2, <2>4, <2>5 DEF RecordOK, Early
<1>3. CASE SaveIndex(p)
  <2> DEFINE kept == Evict(Appended(p), req[p].id)
             r == [req[p] EXCEPT !.drop = DOMAIN Appended(p) \ DOMAIN kept]
  <2>1. r.id = req[p].id /\ r.kind = "mutate" /\ r.drop \cap DOMAIN kept = {}
    BY <1>1 DEF Request
  <2>2. req'[p] = r /\ pc'[p] = "evict" /\ UNCHANGED nextId /\ index' = kept
    BY <1>3 DEF SaveIndex, Saved
  <2>3. req[p].id < nextId /\ req[p].id # 0
    BY <1>1, <1>3 DEF RecordOK, SaveIndex, Taken
  <2> HIDE DEF r, kept
  <2> QED
    BY <1>1, <2>1, <2>2, <2>3 DEF RecordOK, Early, Taken
<1>4. CASE RemoveEvicted(p)
  <2> DEFINE r == [req[p] EXCEPT !.drop = {}]
  <2>1. r.id = req[p].id /\ r.kind = "mutate" /\ r.drop = {}
    BY <1>1 DEF Request
  <2>2. req'[p] = r /\ pc'[p] \in {"replace", "stage"} /\ UNCHANGED <<nextId, index>>
    BY <1>4 DEF RemoveEvicted
  <2>3. req[p].id < nextId /\ req[p].id # 0
    BY <1>1, <1>4 DEF RecordOK, RemoveEvicted, Taken
  <2> HIDE DEF r
  <2> QED
    BY <1>1, <2>1, <2>2, <2>3 DEF RecordOK, Early, Taken
<1> QED
  BY <1>2, <1>3, <1>4

LEMMA ProceedRecord ==
  ASSUME HistoryInv, NEW p \in Procs, pc[p] = "mark", Proceed(p), UNCHANGED nextId
  PROVE  RecordOK(p)'
<1> USE DEF HistoryInv, TypeInv, TypeOK, Goto
<1>1. nextId' \in Nat \ {0}
  OBVIOUS
<1>2. CASE req[p].at < Len(req[p].ops)
  <2> DEFINE c == Call("mutate", req[p].scope, req[p].ops, req[p].at + 1, 0)
             ids == req[p].done \cup {req[p].id}
             r == [c EXCEPT !.done = ids]
  <2>1. r.id = 0 /\ r.kind = "mutate" /\ r.drop = {}
    BY DEF Call
  <2>2. req'[p] = r /\ pc'[p] = "reverify"
    BY <1>2 DEF Proceed
  <2> HIDE DEF r
  <2> QED
    BY <1>1, <2>1, <2>2, FreshRecord
<1>3. CASE ~(req[p].at < Len(req[p].ops))
  <2>1. req'[p] = NoRequest /\ pc'[p] = "idle"
    BY <1>3 DEF Proceed, Return
  <2> QED
    BY <1>1, <2>1, NoRequestPlain, FreshRecord
<1> QED
  BY <1>2, <1>3

LEMMA OwnRecord ==
  ASSUME HistoryInv, TypeInv', NEW p \in Procs, Begin(p) \/ Step(p) \/ Crash(p)
  PROVE  RecordOK(p)'
<1>1. CASE Return(p)
  BY <1>1, ReturnRecord DEF HistoryInv
<1>2. CASE Begin(p)
  BY <1>2, BeginRecord
<1>3. CASE LockMutation(p) \/ LockTargets(p) \/ Preflight(p) \/ Reverify(p)
  <2>1. UNCHANGED <<req, nextId, index>>
    BY <1>3 DEF LockMutation, LockTargets, Preflight, Reverify, disk
  <2> QED
    BY <1>3, <2>1, MoveRecord
<1>4. CASE ReadBlob(p) \/ Recheck(p)
  <2>1. CASE UNCHANGED req
    BY <1>4, <2>1, MoveRecord DEF ReadBlob, Recheck, disk
  <2> QED
    BY <1>1, <1>4, <2>1 DEF ReadBlob, Recheck
<1>5. CASE WriteBlob(p) \/ SaveIndex(p) \/ RemoveEvicted(p)
  BY <1>5, SnapshotRecord
<1>6. CASE Stage(p)
  <2>1. UNCHANGED <<nextId, index>> /\ pc[p] = "stage"
    BY <1>6 DEF Stage, disk
  <2>2. CASE UNCHANGED req
    BY <1>6, <2>1, <2>2, MoveRecord
  <2>3. CASE Decide(p, "aborted")
    BY <2>1, <2>3, DecideRecord
  <2> QED
    BY <1>6, <2>2, <2>3 DEF Stage
<1>7. CASE Rename(p) \/ Unlink(p) \/ PutBack(p)
  <2>1. UNCHANGED <<nextId, index>> /\ pc[p] \in {"replace", "put back"}
    BY <1>7 DEF Rename, Unlink, PutBack
  <2>2. Return(p) \/ \E v : Decide(p, v)
    BY <1>7 DEF Rename, Unlink, PutBack
  <2> QED
    BY <1>1, <2>1, <2>2, DecideRecord
<1>8. CASE MarkCommitted(p)
  <2>1. UNCHANGED nextId /\ pc[p] = "mark"
    BY <1>8 DEF MarkCommitted
  <2>2. CASE Proceed(p)
    BY <2>1, <2>2, ProceedRecord
  <2>3. CASE req' = [req EXCEPT ![p].verdict = "uncertain"] /\ UNCHANGED pc
    <3> DEFINE r == [req[p] EXCEPT !.verdict = "uncertain"]
    <3>1. req[p] \in Request /\ RecordOK(p)
      BY DEF HistoryInv, TypeInv, TypeOK
    <3>2. r.id = req[p].id /\ r.kind = req[p].kind /\ r.drop = req[p].drop
      BY <3>1 DEF Request
    <3>3. req'[p] = r
      BY <2>3 DEF HistoryInv, TypeInv, TypeOK
    <3> HIDE DEF r
    <3> QED
      BY <2>1, <2>3, <3>1, <3>2, <3>3 DEF RecordOK
  <2> QED
    BY <1>8, <2>2, <2>3 DEF MarkCommitted
<1>9. CASE ClearFirst(p)
  <2>1. req[p] \in Request /\ RecordOK(p) /\ req[p].kind = "clear"
    BY <1>9 DEF HistoryInv, TypeInv, TypeOK, CallOK, ClearFirst
  <2>2. UNCHANGED <<req, nextId>> /\ pc[p] = "clear" /\ pc'[p] = "clear rest"
    BY <1>9 DEF ClearFirst, Goto, HistoryInv, TypeInv, TypeOK
  <2> QED
    BY <2>1, <2>2 DEF RecordOK
<1> QED
  BY <1>1, <1>2, <1>3, <1>4, <1>5, <1>6, <1>7, <1>8, <1>9 DEF past, Step, Crash, Refuse,
     ReverifyFails, WriteBlobFails, SaveIndexFails, MarkFailed, ClearRest

\* What a step adds to the index and to the ids of the changes made: ids the
\* acting call owns.
LEMMA IdsAdded ==
  ASSUME HistoryInv, NEW p \in Procs, Begin(p) \/ Step(p) \/ Crash(p)
  PROVE  /\ DOMAIN index' \subseteq DOMAIN index \cup {req[p].id}
         /\ applied' \subseteq applied \cup {req[p].id}
         /\ DOMAIN index' \subseteq DOMAIN index \/ pc[p] = "index"
         /\ applied' = applied \/ pc[p] = "replace"
         /\ nextId' = nextId \/ (nextId' = nextId + 1 /\ (WriteBlob(p) \/ WriteBlobFails(p)))
<1> USE DEF disk, ghost, past
<1>1. CASE Begin(p)
  <2>1. UNCHANGED index \/ \E u : index' = Reconcile(u)
    BY <1>1 DEF Begin, BeginMutation, BeginRestore, BeginClear, Saved
  <2>2. DOMAIN index' = DOMAIN index
    BY <2>1 DEF Reconcile
  <2> QED
    BY <1>1, <2>2 DEF Begin, BeginMutation, BeginRestore, BeginClear
<1>2. CASE SaveIndex(p) \/ SaveIndexFails(p)
  <2>1. pc[p] = "index" /\ UNCHANGED <<nextId, applied>>
    BY <1>2 DEF SaveIndex, SaveIndexFails
  <2>2. UNCHANGED index \/ index' = Evict(Appended(p), req[p].id)
    BY <1>2 DEF SaveIndex, SaveIndexFails, Saved, SaveFails
  <2> QED
    BY <2>1, <2>2, KeptIndex
<1>3. CASE MarkCommitted(p) \/ MarkFailed(p)
  <2>1. DOMAIN index' = DOMAIN index
    BY <1>3 DEF MarkCommitted, MarkFailed, Saved, SaveFails, Marked
  <2> QED
    BY <1>3, <2>1 DEF MarkCommitted, MarkFailed
<1>4. CASE Rename(p) \/ Unlink(p)
  BY <1>4 DEF Rename, Unlink, Replaced
<1>5. CASE ClearFirst(p) \/ ClearRest(p)
  <2>1. DOMAIN index' \subseteq DOMAIN index
    BY <1>5 DEF ClearFirst, ClearRest, Without
  <2> QED
    BY <1>5, <2>1 DEF ClearFirst, ClearRest
<1>6. CASE Crash(p)
  BY <1>6 DEF Crash
<1>7. CASE LockMutation(p) \/ LockTargets(p) \/ Preflight(p) \/ Refuse(p) \/ Reverify(p)
             \/ ReverifyFails(p) \/ RemoveEvicted(p) \/ Stage(p) \/ ReadBlob(p)
             \/ Recheck(p) \/ PutBack(p)
  BY <1>7 DEF LockMutation, LockTargets, Preflight, Refuse, Reverify, ReverifyFails,
     RemoveEvicted, Stage, ReadBlob, Recheck, PutBack
<1>8. CASE WriteBlob(p) \/ WriteBlobFails(p)
  BY <1>8 DEF WriteBlob, WriteBlobFails, PutBlob
<1> QED
  BY <1>1, <1>2, <1>3, <1>4, <1>5, <1>6, <1>7, <1>8 DEF past, Step

\* The id a call records under after its step: the one it had, none, or a new one.
LEMMA OwnId ==
  ASSUME HistoryInv, NEW p \in Procs, Begin(p) \/ Step(p) \/ Crash(p),
         req'[p].kind = "mutate"
  PROVE  \/ req'[p].id = 0
         \/ req'[p].id = req[p].id /\ req[p].kind = "mutate"
         \/ req'[p].id = nextId /\ WriteBlob(p)
<1> USE DEF HistoryInv, TypeInv, TypeOK
<1>1. req[p] \in Request
  OBVIOUS
<1>2. CASE Return(p)
  BY <1>2, NoRequestPlain DEF Return
<1>3. CASE Begin(p)
  BY <1>3 DEF Begin, BeginMutation, BeginRestore, BeginClear, Call
<1>4. CASE UNCHANGED req
  BY <1>4
<1>5. ASSUME NEW v, Decide(p, v) PROVE req'[p].id = req[p].id /\ req'[p].kind = req[p].kind
  BY <1>1, <1>5 DEF Decide, Request
<1>6. CASE WriteBlob(p)
  BY <1>1, <1>6 DEF WriteBlob, PutBlob, Request
<1>7. CASE SaveIndex(p) \/ RemoveEvicted(p)
  BY <1>1, <1>7 DEF SaveIndex, RemoveEvicted, Request
<1>8. CASE MarkCommitted(p)
  <2>1. CASE Proceed(p)
    BY <1>2, <2>1 DEF Proceed, Call
  <2>2. CASE req' = [req EXCEPT ![p].verdict = "uncertain"]
    BY <1>1, <2>2 DEF Request
  <2> QED
    BY <1>8, <2>1, <2>2 DEF MarkCommitted
<1>9. CASE Stage(p) \/ Rename(p) \/ Unlink(p) \/ PutBack(p)
  <2>1. Return(p) \/ UNCHANGED req \/ \E v : Decide(p, v)
    BY <1>9 DEF Stage, Rename, Unlink, PutBack
  <2> QED
    BY <1>2, <1>4, <1>5, <2>1
<1>10. CASE LockMutation(p) \/ LockTargets(p) \/ Preflight(p) \/ Reverify(p)
             \/ ReadBlob(p) \/ Recheck(p) \/ ClearFirst(p)
  <2>1. Return(p) \/ UNCHANGED req
    BY <1>10 DEF LockMutation, LockTargets, Preflight, Reverify, ReadBlob, Recheck, ClearFirst
  <2> QED
    BY <1>2, <1>4, <2>1
<1>11. CASE Crash(p) \/ Refuse(p) \/ ReverifyFails(p) \/ WriteBlobFails(p)
             \/ SaveIndexFails(p) \/ MarkFailed(p) \/ ClearRest(p)
  BY <1>2, <1>11 DEF Crash, Refuse, ReverifyFails, WriteBlobFails, SaveIndexFails, MarkFailed,
     ClearRest
<1> QED
  BY <1>3, <1>6, <1>7, <1>8, <1>9, <1>10, <1>11 DEF past, Step

LEMMA IdsStep ==
  ASSUME HistoryInv, NEW p \in Procs, Begin(p) \/ Step(p) \/ Crash(p)
  PROVE  IdsInv'
<1>1. /\ nextId \in Nat \ {0} /\ (nextId' = nextId \/ nextId' = nextId + 1)
      /\ req[p].id \in Nat /\ req[p].id < nextId
  BY IdsAdded DEF HistoryInv, TypeInv, TypeOK, RecordOK, Request
<1>2. DOMAIN index' \subseteq 1..(nextId' - 1)
  <2>1. CASE DOMAIN index' \subseteq DOMAIN index
    BY <1>1, <2>1 DEF HistoryInv, IdsInv
  <2>2. CASE pc[p] = "index"
    <3>1. req[p].id # 0
      BY <2>2 DEF HistoryInv, RecordOK, Taken
    <3> QED
      BY <1>1, <3>1, IdsAdded DEF HistoryInv, IdsInv
  <2> QED
    BY <2>1, <2>2, IdsAdded
<1>3. applied' \subseteq 1..(nextId' - 1)
  <2>1. CASE applied' = applied
    BY <1>1, <2>1 DEF HistoryInv, IdsInv
  <2>2. CASE pc[p] = "replace"
    <3>1. req[p].id # 0
      BY <2>2 DEF HistoryInv, RecordOK, Taken
    <3>2. applied \subseteq 1..(nextId - 1) /\ applied' \subseteq applied \cup {req[p].id}
      BY IdsAdded DEF HistoryInv, IdsInv
    <3> QED
      BY <1>1, <3>1, <3>2
  <2> QED
    BY <2>1, <2>2, IdsAdded
<1>4. ASSUME NEW a \in Procs, NEW b \in Procs, a # b, req'[a].kind = "mutate",
             req'[b].kind = "mutate", req'[a].id = req'[b].id
      PROVE  req'[a].id = 0
  <2>1. ASSUME NEW q \in Procs \ {p}, req'[q].kind = "mutate", req'[p].kind = "mutate",
               req'[q].id = req'[p].id
        PROVE  req'[p].id = 0
    <3>1. req'[q] = req[q]
      BY OthersKeep DEF HistoryInv
    <3>2. req[q].id \in Nat /\ req[q].id < nextId
      BY DEF HistoryInv, TypeInv, TypeOK, RecordOK, Request
    <3>3. CASE req'[p].id = req[p].id /\ req[p].kind = "mutate"
      BY <2>1, <3>1, <3>3 DEF HistoryInv, IdsInv
    <3>4. CASE req'[p].id = nextId
      BY <1>1, <2>1, <3>1, <3>2, <3>4
    <3> QED
      BY <2>1, <3>3, <3>4, OwnId
  <2>2. CASE a = p
    BY <1>4, <2>1, <2>2
  <2>3. CASE b = p
    BY <1>4, <2>1, <2>3
  <2>4. CASE a # p /\ b # p
    <3>1. req'[a] = req[a] /\ req'[b] = req[b]
      BY <2>4, OthersKeep DEF HistoryInv
    <3> QED
      BY <1>4, <3>1 DEF HistoryInv, IdsInv
  <2> QED
    BY <2>2, <2>3, <2>4
<1> QED
  BY <1>2, <1>3, <1>4 DEF IdsInv

\* Whoever keeps the history lock finds the history as it left it.
LEMMA HistoryMine ==
  ASSUME HistoryInv, NEW p \in Procs, Begin(p) \/ Step(p) \/ Crash(p),
         NEW q \in Procs \ {p}, pc[q] \in HoldsHistory
  PROVE  UNCHANGED <<index, blobs, nextId>>
<1>1. histOwner = q /\ q # Nobody
  BY NamesAssumption DEF HistoryInv, HistInv
<1>2. pc[p] \notin HoldsHistory
  BY <1>1 DEF HistoryInv, HistInv
<1> QED
  BY <1>1, <1>2, HistoryWritten

LEMMA OthersRecord ==
  ASSUME HistoryInv, NEW p \in Procs, Begin(p) \/ Step(p) \/ Crash(p),
         NEW q \in Procs \ {p}
  PROVE  RecordOK(q)'
<1>1. pc'[q] = pc[q] /\ req'[q] = req[q] /\ RecordOK(q)
  BY OthersKeep DEF HistoryInv
<1>2. CASE pc[q] \in HoldsHistory
  <2>1. UNCHANGED <<index, nextId>>
    BY <1>2, HistoryMine
  <2> QED
    BY <1>1, <2>1 DEF RecordOK
<1>3. CASE pc[q] \notin HoldsHistory
  <2>1. req[q].id \in Nat /\ nextId \in Nat /\ (nextId' = nextId \/ nextId' = nextId + 1)
    BY IdsAdded DEF HistoryInv, TypeInv, TypeOK, Request
  <2>2. req[q].id < nextId
    BY <1>1 DEF RecordOK
  <2>3. req[q].id < nextId'
    BY <2>1, <2>2
  <2> QED
    BY <1>1, <1>3, <2>3 DEF RecordOK, HoldsHistory
<1> QED
  BY <1>2, <1>3

\* Every step keeps what the calls under way know of the history: who holds its
\* lock, under which id a call records, and that ids are given out once.
THEOREM HistoryStep == HistoryInv /\ [Next]_vars => HistoryInv'
<1> SUFFICES ASSUME HistoryInv, [Next]_vars PROVE HistoryInv'
  OBVIOUS
<1>1. TypeInv' /\ HistInv'
  BY StepTyped, HistStep DEF HistoryInv
<1>2. ASSUME UNCHANGED <<req, pc, nextId, applied>>, DOMAIN index' = DOMAIN index
      PROVE  HistoryInv'
  BY <1>1, <1>2 DEF HistoryInv, IdsInv, RecordOK
<1>3. CASE UNCHANGED vars
  BY <1>2, <1>3 DEF vars, disk, ghost, past
<1>4. CASE \E t \in Targets : Edit(t)
  BY <1>2, <1>4 DEF past, Edit
<1>5. CASE List
  <2>1. UNCHANGED index \/ \E u : index' = Reconcile(u)
    BY <1>5 DEF List, Saved, SaveFails
  <2> QED
    BY <1>2, <1>5, <2>1 DEF List, Reconcile, ghost, past
<1>6. ASSUME NEW p \in Procs, Begin(p) \/ Step(p) \/ Crash(p) PROVE HistoryInv'
  BY <1>1, <1>6, IdsStep, OwnRecord, OthersRecord DEF HistoryInv
<1> QED
  BY <1>3, <1>4, <1>5, <1>6 DEF Next

\* An empty history and no call know nothing false.
THEOREM HistoryInit == Init => HistoryInv
BY InitTyped, NoRequestPlain DEF Init, HistoryInv, HistInv, IdsInv, RecordOK, HoldsHistory

\* Reconciliation leaves entries marked uncertain alone, whatever fails: only
\* the call that owns such an entry changes it, when it marks it itself.
THEOREM UncertainStays == Spec => UncertainIsSticky
<1> DEFINE Sticky == \A i \in DOMAIN index \cap DOMAIN index' :
                       index[i].state = "uncertain" /\ index'[i].state # "uncertain"
                         => \E p \in Procs : pc[p] = "mark" /\ req[p].id = i
<1>1. HistoryInv /\ [Next]_vars => [Sticky]_vars
  <2> SUFFICES ASSUME HistoryInv, [Next]_vars,
                      NEW i \in DOMAIN index \cap DOMAIN index',
                      index[i].state = "uncertain", index'[i].state # "uncertain"
               PROVE  \E p \in Procs : pc[p] = "mark" /\ req[p].id = i
    OBVIOUS
  <2>1. index[i] \in Entry
    BY DEF HistoryInv, TypeInv, TypeOK
  <2>2. index' # index
    OBVIOUS
  <2>3. ASSUME NEW u, index' = Reconcile(u) PROVE FALSE
    BY <2>1, <2>3 DEF Reconcile, Resolve, Entry
  <2>4. ~List
    BY <2>2, <2>3 DEF List, Saved, SaveFails
  <2>5. PICK p \in Procs : Begin(p) \/ Step(p) \/ Crash(p)
    BY <2>2, <2>4 DEF Next, Edit, vars, disk
  <2>6. ~Begin(p)
    BY <2>2, <2>3 DEF Begin, BeginMutation, BeginRestore, BeginClear, Saved, disk
  <2>7. ~SaveIndex(p) /\ ~SaveIndexFails(p)
    <3>1. SUFFICES ASSUME SaveIndex(p) \/ SaveIndexFails(p) PROVE FALSE
      OBVIOUS
    <3>2. index' = Evict(Appended(p), req[p].id) /\ i # req[p].id
      BY <2>2, <3>1 DEF SaveIndex, SaveIndexFails, Saved, SaveFails, HistoryInv, RecordOK
    <3> QED
      BY <3>2, KeptIndex
  <2>8. ~ClearFirst(p) /\ ~ClearRest(p)
    BY <2>2 DEF ClearFirst, ClearRest, Without
  <2>9. MarkCommitted(p) \/ MarkFailed(p)
    BY <2>2, <2>5, <2>6, <2>7, <2>8 DEF disk, Crash, Step, LockMutation, LockTargets, Preflight,
       Refuse, Reverify, ReverifyFails, WriteBlob, WriteBlobFails, PutBlob, RemoveEvicted,
       Stage, Rename, Unlink, ReadBlob, Recheck, PutBack
  <2>10. pc[p] = "mark" /\ \E v : index' = Marked(req[p].id, v)
    BY <2>2, <2>9 DEF MarkCommitted, MarkFailed, Saved, SaveFails
  <2>11. i = req[p].id
    BY <2>10 DEF Marked
  <2> QED
    BY <2>10, <2>11
<1> QED
  BY <1>1, HistoryInit, HistoryStep, PTL DEF Spec, UncertainIsSticky

-----------------------------------------------------------------------------
(* The blobs of the history.                                               *)

\* What reconciling and marking leave as it is.
LEMMA ReconcileKeeps ==
  ASSUME TypeInv, NEW u, NEW i \in DOMAIN index
  PROVE  /\ Reconcile(u)[i].target = index[i].target
         /\ Reconcile(u)[i].before = index[i].before
         /\ Reconcile(u)[i].after = index[i].after
         /\ Reconcile(u)[i].state = Resolve(index[i], u)
<1>1. index[i] \in Entry
  BY DEF TypeInv, TypeOK
<1>2. Reconcile(u)[i] = [index[i] EXCEPT !.state = Resolve(index[i], u)]
  BY DEF Reconcile
<1> QED
  BY <1>1, <1>2 DEF Entry

LEMMA MarkedKeeps ==
  ASSUME TypeInv, NEW j \in DOMAIN index, NEW v, NEW i \in DOMAIN index
  PROVE  /\ Marked(j, v)[i].before = index[i].before
         /\ Marked(j, v)[i].state = IF i = j THEN v ELSE index[i].state
<1>1. index[i] \in Entry
  BY DEF TypeInv, TypeOK
<1>2. CASE i = j
  <2>1. Marked(j, v)[i] = [index[i] EXCEPT !.state = v]
    BY <1>2 DEF Marked
  <2> QED
    BY <1>1, <1>2, <2>1 DEF Entry
<1>3. CASE i # j
  BY <1>3 DEF Marked
<1> QED
  BY <1>2, <1>3

\* An entry has the bytes its file had, if it had any.
Backed(i) == index[i].before # Absent => i \in DOMAIN blobs /\ blobs[i] = index[i].before

\* The blob of an entry that is about to be appended is there already.
PendingBacked(p) ==
  pc[p] = "index" /\ Cur(p).want # Absent
    => req[p].id \in DOMAIN blobs /\ blobs[req[p].id] = Cur(p).want

BlobInv == BlobBacked /\ \A p \in Procs : PendingBacked(p)

\* A clear that has begun to remove the history goes on until it is gone.
LEMMA ClearEnds ==
  ASSUME TypeInv, "torn_clear" \notin Faults,
         NEW p \in Procs, Begin(p) \/ Step(p) \/ Crash(p), Clearing
  PROVE  Clearing' \/ (DOMAIN index' = {} /\ DOMAIN blobs' = {})
<1>1. PICK q \in Procs : pc[q] = "clear rest"
  BY DEF Clearing
<1>2. CASE q # p
  BY <1>1, <1>2, OthersKeep DEF Clearing
<1>3. CASE q = p
  <2>1. ClearRest(p)
    BY <1>1, <1>3 DEF Fault, Begin, BeginMutation, BeginRestore, BeginClear, Crash, Step,
       LockMutation, LockTargets, Preflight, Refuse, Reverify, ReverifyFails, WriteBlob,
       WriteBlobFails, PutBlob, SaveIndex, SaveIndexFails, RemoveEvicted, Stage, Rename, Unlink,
       MarkCommitted, MarkFailed, ReadBlob, Recheck, PutBack, ClearFirst
  <2> QED
    BY <2>1 DEF ClearRest, Without
<1> QED
  BY <1>2, <1>3

LEMMA BackedStep ==
  ASSUME "torn_save" \notin Faults, "torn_clear" \notin Faults,
         HistoryInv, BlobInv, NEW p \in Procs, Begin(p) \/ Step(p) \/ Crash(p)
  PROVE  BlobBacked'
<1>1. CASE Clearing
  BY <1>1, ClearEnds DEF HistoryInv, BlobBacked
<1>2. SUFFICES ASSUME ~Clearing, ~Clearing', NEW i \in DOMAIN index' PROVE Backed(i)'
  BY <1>1 DEF BlobBacked, Backed
<1>3. \A j \in DOMAIN index : Backed(j)
  BY <1>2 DEF BlobInv, BlobBacked, Backed
<1>4. TypeInv
  BY DEF HistoryInv
<1>5. CASE UNCHANGED <<index, blobs>>
  BY <1>2, <1>3, <1>5 DEF Backed
<1>6. CASE WriteBlob(p)
  <2>1. i # nextId /\ UNCHANGED index
    BY <1>2, <1>4, <1>6 DEF WriteBlob, PutBlob, HistoryInv, IdsInv, TypeInv, TypeOK
  <2>2. i \in DOMAIN blobs => i \in DOMAIN blobs' /\ blobs'[i] = blobs[i]
    BY <1>6, <2>1 DEF WriteBlob, PutBlob
  <2> QED
    BY <1>2, <1>3, <2>1, <2>2 DEF Backed
<1>14. CASE WriteBlobFails(p)
  <2>1. i # nextId /\ UNCHANGED index
    BY <1>2, <1>4, <1>14 DEF WriteBlobFails, HistoryInv, IdsInv, TypeInv, TypeOK
  <2>2. i \in DOMAIN blobs => i \in DOMAIN blobs' /\ blobs'[i] = blobs[i]
    BY <1>14, <2>1 DEF WriteBlobFails, PutBlob
  <2> QED
    BY <1>2, <1>3, <2>1, <2>2 DEF Backed
<1>7. CASE SaveIndex(p)
  <2> DEFINE kept == Evict(Appended(p), req[p].id)
  <2>1. index' = kept /\ UNCHANGED blobs /\ pc[p] = "index"
    BY <1>7 DEF SaveIndex, Saved
  <2>2. /\ DOMAIN kept \subseteq DOMAIN index \cup {req[p].id}
        /\ kept[i] = IF i = req[p].id THEN NewEntry(p) ELSE index[i]
    <3>1. i \in DOMAIN kept
      BY <1>2, <2>1
    <3>2. /\ DOMAIN kept \subseteq DOMAIN index \cup {req[p].id}
          /\ \A j \in DOMAIN kept : kept[j] = IF j = req[p].id THEN NewEntry(p) ELSE index[j]
      BY KeptIndex
    <3> QED
      BY <3>1, <3>2, Zenon
  <2> HIDE DEF kept
  <2>3. CASE i = req[p].id
    <3>1. index'[i].before = Cur(p).want
      BY <2>1, <2>2, <2>3 DEF NewEntry
    <3> QED
      BY <2>1, <2>3, <3>1 DEF Backed, BlobInv, PendingBacked
  <2>4. CASE i # req[p].id
    BY <1>2, <1>3, <2>1, <2>2, <2>4 DEF Backed
  <2> QED
    BY <2>3, <2>4
<1>8. CASE SaveIndexFails(p)
  <2>1. /\ UNCHANGED index /\ req[p].id \notin DOMAIN index
        /\ \E left : blobs' = Without(blobs, {req[p].id} \ left)
    BY <1>8 DEF past, SaveIndexFails, SaveFails, Fault, HistoryInv, RecordOK
  <2> QED
    BY <1>2, <1>3, <2>1 DEF Backed, Without
<1>9. CASE RemoveEvicted(p)
  <2>1. /\ UNCHANGED index /\ req[p].drop \cap DOMAIN index = {}
        /\ \E left : blobs' = Without(blobs, req[p].drop \ left)
    BY <1>9 DEF past, RemoveEvicted, HistoryInv, RecordOK
  <2> QED
    BY <1>2, <1>3, <2>1 DEF Backed, Without
<1>10. CASE MarkCommitted(p) \/ MarkFailed(p)
  <2>1. UNCHANGED blobs /\ (UNCHANGED index
          \/ \E v : req[p].id \in DOMAIN index /\ index' = Marked(req[p].id, v))
    BY <1>10 DEF MarkCommitted, MarkFailed, Saved, SaveFails
  <2>2. DOMAIN index' = DOMAIN index
    BY <2>1 DEF Marked
  <2>3. i \in DOMAIN index
    BY <1>2, <2>2
  <2>4. index'[i].before = index[i].before
    BY <1>4, <2>1, <2>3, MarkedKeeps
  <2> QED
    BY <1>3, <2>1, <2>3, <2>4 DEF Backed
<1>11. CASE BeginRestore(p)
  <2>1. UNCHANGED blobs /\ \E u : index' = Reconcile(u)
    BY <1>11 DEF BeginRestore, Saved
  <2>2. i \in DOMAIN index /\ index'[i].before = index[i].before
    BY <1>2, <1>4, <2>1, ReconcileKeeps DEF Reconcile
  <2> QED
    BY <1>3, <2>1, <2>2 DEF Backed
<1>12. CASE ClearFirst(p)
  BY <1>2, <1>4, <1>12 DEF ClearFirst, Goto, Clearing, TypeInv, TypeOK
<1>13. CASE ClearRest(p)
  BY <1>2, <1>13 DEF ClearRest, Without
<1> QED
  BY <1>5, <1>6, <1>7, <1>8, <1>9, <1>10, <1>11, <1>12, <1>13, <1>14 DEF past, disk, Begin,
     BeginMutation, BeginClear, Crash, Step, LockMutation, LockTargets, Preflight, Refuse,
     Reverify, ReverifyFails, Stage, Rename, Unlink, ReadBlob, Recheck, PutBack

LEMMA PendingStep ==
  ASSUME HistoryInv, BlobInv, NEW p \in Procs, Begin(p) \/ Step(p) \/ Crash(p),
         NEW q \in Procs, pc'[q] = "index"
  PROVE  PendingBacked(q)'
<1>1. TypeInv
  BY DEF HistoryInv
<1>2. CASE q # p
  <2>1. pc[q] = "index" /\ req'[q] = req[q]
    BY <1>1, <1>2, OthersKeep
  <2>2. UNCHANGED blobs
    BY <1>2, <2>1, HistoryMine DEF HoldsHistory
  <2> QED
    BY <2>1, <2>2 DEF BlobInv, PendingBacked, Cur
<1>3. CASE q = p
  <2>1. WriteBlob(p)
    <3>1. pc'[p] = "index"
      BY <1>3
    <3> QED
      BY <1>1, <3>1 DEF past, TypeInv, TypeOK, Goto, Return, Decide, Begin, BeginMutation,
         BeginRestore, BeginClear, Crash, Step, LockMutation, LockTargets, Preflight, Refuse,
         Reverify, ReverifyFails, WriteBlobFails, SaveIndex, SaveIndexFails, RemoveEvicted, Stage,
         Rename, Unlink, MarkCommitted, MarkFailed, Proceed, ReadBlob, Recheck, PutBack, ClearFirst,
         ClearRest
  <2> DEFINE r == [req[p] EXCEPT !.id = nextId]
  <2>2. req[p] \in Request /\ req'[p] = r
    BY <1>1, <2>1 DEF WriteBlob, PutBlob, TypeInv, TypeOK
  <2>3. r.id = nextId /\ r.ops = req[p].ops /\ r.at = req[p].at
    BY <2>2 DEF Request
  <2> HIDE DEF r
  <2>4. Cur(p)' = Cur(p) /\ req'[p].id = nextId
    BY <2>2, <2>3 DEF Cur
  <2>5. Cur(p).want # Absent => nextId \in DOMAIN blobs' /\ blobs'[nextId] = Cur(p).want
    BY <2>1 DEF WriteBlob, PutBlob
  <2> QED
    BY <1>3, <2>4, <2>5 DEF PendingBacked
<1> QED
  BY <1>2, <1>3

LEMMA BlobStep ==
  ASSUME "torn_save" \notin Faults, "torn_clear" \notin Faults
  PROVE  HistoryInv /\ BlobInv /\ [Next]_vars => BlobInv'
<1> SUFFICES ASSUME HistoryInv, BlobInv, [Next]_vars PROVE BlobInv'
  OBVIOUS
<1>1. CASE UNCHANGED vars
  BY <1>1 DEF vars, disk, locks, BlobInv, BlobBacked, Clearing, PendingBacked, Cur
<1>2. CASE \E t \in Targets : Edit(t)
  BY <1>2 DEF Edit, BlobInv, BlobBacked, Clearing, PendingBacked, Cur
<1>3. CASE List
  <2>1. UNCHANGED <<pc, req, blobs>> /\ (UNCHANGED index \/ \E u : index' = Reconcile(u))
    BY <1>3 DEF List, Saved, SaveFails
  <2>2. TypeInv /\ DOMAIN index' = DOMAIN index
    BY <2>1 DEF HistoryInv, Reconcile
  <2>3. \A i \in DOMAIN index : index'[i].before = index[i].before
    BY <2>1, <2>2, ReconcileKeeps
  <2>4. BlobBacked'
    BY <2>1, <2>2, <2>3 DEF BlobInv, BlobBacked, Clearing
  <2> QED
    BY <2>1, <2>4 DEF BlobInv, PendingBacked, Cur
<1>4. ASSUME NEW p \in Procs, Begin(p) \/ Step(p) \/ Crash(p) PROVE BlobInv'
  <2>1. BlobBacked'
    BY <1>4, BackedStep
  <2>2. \A q \in Procs : PendingBacked(q)'
    BY <1>4, PendingStep DEF PendingBacked
  <2> QED
    BY <2>1, <2>2 DEF BlobInv
<1> QED
  BY <1>1, <1>2, <1>3, <1>4 DEF Next

\* Whoever dies, between whatever steps, every entry of a file that existed
\* has its blob with the bytes the file had, as long as a save or a clear that
\* fails fails as a whole: the two faults excluded are those by which the
\* index on disk names a blob that the code has just removed.
THEOREM EntriesAreBacked ==
  ASSUME "torn_save" \notin Faults, "torn_clear" \notin Faults
  PROVE  Spec => []BlobBacked
<1>1. Init => BlobInv
  BY DEF Init, BlobInv, BlobBacked, PendingBacked
<1>2. BlobInv => BlobBacked
  BY DEF BlobInv
<1>3. HistoryInv /\ BlobInv /\ [Next]_vars => BlobInv'
  BY BlobStep
<1> QED
  BY <1>1, <1>2, <1>3, HistoryInit, HistoryStep, PTL DEF Spec

\* What another call is about to enter or to remove stays its own.
LEMMA OwedElsewhere ==
  ASSUME HistoryInv, NEW p \in Procs, Begin(p) \/ Step(p) \/ Crash(p),
         NEW q \in Procs \ {p}, NEW i \in DOMAIN blobs', i \in Owed(q)
  PROVE  i \in Owed(q)'
<1>1. pc'[q] = pc[q] /\ req'[q] = req[q]
  BY OthersKeep DEF HistoryInv
<1> QED
  BY <1>1 DEF Owed

\* A step of one call leaves the blobs without an entry accounted for.
LEMMA OrphanOwnStep ==
  ASSUME HistoryInv, NoOrphanBlobs, NEW p \in Procs, Begin(p) \/ Step(p) \/ Crash(p),
         NEW i \in DOMAIN blobs' \ DOMAIN index'
  PROVE  i \in leaked' \/ \E q \in Procs : i \in Owed(q)'
<1>1. TypeInv /\ RecordOK(p) /\ req[p] \in Request
  BY DEF HistoryInv, TypeInv, TypeOK
<1>2. leaked \subseteq leaked'
  BY DEF disk, ghost, past, Begin, BeginMutation, BeginRestore, BeginClear, Crash, Step,
     LockMutation, LockTargets, Preflight, Refuse, Reverify, ReverifyFails, WriteBlob,
     WriteBlobFails, SaveIndex, SaveIndexFails, RemoveEvicted, Stage, Rename, Unlink,
     MarkCommitted, MarkFailed, ReadBlob, Recheck, PutBack, ClearFirst, ClearRest
<1>3. SUFFICES ASSUME i \in DOMAIN blobs \ DOMAIN index => i \in Owed(p)
               PROVE  i \in leaked' \/ i \in Owed(p)'
  <2>1. CASE i \in DOMAIN blobs \ DOMAIN index => i \in Owed(p)
    BY <1>3, <2>1
  <2>2. CASE i \in DOMAIN blobs \ DOMAIN index /\ i \notin Owed(p)
    BY <1>2, <2>2, OwedElsewhere DEF NoOrphanBlobs
  <2> QED
    BY <2>1, <2>2
<1>4. CASE WriteBlob(p)
  <2>1. /\ UNCHANGED index /\ DOMAIN blobs' \subseteq DOMAIN blobs \cup {nextId}
        /\ pc[p] = "snapshot" /\ pc'[p] = "index" /\ req'[p] = [req[p] EXCEPT !.id = nextId]
    BY <1>1, <1>4 DEF WriteBlob, PutBlob, Goto, TypeInv, TypeOK
  <2>2. req'[p].id = nextId
    BY <1>1, <2>1 DEF Request
  <2>3. Owed(p) = {}
    BY <1>1, <2>1 DEF Owed, RecordOK
  <2> QED
    BY <1>3, <2>1, <2>2, <2>3 DEF Owed
<1>5. CASE WriteBlobFails(p)
  <2>1. pc[p] = "snapshot" /\ UNCHANGED index
    BY <1>5 DEF WriteBlobFails
  <2>2. Owed(p) = {}
    BY <1>1, <2>1 DEF Owed, RecordOK
  <2> QED
    BY <1>3, <1>5, <2>1, <2>2 DEF WriteBlobFails, PutBlob
<1>6. CASE SaveIndex(p)
  <2> DEFINE kept == Evict(Appended(p), req[p].id)
             gone == DOMAIN Appended(p) \ DOMAIN kept
  <2>1. index' = kept /\ UNCHANGED blobs /\ pc[p] = "index" /\ pc'[p] = "evict"
    BY <1>1, <1>6 DEF SaveIndex, Saved, Goto, TypeInv, TypeOK
  <2>2. req'[p] = [req[p] EXCEPT !.drop = gone]
    BY <1>1, <1>6 DEF SaveIndex, TypeInv, TypeOK
  <2>3. DOMAIN Appended(p) = DOMAIN index \cup {req[p].id}
    BY KeptIndex
  <2>4. i \in gone
    BY <1>3, <2>1, <2>3 DEF Owed
  <2> HIDE DEF gone, kept
  <2>5. i \in req'[p].drop
    BY <1>1, <2>2, <2>4 DEF Request
  <2> QED
    BY <2>1, <2>5 DEF Owed
<1>7. CASE SaveIndexFails(p)
  <2>1. pc[p] = "index"
    BY <1>7 DEF SaveIndexFails
  <2>2. PICK left : /\ blobs' = Without(blobs, {req[p].id} \ left)
                    /\ leaked' = leaked \cup left \cup (DOMAIN index \ DOMAIN index')
    BY <1>7 DEF SaveIndexFails
  <2>3. i \in DOMAIN blobs /\ (i = req[p].id => i \in left)
    BY <2>2 DEF Without
  <2> QED
    BY <1>3, <2>1, <2>2, <2>3 DEF Owed
<1>8. CASE RemoveEvicted(p)
  <2>1. pc[p] = "evict" /\ UNCHANGED index
    BY <1>8 DEF RemoveEvicted
  <2>2. PICK left : blobs' = Without(blobs, req[p].drop \ left) /\ leaked' = leaked \cup left
    BY <1>8 DEF RemoveEvicted
  <2>3. i \in DOMAIN blobs /\ (i \in req[p].drop => i \in left)
    BY <2>2 DEF Without
  <2> QED
    BY <1>3, <2>1, <2>2, <2>3 DEF Owed
<1>9. CASE ClearFirst(p)
  <2>1. pc'[p] = "clear rest"
    BY <1>1, <1>9 DEF ClearFirst, Goto, TypeInv, TypeOK
  <2> QED
    BY <2>1 DEF Owed
<1>10. CASE ClearRest(p)
  BY <1>10 DEF ClearRest, Without
<1>11. CASE Crash(p)
  BY <1>3, <1>11 DEF Crash, disk
<1>12. ASSUME DOMAIN index' = DOMAIN index, UNCHANGED blobs,
              pc[p] \notin {"index", "evict", "clear rest"}
       PROVE  FALSE
  BY <1>1, <1>3, <1>12 DEF Owed, RecordOK
<1>13. CASE BeginRestore(p) \/ MarkCommitted(p) \/ MarkFailed(p)
  <2>1. DOMAIN index' = DOMAIN index
    BY <1>13 DEF BeginRestore, MarkCommitted, MarkFailed, Saved, SaveFails, Marked, Reconcile
  <2> QED
    BY <1>12, <1>13, <2>1 DEF BeginRestore, MarkCommitted, MarkFailed
<1>14. CASE BeginMutation(p) \/ BeginClear(p) \/ LockMutation(p) \/ LockTargets(p)
             \/ Preflight(p) \/ Refuse(p) \/ Reverify(p) \/ ReverifyFails(p) \/ Stage(p)
             \/ Rename(p) \/ Unlink(p) \/ ReadBlob(p) \/ Recheck(p) \/ PutBack(p)
  BY <1>12, <1>14 DEF disk, BeginMutation, BeginClear, LockMutation, LockTargets, Preflight,
     Refuse, Reverify, ReverifyFails, Stage, Rename, Unlink, ReadBlob, Recheck, PutBack
<1> QED
  BY <1>4, <1>5, <1>6, <1>7, <1>8, <1>9, <1>10, <1>11, <1>13, <1>14 DEF Begin, Step

\* No blob is left behind by a step that goes through: each belongs to an entry,
\* is being recorded, is about to be removed, or was left by a step that failed or
\* a process that died - whichever steps fail and whoever dies.
THEOREM BlobsAreNotLeaked == Spec => []NoOrphanBlobs
<1>1. Init => NoOrphanBlobs
  BY DEF Init, NoOrphanBlobs
<1>2. HistoryInv /\ NoOrphanBlobs /\ [Next]_vars => NoOrphanBlobs'
  <2> SUFFICES ASSUME HistoryInv, NoOrphanBlobs, [Next]_vars PROVE NoOrphanBlobs'
    OBVIOUS
  <2>1. ASSUME UNCHANGED <<pc, req, blobs, leaked>>, DOMAIN index' = DOMAIN index
        PROVE  NoOrphanBlobs'
    BY <2>1 DEF NoOrphanBlobs, Owed
  <2>2. CASE UNCHANGED vars
    BY <2>1, <2>2 DEF vars, disk, ghost, past
  <2>3. CASE List
    BY <2>1, <2>3 DEF List, Saved, SaveFails, Reconcile, ghost, past
  <2>4. CASE \E t \in Targets : Edit(t)
    BY <2>1, <2>4 DEF Edit, past
  <2>5. ASSUME NEW p \in Procs, Begin(p) \/ Step(p) \/ Crash(p) PROVE NoOrphanBlobs'
    BY <2>5, OrphanOwnStep DEF NoOrphanBlobs
  <2> QED
    BY <2>2, <2>3, <2>4, <2>5 DEF Next
<1> QED
  BY <1>1, <1>2, HistoryInit, HistoryStep, PTL DEF Spec

-----------------------------------------------------------------------------
(* What the entries say of the calls that have returned.                   *)

\* What a call that has its snapshot knows of the change it makes: nothing has
\* been changed until its verdict says so, and the verdict is true.
VerdictOK(p) ==
  /\ req[p].kind = "mutate" /\ pc[p] \in Taken \ {"mark"} => req[p].id \notin applied
  /\ req[p].kind = "mutate" /\ pc[p] = "mark" =>
       /\ req[p].verdict # "prepared"
       /\ req[p].verdict = "committed" => req[p].id \in applied
       /\ req[p].verdict = "aborted" => req[p].id \notin applied
  /\ req[p].kind = "restore" /\ pc[p] = "mark" => req[p].verdict = "uncertain"

HonestEntry(i) ==
  /\ index[i].state # "prepared"
  /\ index[i].state = "committed" => i \in applied
  /\ index[i].state = "aborted"   => i \notin applied

\* Steps that take p neither to a snapshot of its own nor to a verdict.
LEMMA AwayFromVerdict ==
  ASSUME NEW p \in Procs, pc'[p] \notin Taken
  PROVE  VerdictOK(p)'
BY DEF VerdictOK, Taken

\* A step that leaves the verdict and the changes made as they are.
LEMMA SameVerdict ==
  ASSUME NEW p \in Procs, VerdictOK(p), UNCHANGED applied, req'[p].id = req[p].id,
         req'[p].kind = req[p].kind, pc'[p] \in Taken \ {"mark"}, pc[p] \in Taken \ {"mark"}
  PROVE  VerdictOK(p)'
BY DEF VerdictOK

LEMMA DecideFields ==
  ASSUME TypeInv, NEW p \in Procs, NEW v, Decide(p, v)
  PROVE  /\ req'[p].id = req[p].id /\ req'[p].kind = req[p].kind
         /\ req'[p].verdict = v /\ pc'[p] = "mark"
<1> DEFINE r == [req[p] EXCEPT !.verdict = v]
<1>1. req[p] \in Request
  BY DEF TypeInv, TypeOK
<1>2. r.id = req[p].id /\ r.kind = req[p].kind /\ r.verdict = v
  BY <1>1 DEF Request
<1>3. req'[p] = r /\ pc'[p] = "mark"
  BY DEF Decide, Goto, TypeInv, TypeOK
<1> HIDE DEF r
<1> QED
  BY <1>2, <1>3

LEMMA OwnVerdict ==
  ASSUME HistoryInv, NEW p \in Procs, VerdictOK(p), Begin(p) \/ Step(p) \/ Crash(p)
  PROVE  VerdictOK(p)'
<1>1. TypeInv /\ req[p] \in Request /\ RecordOK(p)
  BY DEF HistoryInv, TypeInv, TypeOK
<1>2. CASE Return(p)
  <2>1. pc'[p] = "idle"
    BY <1>1, <1>2 DEF Return, Goto, TypeInv, TypeOK
  <2> QED
    BY <2>1, AwayFromVerdict DEF Taken
<1>3. CASE Begin(p)
  <2>1. pc'[p] = "lock"
    BY <1>1, <1>3 DEF Begin, BeginMutation, BeginRestore, BeginClear, Goto, TypeInv, TypeOK
  <2> QED
    BY <2>1, AwayFromVerdict DEF Taken
<1>4. CASE LockMutation(p) \/ LockTargets(p) \/ Preflight(p) \/ Reverify(p) \/ ClearFirst(p)
  <2>1. pc'[p] \notin Taken
    BY <1>1, <1>4 DEF LockMutation, LockTargets, Preflight, Reverify, ClearFirst, Goto,
       Taken, TypeInv, TypeOK
  <2> QED
    BY <2>1, AwayFromVerdict
<1>5. CASE (ReadBlob(p) \/ Recheck(p)) /\ ~Return(p)
  <2>1. pc'[p] \in {"recheck", "put back"}
    BY <1>1, <1>5 DEF ReadBlob, Recheck, Goto, TypeInv, TypeOK
  <2> QED
    BY <2>1, AwayFromVerdict DEF Taken
<1>6. CASE WriteBlob(p)
  <2> DEFINE r == [req[p] EXCEPT !.id = nextId]
  <2>1. r.id = nextId
    BY <1>1 DEF Request
  <2>2. req'[p] = r /\ pc'[p] = "index" /\ UNCHANGED applied
    BY <1>1, <1>6 DEF WriteBlob, PutBlob, Goto, ghost, past, TypeInv, TypeOK
  <2>3. nextId \notin applied
    BY <1>1 DEF HistoryInv, IdsInv, TypeInv, TypeOK
  <2> HIDE DEF r
  <2> QED
    BY <2>1, <2>2, <2>3 DEF VerdictOK
<1>7. CASE SaveIndex(p) \/ RemoveEvicted(p)
  <2>1. req'[p].id = req[p].id /\ req'[p].kind = req[p].kind /\ UNCHANGED applied
    BY <1>1, <1>7 DEF SaveIndex, RemoveEvicted, ghost, past, Request, TypeInv, TypeOK
  <2>2. pc'[p] \in {"evict", "stage", "replace"} /\ pc[p] \in {"index", "evict"}
    BY <1>1, <1>7 DEF SaveIndex, RemoveEvicted, Goto, TypeInv, TypeOK
  <2> QED
    BY <2>1, <2>2, SameVerdict DEF Taken
<1>8. CASE Stage(p)
  <2>1. UNCHANGED applied /\ pc[p] = "stage" /\ req[p].kind = "mutate"
    BY <1>1, <1>8 DEF Stage, ghost, past, RecordOK
  <2>2. CASE Decide(p, "aborted")
    BY <1>1, <2>1, <2>2, DecideFields DEF VerdictOK, Taken
  <2>3. CASE Goto(p, "replace") /\ UNCHANGED req
    <3>1. pc'[p] = "replace"
      BY <1>1, <2>3 DEF Goto, TypeInv, TypeOK
    <3> QED
      BY <2>1, <2>3, <3>1, SameVerdict DEF Taken
  <2> QED
    BY <1>8, <2>2, <2>3 DEF Stage
<1>9. CASE Rename(p) \/ Unlink(p)
  <2>1. pc[p] = "replace" /\ req[p].kind = "mutate" /\ req[p].id \notin applied
    BY <1>1, <1>9 DEF Rename, Unlink, RecordOK, VerdictOK, Taken
  <2>2. ASSUME NEW v, Decide(p, v), v \in {"committed", "uncertain"}, req[p].id \in applied'
        PROVE  VerdictOK(p)'
    BY <1>1, <2>1, <2>2, DecideFields DEF VerdictOK, Taken
  <2>3. ASSUME NEW v, Decide(p, v), v \in {"aborted", "uncertain"}, UNCHANGED applied
        PROVE  VerdictOK(p)'
    BY <1>1, <2>1, <2>3, DecideFields DEF VerdictOK, Taken
  <2>4. Replaced(p) => req[p].id \in applied'
    BY DEF Replaced
  <2> QED
    BY <1>9, <2>2, <2>3, <2>4 DEF Rename, Unlink
<1>10. CASE PutBack(p) /\ ~Return(p)
  <2>1. Decide(p, "uncertain") /\ req[p].kind = "restore"
    BY <1>1, <1>10 DEF PutBack, RecordOK
  <2> QED
    BY <1>1, <2>1, DecideFields DEF VerdictOK, Taken
<1>11. CASE MarkCommitted(p) /\ ~Return(p)
  <2>1. CASE Proceed(p)
    <3>1. pc'[p] = "reverify"
      BY <1>1, <1>11, <2>1 DEF Proceed, Goto, TypeInv, TypeOK
    <3> QED
      BY <3>1, AwayFromVerdict DEF Taken
  <2>2. CASE req' = [req EXCEPT ![p].verdict = "uncertain"] /\ UNCHANGED pc
    <3>1. req'[p].verdict = "uncertain" /\ pc'[p] = "mark"
      BY <1>1, <1>11, <2>2 DEF MarkCommitted, Request, TypeInv, TypeOK
    <3> QED
      BY <3>1 DEF VerdictOK
  <2> QED
    BY <1>11, <2>1, <2>2 DEF MarkCommitted
<1> QED
  BY <1>2, <1>3, <1>4, <1>5, <1>6, <1>7, <1>8, <1>9, <1>10, <1>11 DEF past, Step, Crash, Refuse,
     ReverifyFails, WriteBlobFails, SaveIndexFails, MarkFailed, ClearRest, ReadBlob, Recheck

LEMMA OthersVerdict ==
  ASSUME HistoryInv, NEW p \in Procs, Begin(p) \/ Step(p) \/ Crash(p),
         NEW q \in Procs \ {p}, VerdictOK(q)
  PROVE  VerdictOK(q)'
<1>1. pc'[q] = pc[q] /\ req'[q] = req[q]
  BY OthersKeep DEF HistoryInv
<1>2. CASE UNCHANGED applied
  BY <1>1, <1>2 DEF VerdictOK
<1>3. CASE pc[p] = "replace"
  <2>1. req[p].kind = "mutate" /\ req[p].id # 0 /\ applied \subseteq applied'
        /\ applied' \subseteq applied \cup {req[p].id}
    <3>1. req[p].kind = "mutate" /\ req[p].id # 0
      BY <1>3 DEF HistoryInv, RecordOK, Taken
    <3>2. applied \subseteq applied'
      BY <1>3 DEF Begin, BeginMutation, BeginRestore, BeginClear, Crash, Step, LockMutation,
         LockTargets, Preflight, Refuse, Reverify, ReverifyFails, WriteBlob, WriteBlobFails,
         PutBlob, SaveIndex, SaveIndexFails, RemoveEvicted, Stage, Rename, Unlink, Replaced,
         MarkCommitted, MarkFailed, ReadBlob, Recheck, PutBack, ClearFirst, ClearRest, ghost,
         past
    <3> QED
      BY <3>1, <3>2, IdsAdded
  <2>2. req[q].kind = "mutate" => req[q].id # req[p].id
    BY <2>1 DEF HistoryInv, IdsInv
  <2> QED
    BY <1>1, <2>1, <2>2 DEF VerdictOK
<1> QED
  BY <1>2, <1>3, IdsAdded

\* When the snapshot of a call becomes settled, the call has just marked it, or
\* it has failed or died without.
LEMMA Settling ==
  ASSUME HistoryInv, NEW p \in Procs, Begin(p) \/ Step(p) \/ Crash(p),
         req[p].kind = "mutate", req[p].id # 0, req[p].id \notin unmarked',
         ~(req'[p].kind = "mutate" /\ req'[p].id = req[p].id)
  PROVE  MarkFailed(p) \/ (MarkCommitted(p) /\ Proceed(p))
<1>1. TypeInv /\ req[p] \in Request /\ RecordOK(p)
  BY DEF HistoryInv, TypeInv, TypeOK
<1>2. pc[p] \notin Early /\ pc[p] \notin {"idle", "read blob", "recheck", "put back", "clear",
                                         "clear rest"}
  BY <1>1 DEF RecordOK, TypeInv, CallOK
<1>3. ASSUME NEW v, Decide(p, v) PROVE FALSE
  BY <1>1, <1>3, DecideFields
<1>4. ~UNCHANGED req
  OBVIOUS
<1>5. ~SaveIndex(p) /\ ~RemoveEvicted(p)
  BY <1>1 DEF SaveIndex, RemoveEvicted, Request, TypeInv, TypeOK
<1>6. ~SaveIndexFails(p) /\ ~Crash(p)
  BY DEF SaveIndexFails, Crash, Own
<1>7. ~Stage(p) /\ ~Rename(p) /\ ~Unlink(p)
  BY <1>3, <1>4 DEF Stage, Rename, Unlink
<1>8. ~Begin(p) /\ ~LockMutation(p) /\ ~LockTargets(p) /\ ~Preflight(p) /\ ~Refuse(p)
      /\ ~Reverify(p) /\ ~ReverifyFails(p) /\ ~WriteBlob(p) /\ ~WriteBlobFails(p)
      /\ ~ReadBlob(p) /\ ~Recheck(p) /\ ~PutBack(p) /\ ~ClearFirst(p) /\ ~ClearRest(p)
  BY <1>2 DEF Early, Begin, BeginMutation, BeginRestore, BeginClear, LockMutation, LockTargets,
     Preflight, Refuse, Reverify, ReverifyFails, WriteBlob, WriteBlobFails, PutBlob, ReadBlob,
     Recheck, PutBack, ClearFirst, ClearRest
<1>9. MarkCommitted(p) => Proceed(p)
  <2> SUFFICES ASSUME req' = [req EXCEPT ![p].verdict = "uncertain"] PROVE FALSE
    BY DEF MarkCommitted
  <2> QED
    BY <1>1 DEF Request, TypeInv, TypeOK
<1> QED
  BY <1>5, <1>6, <1>7, <1>8, <1>9 DEF past, Step

LEMMA SettledNow ==
  ASSUME HistoryInv, NEW p \in Procs, VerdictOK(p), req[p].kind = "mutate", req[p].id # 0,
         NEW i \in DOMAIN index', i = req[p].id, i \notin unmarked',
         MarkFailed(p) \/ (MarkCommitted(p) /\ Proceed(p))
  PROVE  HonestEntry(i)'
<1>1. TypeInv
  BY DEF HistoryInv
<1>2. UNCHANGED applied /\ pc[p] = "mark"
  BY DEF past, MarkFailed, MarkCommitted
<1>3. PICK v : /\ req[p].id \in DOMAIN index /\ index' = Marked(req[p].id, v)
               /\ v = req[p].verdict
  <2>1. CASE MarkFailed(p)
    BY <2>1 DEF MarkFailed, Saved, Own
  <2>2. CASE MarkCommitted(p) /\ Proceed(p)
    <3>1. ~(req' = [req EXCEPT ![p].verdict = "uncertain"] /\ UNCHANGED pc)
      BY <1>1, <1>2, <2>2 DEF Proceed, Return, Goto, TypeInv, TypeOK
    <3>2. Saved(Marked(req[p].id, "committed")) /\ req[p].verdict = "committed"
          /\ req[p].id \in DOMAIN index
      BY <2>2, <3>1 DEF MarkCommitted
    <3> QED
      BY <3>2 DEF Saved
  <2> QED
    BY <2>1, <2>2
<1>4. index'[i].state = req[p].verdict
  BY <1>1, <1>3, MarkedKeeps
<1> QED
  BY <1>2, <1>4 DEF VerdictOK, HonestEntry

\* Snapshots that a call under way has given a number to.
LEMMA UnsettledAre ==
  \A i : i # 0 => (i \in Unsettled <=> \E q \in Procs : req[q].kind = "mutate" /\ req[q].id = i)
BY DEF Unsettled, Own

\* A settled entry keeps its state, or is marked uncertain by a restore.
LEMMA SettledKept ==
  ASSUME HistoryInv, \A q \in Procs : VerdictOK(q), NEW p \in Procs,
         Begin(p) \/ Step(p) \/ Crash(p),
         NEW i \in DOMAIN index, i \in DOMAIN index',
         i \notin Unsettled, HonestEntry(i)
  PROVE  HonestEntry(i)'
<1>1. TypeInv /\ i # 0
  BY DEF HistoryInv, IdsInv
<1>2. i \in applied' <=> i \in applied
  <2>1. CASE UNCHANGED applied
    BY <2>1
  <2>2. CASE pc[p] = "replace"
    <3>1. i # req[p].id
      BY <1>1, <2>2, UnsettledAre DEF HistoryInv, RecordOK
    <3>2. applied \subseteq applied'
      BY <2>2 DEF Begin, BeginMutation, BeginRestore, BeginClear, Crash, Step, LockMutation,
         LockTargets, Preflight, Refuse, Reverify, ReverifyFails, WriteBlob, WriteBlobFails,
         PutBlob, SaveIndex, SaveIndexFails, RemoveEvicted, Stage, Rename, Unlink, Replaced,
         MarkCommitted, MarkFailed, ReadBlob, Recheck, PutBack, ClearFirst, ClearRest, ghost,
         past
    <3> QED
      BY <3>1, <3>2, IdsAdded
  <2> QED
    BY <2>1, <2>2, IdsAdded
<1>3. index'[i].state = index[i].state \/ index'[i].state = "uncertain"
  <2>1. ASSUME NEW u, index' = Reconcile(u) PROVE index'[i].state = index[i].state
    BY <1>1, <2>1, ReconcileKeeps DEF Resolve, HonestEntry
  <2>2. CASE Begin(p)
    BY <2>1, <2>2 DEF Begin, BeginMutation, BeginRestore, BeginClear, Saved, disk
  <2>3. CASE SaveIndex(p) \/ SaveIndexFails(p)
    <3>1. index' = index \/ index' = Evict(Appended(p), req[p].id)
      BY <2>3 DEF SaveIndex, SaveIndexFails, Saved, SaveFails
    <3>2. i # req[p].id
      BY <2>3 DEF SaveIndex, SaveIndexFails, HistoryInv, RecordOK
    <3> DEFINE kept == Evict(Appended(p), req[p].id)
    <3>3. i \in DOMAIN kept => kept[i] = index[i]
      BY <3>2, KeptIndex
    <3> HIDE DEF kept
    <3>4. index' = index \/ index' = kept
      BY <3>1 DEF kept
    <3> QED
      BY <3>3, <3>4
  <2>4. CASE MarkCommitted(p) \/ MarkFailed(p)
    <3>1. index' = index \/ \E v : /\ req[p].id \in DOMAIN index
                                   /\ index' = Marked(req[p].id, v)
                                   /\ v = req[p].verdict
      BY <2>4 DEF MarkCommitted, MarkFailed, Saved, SaveFails
    <3>2. CASE i # req[p].id
      BY <1>1, <3>1, <3>2, MarkedKeeps
    <3>3. CASE i = req[p].id
      <4>1. pc[p] = "mark" /\ req[p].kind \in {"mutate", "restore"} /\ req[p].kind # "mutate"
        BY <1>1, <2>4, <3>3, UnsettledAre DEF MarkCommitted, MarkFailed, TypeInv, TypeOK,
           CallOK, Request
      <4>2. req[p].verdict = "uncertain"
        BY <4>1 DEF VerdictOK
      <4> QED
        BY <1>1, <3>1, <3>3, <4>2, MarkedKeeps
    <3> QED
      BY <3>2, <3>3
  <2>5. CASE ClearFirst(p) \/ ClearRest(p)
    BY <2>5 DEF ClearFirst, ClearRest, Without
  <2> QED
    BY <2>2, <2>3, <2>4, <2>5 DEF Step, Crash, LockMutation, LockTargets, Preflight, Refuse,
       Reverify, ReverifyFails, WriteBlob, WriteBlobFails, PutBlob, RemoveEvicted, Stage,
       Rename, Unlink, ReadBlob, Recheck, PutBack, disk
<1> QED
  BY <1>2, <1>3 DEF HonestEntry

HonestInv == SettledHonest /\ \A p \in Procs : VerdictOK(p)

LEMMA HonestOwnStep ==
  ASSUME HistoryInv, HistoryInv', HonestInv, NEW p \in Procs, Begin(p) \/ Step(p) \/ Crash(p)
  PROVE  SettledHonest'
<1> SUFFICES ASSUME NEW i \in DOMAIN index', i \notin Unsettled', i \notin unmarked'
             PROVE  HonestEntry(i)'
  BY DEF SettledHonest, HonestEntry
<1>1. TypeInv /\ i # 0
  BY DEF HistoryInv, IdsInv
<1>5. i \notin unmarked
  BY DEF disk, ghost, past, Begin, BeginMutation, BeginRestore, BeginClear, Crash, Step,
     LockMutation, LockTargets, Preflight, Refuse, Reverify, ReverifyFails, WriteBlob,
     WriteBlobFails, SaveIndex, SaveIndexFails, RemoveEvicted, Stage, Rename, Unlink,
     MarkCommitted, MarkFailed, ReadBlob, Recheck, PutBack, ClearFirst, ClearRest
<1>6. ~\E q \in Procs : req'[q].kind = "mutate" /\ req'[q].id = i
  <2>1. \A j : j # 0 =>
          (j \in Unsettled' <=> \E q \in Procs : req'[q].kind = "mutate" /\ req'[q].id = j)
    BY DEF Unsettled, Own
  <2> QED
    BY <1>1, <2>1
<1>2. CASE i \in Unsettled
  <2>1. PICK q \in Procs : req[q].kind = "mutate" /\ req[q].id = i
    BY <1>1, <1>2, UnsettledAre
  <2>2. q = p
    <3> SUFFICES ASSUME q # p PROVE FALSE
      OBVIOUS
    <3>1. req'[q] = req[q]
      BY <1>1, OthersKeep
    <3> QED
      BY <1>6, <2>1, <3>1
  <2>3. ~(req'[p].kind = "mutate" /\ req'[p].id = req[p].id)
    BY <1>6, <2>1, <2>2
  <2>4. MarkFailed(p) \/ (MarkCommitted(p) /\ Proceed(p))
    BY <1>1, <2>1, <2>2, <2>3, Settling
  <2> QED
    BY <1>1, <2>1, <2>2, <2>4, SettledNow DEF HonestInv
<1>3. CASE i \notin Unsettled /\ i \in DOMAIN index
  <2>1. HonestEntry(i)
    BY <1>3, <1>5 DEF HonestInv, SettledHonest, HonestEntry
  <2> QED
    BY <1>3, <2>1, SettledKept DEF HonestInv
<1>4. CASE i \notin Unsettled /\ i \notin DOMAIN index
  <2>1. i = req[p].id /\ pc[p] = "index"
    BY <1>4, IdsAdded
  <2>2. req[p].kind = "mutate"
    BY <2>1 DEF HistoryInv, RecordOK
  <2> QED
    BY <1>1, <1>4, <2>1, <2>2, UnsettledAre
<1> QED
  BY <1>2, <1>3, <1>4

LEMMA HonestStep == HistoryInv /\ HonestInv /\ [Next]_vars => HonestInv'
<1> SUFFICES ASSUME HistoryInv, HonestInv, [Next]_vars PROVE HonestInv'
  OBVIOUS
<1>1. HistoryInv'
  BY HistoryStep
<1>2. CASE UNCHANGED vars
  BY <1>2 DEF vars, disk, ghost, past, HonestInv, SettledHonest, Unsettled, Own, VerdictOK
<1>3. CASE \E t \in Targets : Edit(t)
  BY <1>3 DEF past, Edit, HonestInv, SettledHonest, Unsettled, Own, VerdictOK
<1>4. CASE List
  <2>1. UNCHANGED <<pc, req, applied, unmarked>> /\ (UNCHANGED index \/ \E u : index' = Reconcile(u))
    BY <1>4 DEF List, Saved, SaveFails, ghost, past
  <2>2. DOMAIN index' = DOMAIN index
    BY <2>1 DEF Reconcile
  <2>3. ASSUME NEW i \in DOMAIN index, i \notin Unsettled, i \notin unmarked
        PROVE  HonestEntry(i)'
    <3>1. HonestEntry(i)
      BY <2>3 DEF HonestInv, SettledHonest, HonestEntry
    <3>2. index'[i].state = index[i].state
      BY <2>1, <3>1, ReconcileKeeps DEF HistoryInv, Resolve, HonestEntry
    <3> QED
      BY <2>1, <3>1, <3>2 DEF HonestEntry
  <2>4. SettledHonest'
    BY <2>1, <2>2, <2>3 DEF SettledHonest, Unsettled, Own, HonestEntry
  <2> QED
    BY <2>1, <2>4 DEF HonestInv, VerdictOK
<1>5. ASSUME NEW p \in Procs, Begin(p) \/ Step(p) \/ Crash(p) PROVE HonestInv'
  <2>1. SettledHonest'
    BY <1>1, <1>5, HonestOwnStep
  <2>2. \A q \in Procs : VerdictOK(q)'
    BY <1>5, OwnVerdict, OthersVerdict DEF HonestInv
  <2> QED
    BY <2>1, <2>2 DEF HonestInv
<1> QED
  BY <1>2, <1>3, <1>4, <1>5 DEF Next

\* An entry whose call has returned says what happened to the file, whatever
\* `undo list`, restores and other programs do in the meantime and whatever
\* fails, unless that call died or could not save its own mark.
THEOREM EntriesAreHonest == Spec => []SettledHonest
<1>1. Init => HonestInv
  BY NoRequestPlain DEF Init, HonestInv, SettledHonest, VerdictOK, Taken
<1>2. HonestInv => SettledHonest
  BY DEF HonestInv
<1>3. HistoryInv /\ HonestInv /\ [Next]_vars => HonestInv'
  BY HonestStep
<1> QED
  BY <1>1, <1>2, <1>3, HistoryInit, HistoryStep, PTL DEF Spec

-----------------------------------------------------------------------------
(* Induction over numbers, from the well-foundedness of <, and what the    *)
(* running total of the history's bytes and eviction compute.              *)

\* A set of numbers that is not empty has a least one.
LEMMA LeastNat ==
  ASSUME NEW S, S \subseteq Nat, S # {}
  PROVE  \E m \in S : \A k \in S : m <= k
<1> DEFINE R == OpToRel(<, Nat)
<1>1. IsWellFoundedOn(R, Nat)
  BY NatLessThanWellFounded
<1>2. \A x, y \in Nat : y < x => <<y, x>> \in R
  BY DEF OpToRel
<1> HIDE DEF R
<1>3. PICK m \in S : \A k \in S : ~ (<<k, m>> \in R)
  BY <1>1, WFMin
<1>4. ASSUME NEW k \in S PROVE m <= k
  <2>1. ~(<<k, m>> \in R) /\ k \in Nat /\ m \in Nat
    BY <1>3
  <2>2. ~(k < m)
    BY <1>2, <2>1, Zenon
  <2> QED
    BY <2>1, <2>2
<1> QED
  BY <1>4

\* Induction on the natural numbers: a set of them that holds 0 and, with
\* each number, the next one holds them all.
LEMMA NatSetInduction ==
  ASSUME NEW S, 0 \in S, \A n \in Nat : n \in S => n + 1 \in S
  PROVE  Nat \subseteq S
<1> SUFFICES ASSUME Nat \ S # {} PROVE FALSE
  OBVIOUS
<1>1. PICK m \in Nat \ S : \A k \in Nat \ S : m <= k
  BY LeastNat
<1>2. m - 1 \in Nat /\ m - 1 < m
  BY <1>1
<1>3. m - 1 \in S
  BY <1>1, <1>2
<1> QED
  BY <1>1, <1>2, <1>3

\* A running total of the numbers w[1], w[2], ... up to n.
Totals(w, n) ==
  {g \in [0..n -> Nat] : g[0] = 0 /\ \A m \in 1..n : g[m] = g[m - 1] + w[m]}

\* There is one up to every n ...
LEMMA TotalsExist ==
  ASSUME NEW w \in [Nat -> Nat], NEW n \in Nat
  PROVE  Totals(w, n) # {}
<1> DEFINE S == {k \in Nat : Totals(w, k) # {}}
<1>0. \A j \in Nat : w[j] \in Nat
  OBVIOUS
<1>1. 0 \in S
  <2> DEFINE g == [i \in 0..0 |-> 0]
  <2>1. g \in Totals(w, 0)
    BY DEF Totals
  <2> QED
    BY <2>1
<1>2. ASSUME NEW k \in Nat, k \in S PROVE k + 1 \in S
  <2>1. PICK g \in [0..k -> Nat] : g[0] = 0 /\ \A m \in 1..k : g[m] = g[m - 1] + w[m]
    BY <1>2 DEF Totals
  <2> DEFINE h == [i \in 0..(k + 1) |-> IF i <= k THEN g[i] ELSE g[k] + w[k + 1]]
  <2>2. h \in [0..(k + 1) -> Nat] /\ h[0] = 0
    <3>1. k \in 0..k /\ k + 1 \in Nat /\ 0 \in 0..(k + 1) /\ 0 <= k
      OBVIOUS
    <3>2. g[k] \in Nat
      BY <2>1, <3>1
    <3>3. g[k] + w[k + 1] \in Nat
      <4>1. w[k + 1] \in Nat
        BY <1>0, <3>1, Zenon
      <4>2. \A a, b \in Nat : a + b \in Nat
        OBVIOUS
      <4> QED
        BY <3>2, <4>1, <4>2, Zenon
    <3>4. ASSUME NEW i \in 0..(k + 1) PROVE h[i] \in Nat
      <4>1. i <= k => i \in 0..k
        OBVIOUS
      <4> QED
        BY <2>1, <3>3, <4>1
    <3>5. h[0] = 0
      BY <2>1, <3>1
    <3> QED
      BY <3>4, <3>5
  <2>3. ASSUME NEW m \in 1..(k + 1) PROVE h[m] = h[m - 1] + w[m]
    <3>1. CASE m <= k
      BY <2>1, <3>1
    <3>2. CASE m = k + 1
      BY <2>1, <3>2
    <3> QED
      BY <3>1, <3>2
  <2> HIDE DEF h
  <2>4. h \in Totals(w, k + 1)
    BY <2>2, <2>3 DEF Totals
  <2> QED
    BY <2>4
<1> HIDE DEF S
<1>3. n \in S
  BY <1>1, <1>2, NatSetInduction
<1> QED
  BY <1>3 DEF S

\* ... and all of them agree.
LEMMA TotalsAgree ==
  ASSUME NEW w \in [Nat -> Nat], NEW n \in Nat, NEW g \in Totals(w, n),
         NEW m \in Nat, NEW h \in Totals(w, m), NEW k \in 0..n, k <= m
  PROVE  g[k] = h[k]
<1> DEFINE S == {j \in Nat : j <= n /\ j <= m => g[j] = h[j]}
<1>1. 0 \in S
  BY DEF Totals
<1>2. ASSUME NEW j \in Nat, j \in S PROVE j + 1 \in S
  <2> SUFFICES ASSUME j + 1 <= n, j + 1 <= m PROVE g[j + 1] = h[j + 1]
    OBVIOUS
  <2>1. g[j] = h[j]
    BY <1>2
  <2>2. j + 1 \in 1..n /\ j + 1 \in 1..m /\ (j + 1) - 1 = j
    OBVIOUS
  <2>3. g[j + 1] = g[(j + 1) - 1] + w[j + 1] /\ h[j + 1] = h[(j + 1) - 1] + w[j + 1]
    BY <2>2 DEF Totals
  <2> QED
    BY <2>1, <2>2, <2>3
<1> HIDE DEF S
<1>3. k \in S
  BY <1>1, <1>2, NatSetInduction
<1> QED
  BY <1>3 DEF S

\* The recursive definition of a running total defines one.
LEMMA TotalDefined ==
  ASSUME NEW w \in [Nat -> Nat]
  PROVE  \E f : f = [n \in Nat |-> IF n = 0 THEN 0 ELSE f[n - 1] + w[n]]
<1> DEFINE G(n) == CHOOSE g \in Totals(w, n) : TRUE
           f == [n \in Nat |-> G(n)[n]]
<1>1. ASSUME NEW n \in Nat PROVE G(n) \in Totals(w, n)
  BY TotalsExist
<1>2. ASSUME NEW n \in Nat PROVE f[n] = IF n = 0 THEN 0 ELSE f[n - 1] + w[n]
  <2>1. G(n) \in Totals(w, n) /\ f[n] = G(n)[n]
    BY <1>1
  <2>2. CASE n = 0
    BY <2>1, <2>2 DEF Totals
  <2>3. CASE n # 0
    <3>1. n - 1 \in Nat /\ n - 1 \in 0..n /\ n - 1 <= n - 1 /\ n \in 1..n
      BY <2>3
    <3>2. G(n - 1) \in Totals(w, n - 1) /\ f[n - 1] = G(n - 1)[n - 1]
      BY <1>1, <3>1
    <3> HIDE DEF f, G
    <3>3. G(n)[n - 1] = G(n - 1)[n - 1]
      BY <2>1, <3>1, <3>2, TotalsAgree
    <3>4. G(n)[n] = G(n)[n - 1] + w[n]
      BY <2>1, <3>1 DEF Totals
    <3> QED
      BY <2>1, <2>3, <3>2, <3>3, <3>4
  <2> QED
    BY <2>2, <2>3
<1>3. f = [n \in Nat |-> f[n]]
  OBVIOUS
<1> HIDE DEF f
<1>4. f = [n \in Nat |-> IF n = 0 THEN 0 ELSE f[n - 1] + w[n]]
  BY <1>2, <1>3
<1> QED
  BY <1>4

\* The bytes of an entry's blob.
EntryBytes(idx, n) == IF n \in DOMAIN idx THEN Bytes(idx[n].before) ELSE 0

LEMMA BytesTyped ==
  ASSUME NEW idx, \A i \in DOMAIN idx : idx[i] \in Entry, NEW n
  PROVE  EntryBytes(idx, n) \in 0..MaxBytes
BY LimitsAssumption DEF EntryBytes, Bytes, Entry, Holdings

\* Each entry adds its bytes to the total.
LEMMA BytesUpToStep ==
  ASSUME NEW idx, \A i \in DOMAIN idx : idx[i] \in Entry, NEW n \in Nat
  PROVE  /\ BytesUpTo(idx)[0] = 0
         /\ BytesUpTo(idx)[n + 1] = BytesUpTo(idx)[n] + EntryBytes(idx, n + 1)
<1> DEFINE w == [k \in Nat |-> EntryBytes(idx, k)]
           f == BytesUpTo(idx)
<1>1. w \in [Nat -> Nat]
  BY BytesTyped, LimitsAssumption
<1>2. PICK g : g = [k \in Nat |-> IF k = 0 THEN 0 ELSE g[k - 1] + w[k]]
  BY <1>1, TotalDefined
<1>3. g = [k \in Nat |-> IF k = 0 THEN 0
                          ELSE g[k - 1] + (IF k \in DOMAIN idx THEN Bytes(idx[k].before) ELSE 0)]
  BY <1>2 DEF EntryBytes
<1>4. f = [k \in Nat |-> IF k = 0 THEN 0
                          ELSE f[k - 1] + (IF k \in DOMAIN idx THEN Bytes(idx[k].before) ELSE 0)]
  BY <1>3 DEF BytesUpTo
<1> HIDE DEF f
<1> QED
  BY <1>4 DEF f, EntryBytes

LEMMA BytesUpToTyped ==
  ASSUME NEW idx, \A i \in DOMAIN idx : idx[i] \in Entry, NEW n \in Nat
  PROVE  BytesUpTo(idx)[n] \in Nat
<1> DEFINE f == BytesUpTo(idx)
           S == {k \in Nat : f[k] \in Nat}
<1>1. 0 \in S
  BY BytesUpToStep
<1>2. ASSUME NEW k \in Nat, k \in S PROVE k + 1 \in S
  <2>1. f[k + 1] = f[k] + EntryBytes(idx, k + 1)
    BY BytesUpToStep
  <2>2. EntryBytes(idx, k + 1) \in Nat
    BY BytesTyped, LimitsAssumption
  <2> HIDE DEF f
  <2>3. f[k] \in Nat
    BY <1>2
  <2>4. f[k + 1] \in Nat
    BY <2>1, <2>2, <2>3
  <2> QED
    BY <2>4
<1> HIDE DEF S
<1>3. n \in S
  BY <1>1, <1>2, NatSetInduction
<1> QED
  BY <1>3 DEF S

\* The entries newer than n, up to n + k.
Window(idx, n, k) == {i \in DOMAIN idx : n < i /\ i <= n + k}

\* The blobs of a window of the index are bounded by the number of its entries.
LEMMA BytesBound ==
  ASSUME NEW idx, DOMAIN idx \subseteq Nat, \A i \in DOMAIN idx : idx[i] \in Entry,
         NEW B \in Nat, \A i \in Nat : EntryBytes(idx, i) <= B,
         NEW n \in Nat, NEW k \in Nat
  PROVE  /\ IsFiniteSet(Window(idx, n, k))
         /\ BytesUpTo(idx)[n + k] - BytesUpTo(idx)[n] <= Cardinality(Window(idx, n, k)) * B
<1> DEFINE f == BytesUpTo(idx)
           Bounded(j) == /\ IsFiniteSet(Window(idx, n, j))
                         /\ f[n + j] - f[n] <= Cardinality(Window(idx, n, j)) * B
           S == {j \in Nat : Bounded(j)}
<1>1. \A j \in Nat : f[j] \in Nat
  BY BytesUpToTyped
<1>2. Bounded(0)
  <2>1. Window(idx, n, 0) = {}
    BY DEF Window
  <2>2. n + 0 = n /\ f[n] \in Nat
    BY <1>1
  <2> HIDE DEF f
  <2>3. f[n + 0] - f[n] = 0 /\ 0 * B = 0
    BY <2>2
  <2>4. IsFiniteSet(Window(idx, n, 0)) /\ Cardinality(Window(idx, n, 0)) = 0
    BY <2>1, FS_EmptySet
  <2> QED
    BY <2>3, <2>4
<1>3. ASSUME NEW j \in Nat, Bounded(j) PROVE Bounded(j + 1)
  <2> DEFINE W == Window(idx, n, j)
             V == Window(idx, n, j + 1)
             x == n + j + 1
  <2>1. f[x] = f[n + j] + EntryBytes(idx, x)
    BY BytesUpToStep
  <2>2. V = IF x \in DOMAIN idx THEN W \cup {x} ELSE W
    BY DEF Window
  <2>3. x \notin W
    BY DEF Window
  <2>4. f[x] \in Nat /\ f[n + j] \in Nat /\ f[n] \in Nat
    BY <1>1
  <2>5. EntryBytes(idx, x) <= B /\ EntryBytes(idx, x) \in Nat
    BY BytesTyped, LimitsAssumption
  <2>6. IsFiniteSet(W) /\ Cardinality(W) \in Nat /\ f[n + j] - f[n] <= Cardinality(W) * B
    BY <1>3, FS_CardinalityType
  <2>7. f[n + (j + 1)] = f[x] /\ n + (j + 1) = x
    OBVIOUS
  <2> HIDE DEF f, W, V, x
  <2>8. CASE x \in DOMAIN idx
    <3>1. V = W \cup {x}
      BY <2>2, <2>8
    <3>2. IsFiniteSet(V) /\ Cardinality(V) = Cardinality(W) + 1
      BY <2>3, <2>6, <3>1, FS_AddElement
    <3>3. (Cardinality(W) + 1) * B = Cardinality(W) * B + B
      BY <2>6
    <3>4. f[x] - f[n] <= Cardinality(W) * B + B
      BY <2>1, <2>4, <2>5, <2>6
    <3> QED
      BY <2>7, <3>2, <3>3, <3>4 DEF V
  <2>9. CASE x \notin DOMAIN idx
    <3>1. V = W /\ EntryBytes(idx, x) = 0
      BY <2>2, <2>9 DEF EntryBytes
    <3>2. f[x] - f[n] <= Cardinality(W) * B
      BY <2>1, <2>4, <2>6, <3>1
    <3> QED
      BY <2>6, <2>7, <3>1, <3>2 DEF V
  <2> QED
    BY <2>8, <2>9
<1>4. 0 \in S /\ \A j \in Nat : j \in S => j + 1 \in S
  BY <1>2, <1>3
<1> HIDE DEF S
<1>5. k \in S
  BY <1>4, NatSetInduction
<1> QED
  BY <1>5 DEF S

\* What eviction leaves when it cuts at m.
CutAt(idx, last, m) == Evict(idx, last) = [i \in {i \in DOMAIN idx : i > m} |-> idx[i]]

\* Eviction keeps the entries from some cut on, no later than any from which on
\* they meet both limits.
LEMMA EvictCuts ==
  ASSUME NEW idx, DOMAIN idx \subseteq Nat, NEW last \in Nat, NEW n \in 0..last,
         Cardinality({i \in DOMAIN idx : i > n}) <= MaxEntries,
         BytesUpTo(idx)[last] - BytesUpTo(idx)[n] <= MaxBytes
  PROVE  \E m \in 0..n : CutAt(idx, last, m)
<1> DEFINE Newer(m) == {i \in DOMAIN idx : i > m}
           Fits(m) == /\ Cardinality(Newer(m)) <= MaxEntries
                      /\ BytesUpTo(idx)[last] - BytesUpTo(idx)[m] <= MaxBytes
           Least(m) == Fits(m) /\ \A k \in 0..last : Fits(k) => m <= k
           cut == CHOOSE m \in 0..last : Least(m)
           S == {m \in 0..last : Fits(m)}
<1>1. n \in S /\ S \subseteq Nat
  OBVIOUS
<1>2. PICK m \in S : \A k \in S : m <= k
  BY <1>1, LeastNat
<1>3. Least(m) /\ m \in 0..last
  BY <1>2
<1>4. cut \in 0..last /\ Least(cut)
  <2> HIDE DEF Least
  <2> QED
    BY <1>3
<1>5. cut \in 0..n
  BY <1>1, <1>4
<1>6. Evict(idx, last) = [i \in Newer(cut) |-> idx[i]]
  BY DEF Evict
<1> HIDE DEF cut
<1>7. CutAt(idx, last, cut)
  BY <1>6 DEF CutAt
<1> QED
  BY <1>5, <1>7

\* Eviction spares every entry that is newer than some point from which on
\* the entries meet both limits.
LEMMA EvictSpares ==
  ASSUME NEW idx, DOMAIN idx \subseteq Nat, NEW last \in Nat, NEW n \in 0..last,
         Cardinality({i \in DOMAIN idx : i > n}) <= MaxEntries,
         BytesUpTo(idx)[last] - BytesUpTo(idx)[n] <= MaxBytes
  PROVE  \A i \in DOMAIN idx : i > n => i \in DOMAIN Evict(idx, last)
<1>1. PICK m \in 0..n : CutAt(idx, last, m)
  BY EvictCuts
<1>2. n \in Int /\ m \in Int /\ m <= n /\ \A i \in DOMAIN idx : i \in Int
  OBVIOUS
<1>3. \A i \in DOMAIN idx : i > n => i > m
  BY <1>2
<1>4. DOMAIN Evict(idx, last) = {i \in DOMAIN idx : i > m}
  BY <1>1 DEF CutAt
<1> QED
  BY <1>3, <1>4

-----------------------------------------------------------------------------
(* Entries of mutations under way are neither evicted nor cleared.         *)

LEMMA AppendedTyped ==
  ASSUME HistoryInv, NEW p \in Procs, pc[p] = "index"
  PROVE  /\ req[p].id \in Nat \ {0} /\ nextId = req[p].id + 1
         /\ DOMAIN Appended(p) = DOMAIN index \cup {req[p].id}
         /\ DOMAIN Appended(p) \subseteq 1..req[p].id
         /\ \A i \in DOMAIN Appended(p) : Appended(p)[i] \in Entry
<1>1. Cur(p) \in Op /\ req[p].id \in Nat /\ req[p].id # 0 /\ nextId = req[p].id + 1
  BY NotClear DEF HistoryInv, RecordOK, Taken, TypeInv, TypeOK, Request
<1>2. NewEntry(p) \in Entry
  BY <1>1 DEF NewEntry, Op, Entry, States
<1>3. DOMAIN Appended(p) = DOMAIN index \cup {req[p].id}
  BY DEF Appended
<1>4. DOMAIN index \subseteq 1..req[p].id
  BY <1>1 DEF HistoryInv, IdsInv
<1>5. \A i \in DOMAIN Appended(p) : Appended(p)[i] \in Entry
  BY <1>2 DEF Appended, HistoryInv, TypeInv, TypeOK
<1> QED
  BY <1>1, <1>3, <1>4, <1>5

\* Alone, the entry that was just appended fits.
LEMMA OwnFits ==
  ASSUME HistoryInv, NEW p \in Procs, pc[p] = "index"
  PROVE  /\ req[p].id - 1 \in 0..req[p].id
         /\ Cardinality({i \in DOMAIN Appended(p) : i > req[p].id - 1}) <= MaxEntries
         /\ BytesUpTo(Appended(p))[req[p].id] - BytesUpTo(Appended(p))[req[p].id - 1] <= MaxBytes
<1> DEFINE idx == Appended(p)
           last == req[p].id
<1>1. /\ last \in Nat \ {0} /\ DOMAIN idx = DOMAIN index \cup {last}
      /\ DOMAIN idx \subseteq 1..last
      /\ \A i \in DOMAIN idx : idx[i] \in Entry
  BY AppendedTyped
<1> HIDE DEF idx, last
<1>2. last - 1 \in 0..last /\ last - 1 \in Nat /\ (last - 1) + 1 = last
  BY <1>1
<1>3. {i \in DOMAIN idx : i > last - 1} = {last}
  BY <1>1
<1>4. Cardinality({i \in DOMAIN idx : i > last - 1}) <= MaxEntries
  <2>1. Cardinality({last}) = 1
    BY FS_Singleton
  <2> QED
    BY <1>3, <2>1, LimitsAssumption
<1>5. BytesUpTo(idx)[last] = BytesUpTo(idx)[last - 1] + EntryBytes(idx, last)
  <2>1. BytesUpTo(idx)[(last - 1) + 1]
          = BytesUpTo(idx)[last - 1] + EntryBytes(idx, (last - 1) + 1)
    BY <1>1, <1>2, BytesUpToStep
  <2> QED
    BY <1>2, <2>1
<1>6. BytesUpTo(idx)[last] - BytesUpTo(idx)[last - 1] <= MaxBytes
  <2>1. EntryBytes(idx, last) \in 0..MaxBytes /\ BytesUpTo(idx)[last - 1] \in Nat
    BY <1>1, <1>2, BytesTyped, BytesUpToTyped
  <2> QED
    BY <1>5, <2>1, LimitsAssumption
<1> QED
  BY <1>2, <1>4, <1>6 DEF idx, last

\* Eviction spares the entry that was just appended.
LEMMA OwnSpared ==
  ASSUME HistoryInv, NEW p \in Procs, pc[p] = "index"
  PROVE  req[p].id \in DOMAIN Evict(Appended(p), req[p].id)
<1> DEFINE idx == Appended(p)
           last == req[p].id
<1>1. /\ last \in Nat \ {0} /\ DOMAIN idx = DOMAIN index \cup {last}
      /\ DOMAIN idx \subseteq 1..last
  BY AppendedTyped
<1>2. /\ last - 1 \in 0..last
      /\ Cardinality({i \in DOMAIN idx : i > last - 1}) <= MaxEntries
      /\ BytesUpTo(idx)[last] - BytesUpTo(idx)[last - 1] <= MaxBytes
  BY OwnFits
<1> HIDE DEF idx, last
<1>3. DOMAIN idx \subseteq Nat /\ last \in DOMAIN idx /\ last > last - 1
  BY <1>1
<1>4. last \in DOMAIN Evict(idx, last)
  BY <1>1, <1>2, <1>3, EvictSpares
<1> QED
  BY <1>4 DEF idx, last

\* A call that is not inside only reconciles the history.
LEMMA OutsideStep ==
  ASSUME NEW p \in Procs, Begin(p) \/ Step(p) \/ Crash(p), ~Inside(p)
  PROVE  UNCHANGED applied /\ (UNCHANGED index \/ \E u : index' = Reconcile(u))
BY DEF Inside, disk, ghost, past, Saved, Begin, BeginMutation, BeginRestore, BeginClear, Crash,
   Step, LockMutation, LockTargets, Preflight, Refuse, Reverify, ReverifyFails, WriteBlob,
   WriteBlobFails, PutBlob, SaveIndex, SaveIndexFails, RemoveEvicted, Stage, Rename, Unlink,
   MarkCommitted, MarkFailed, ReadBlob, Recheck, PutBack, ClearFirst, ClearRest

\* With one engine, whoever is inside is the only one that is.
LEMMA OnlyOneInside ==
  ASSUME NEW s \in Scopes, Scopes = {s}, TypeInv, LockInv,
         NEW p \in Procs, NEW q \in Procs, Inside(p), Inside(q)
  PROVE  p = q
BY DEF LockInv, TypeInv, TypeOK, Request

LEMMA OwnEntryStays ==
  ASSUME HistoryInv, OwnEntryKept, NEW p \in Procs, Begin(p) \/ Step(p) \/ Crash(p),
         req'[p].kind = "mutate", pc'[p] \in {"evict", "stage", "replace", "mark"}
  PROVE  req'[p].id \in DOMAIN index'
<1>1. TypeInv /\ req[p] \in Request /\ RecordOK(p)
  BY DEF HistoryInv, TypeInv, TypeOK
<1>2. ~Return(p) /\ ~Begin(p)
  BY <1>1 DEF Return, Begin, BeginMutation, BeginRestore, BeginClear, Goto, TypeInv, TypeOK
<1>3. CASE SaveIndex(p)
  <2>1. index' = Evict(Appended(p), req[p].id) /\ pc[p] = "index"
    BY <1>3 DEF SaveIndex, Saved
  <2>2. req'[p].id = req[p].id
    BY <1>1, <1>3 DEF SaveIndex, Request, TypeInv, TypeOK
  <2> QED
    BY <2>1, <2>2, OwnSpared
<1>4. CASE RemoveEvicted(p)
  <2>1. req'[p].id = req[p].id /\ UNCHANGED index /\ pc[p] = "evict" /\ req[p].kind = "mutate"
    BY <1>1, <1>4 DEF RemoveEvicted, Request, RecordOK, TypeInv, TypeOK
  <2> QED
    BY <2>1 DEF OwnEntryKept
<1>5. CASE Stage(p) \/ Rename(p) \/ Unlink(p)
  <2>1. UNCHANGED index /\ pc[p] \in {"stage", "replace"} /\ req[p].kind = "mutate"
    BY <1>1, <1>5 DEF Stage, Rename, Unlink, RecordOK, disk
  <2>2. UNCHANGED req \/ \E v : Decide(p, v)
    BY <1>5 DEF Stage, Rename, Unlink
  <2>3. req'[p].id = req[p].id
    BY <1>1, <2>2, DecideFields
  <2> QED
    BY <2>1, <2>3 DEF OwnEntryKept
<1>6. CASE MarkCommitted(p)
  <2>1. req' = [req EXCEPT ![p].verdict = "uncertain"] /\ pc[p] = "mark"
    BY <1>1, <1>2, <1>6 DEF MarkCommitted, Proceed, Goto, TypeInv, TypeOK
  <2>2. req'[p].id = req[p].id /\ req[p].kind = "mutate"
    BY <1>1, <2>1 DEF Request, TypeInv, TypeOK
  <2>3. DOMAIN index' = DOMAIN index
    BY <1>6 DEF MarkCommitted, Saved, SaveFails, Marked
  <2> QED
    BY <2>1, <2>2, <2>3 DEF OwnEntryKept
<1>7. CASE PutBack(p)
  <2>1. \E v : Decide(p, v)
    BY <1>2, <1>7 DEF PutBack
  <2>2. req'[p].kind = "restore"
    BY <1>1, <1>7, <2>1, DecideFields DEF PutBack, RecordOK
  <2> QED
    BY <2>2
<1>8. CASE LockMutation(p) \/ LockTargets(p) \/ Preflight(p) \/ Reverify(p) \/ WriteBlob(p)
             \/ ReadBlob(p) \/ Recheck(p) \/ ClearFirst(p)
  BY <1>1, <1>2, <1>8 DEF LockMutation, LockTargets, Preflight, Reverify, WriteBlob, PutBlob,
     ReadBlob, Recheck, ClearFirst, Goto, TypeInv, TypeOK
<1> QED
  BY <1>2, <1>3, <1>4, <1>5, <1>6, <1>7, <1>8 DEF past, Step, Crash, Refuse, ReverifyFails,
     WriteBlobFails, SaveIndexFails, MarkFailed, ClearRest

LEMMA OwnEntryStep ==
  ASSUME NEW s \in Scopes, Scopes = {s}
  PROVE  HistoryInv /\ LockInv /\ OwnEntryKept /\ [Next]_vars => OwnEntryKept'
<1> SUFFICES ASSUME HistoryInv, LockInv, OwnEntryKept, [Next]_vars PROVE OwnEntryKept'
  OBVIOUS
<1>1. ASSUME UNCHANGED <<pc, req>>, DOMAIN index' = DOMAIN index PROVE OwnEntryKept'
  BY <1>1 DEF OwnEntryKept
<1>2. CASE UNCHANGED vars
  BY <1>1, <1>2 DEF vars, disk
<1>3. CASE List
  BY <1>1, <1>3 DEF List, Saved, SaveFails, Reconcile
<1>4. CASE \E t \in Targets : Edit(t)
  BY <1>1, <1>4 DEF Edit
<1>5. ASSUME NEW p \in Procs, Begin(p) \/ Step(p) \/ Crash(p) PROVE OwnEntryKept'
  <2> SUFFICES ASSUME NEW q \in Procs, req'[q].kind = "mutate",
                      pc'[q] \in {"evict", "stage", "replace", "mark"}
               PROVE  req'[q].id \in DOMAIN index'
    BY DEF OwnEntryKept
  <2>1. CASE q = p
    BY <1>5, <2>1, OwnEntryStays
  <2>2. CASE q # p
    <3>1. TypeInv /\ pc'[q] = pc[q] /\ req'[q] = req[q]
      BY <1>5, <2>2, OthersKeep DEF HistoryInv
    <3>2. ~Inside(p)
      BY <2>2, <3>1, OnlyOneInside DEF Inside
    <3>3. UNCHANGED index \/ \E u : index' = Reconcile(u)
      BY <1>5, <3>2, OutsideStep
    <3>4. DOMAIN index' = DOMAIN index
      BY <3>3 DEF Reconcile
    <3> QED
      BY <3>1, <3>4 DEF OwnEntryKept
  <2> QED
    BY <2>1, <2>2
<1> QED
  BY <1>2, <1>3, <1>4, <1>5 DEF Next

\* With one engine per workspace, the entry of a mutation under way stays in
\* the index until it is marked, whatever fails and whoever evicts or clears:
\* eviction spares the newest entry, and everybody else who shortens the
\* index waits for the mutation lock.
THEOREM OwnEntryStaysInTheIndex ==
  ASSUME NEW s \in Scopes, Scopes = {s}
  PROVE  Spec => []OwnEntryKept
<1>1. Init => LockInv /\ OwnEntryKept
  BY NoRequestPlain DEF Init, LockInv, Inside, OwnEntryKept
<1>2. HistoryInv => TypeInv
  BY DEF HistoryInv
<1>3. HistoryInv /\ LockInv /\ OwnEntryKept /\ [Next]_vars => OwnEntryKept'
  BY OwnEntryStep
<1> QED
  BY <1>1, <1>2, <1>3, HistoryInit, HistoryStep, LockStep, PTL DEF Spec

-----------------------------------------------------------------------------
(* Batches: the targets a call has written before the one it is at.        *)

\* What holds of a batch under way: the targets before the current one are
\* changed, committed, and the newest entries of the history but for the
\* current one.
BatchOK(p) ==
  req[p].kind = "mutate" =>
  /\ Len(req[p].ops) = 1 \/ Len(req[p].ops) <= MaxOps
  /\ req[p].done \subseteq applied \cap DOMAIN index
  /\ Cardinality(req[p].done) = req[p].at - 1
  /\ pc[p] = "lock" => req[p].done = {}
  /\ \A d \in req[p].done :
       /\ index[d].state = "committed"
       /\ \A i \in DOMAIN index : i >= d => i \in req[p].done \cup {req[p].id}
  /\ pc[p] \in Taken =>
       /\ \A i \in DOMAIN index : i <= req[p].id
       /\ req[p].id \notin req[p].done

BatchInv == \A p \in Procs : BatchOK(p) /\ VerdictOK(p)

\* A call has one target, or no more than MaxOps.
LEMMA OpsCounted ==
  ASSUME NEW ops \in OpsOf
  PROVE  Len(Told(ops)) = 1 \/ Len(Told(ops)) <= MaxOps
<1> DEFINE O == [kind : {"write", "edit", "delete"}, target : Targets, new : Holdings]
<1>1. CASE \E o \in O : ops = <<o>>
  <2>1. PICK o \in O : ops = <<o>>
    BY <1>1
  <2>2. DOMAIN ops = 1..1
    BY <2>1
  <2>3. Told(ops) = [k \in 1..1 |-> Told(ops)[k]]
    BY <2>2 DEF Told
  <2>4. Len(Told(ops)) = 1
    BY <2>3
  <2> QED
    BY <2>4
<1>2. CASE \E n \in 2..MaxOps : ops \in [1..n -> O]
  <2>1. PICK n \in 2..MaxOps : ops \in [1..n -> O]
    BY <1>2
  <2>2. n \in Nat /\ n <= MaxOps
    BY LimitsAssumption
  <2>3. Told(ops) = [k \in 1..n |-> Told(ops)[k]]
    BY <2>1 DEF Told
  <2>4. Len(Told(ops)) = n
    BY <2>2, <2>3
  <2> QED
    BY <2>2, <2>4
<1> QED
  BY <1>1, <1>2 DEF OpsOf

\* Eviction spares the entries of a batch that fits in the history.
LEMMA BatchSpared ==
  ASSUME NEW B \in Nat, \A c \in Contents : Size[c] <= B,
         MaxOps <= MaxEntries, MaxOps * B <= MaxBytes,
         HistoryInv, NEW p \in Procs, BatchOK(p), pc[p] = "index"
  PROVE  req[p].done \cup {req[p].id} \subseteq DOMAIN Evict(Appended(p), req[p].id)
<1> DEFINE idx == Appended(p)
           last == req[p].id
           done == req[p].done
<1>1. /\ last \in Nat \ {0} /\ DOMAIN idx = DOMAIN index \cup {last}
      /\ DOMAIN idx \subseteq 1..last
      /\ \A i \in DOMAIN idx : idx[i] \in Entry
  BY AppendedTyped
<1>2. /\ req[p].kind = "mutate" /\ req[p].at \in Nat
      /\ req[p].at <= Len(req[p].ops) /\ Len(req[p].ops) \in Nat
  <2>1. req[p].kind = "mutate" /\ req[p] \in Request
    BY DEF HistoryInv, RecordOK, TypeInv, TypeOK
  <2>2. req[p].at \in 1..Len(req[p].ops)
    BY <2>1 DEF HistoryInv, TypeInv, CallOK
  <2>3. req[p].ops \in Seq(Op) /\ req[p].at \in Nat
    BY <2>1 DEF Request
  <2>4. Len(req[p].ops) \in Nat
    BY <2>3
  <2> QED
    BY <2>1, <2>2, <2>3, <2>4
<1>3. /\ Len(req[p].ops) = 1 \/ Len(req[p].ops) <= MaxOps
      /\ done \subseteq DOMAIN index /\ Cardinality(done) = req[p].at - 1
      /\ \A d \in done : \A i \in DOMAIN index : i >= d => i \in done \cup {last}
      /\ last \notin done
  BY <1>2 DEF BatchOK, Taken
<1>4. last \in DOMAIN Evict(idx, last)
  BY OwnSpared
<1> HIDE DEF idx, last, done
<1>5. IsFiniteSet(done)
  <2>1. IsFiniteSet(1..last)
    <3>1. 1 \in Int /\ last \in Int
      BY <1>1
    <3> QED
      BY <3>1, FS_Interval
  <2>2. done \subseteq 1..last
    BY <1>1, <1>3
  <2> QED
    BY <2>1, <2>2, FS_Subset
<1>6. CASE done = {}
  BY <1>4, <1>6 DEF idx, last, done
<1>7. CASE done # {}
  <2>1. PICK m \in done : \A d \in done : m <= d
    <3>1. done \subseteq Nat
      BY <1>1, <1>3
    <3> QED
      BY <1>7, <3>1, LeastNat
  <2>2. m \in 1..last /\ m # last
    BY <1>1, <1>3
  <2> DEFINE n == m - 1
             newer == {i \in DOMAIN idx : i > n}
             size == Cardinality(newer)
  <2>3. n \in Nat /\ n \in 0..last /\ last - n \in Nat /\ n + (last - n) = last
    BY <1>1, <2>2
  <2>4. newer = done \cup {last}
    <3>1. ASSUME NEW i \in DOMAIN idx, i > n PROVE i \in done \cup {last}
      <4>1. i \in Nat /\ i >= m
        BY <1>1, <2>2, <3>1
      <4> QED
        BY <1>1, <1>3, <4>1
    <3>2. ASSUME NEW i \in done \cup {last} PROVE i \in DOMAIN idx /\ i > n
      <4>1. i \in DOMAIN idx /\ i \in Nat
        BY <1>1, <1>3
      <4>2. i >= m
        BY <2>1, <2>2
      <4> QED
        BY <2>2, <4>1, <4>2
    <3> QED
      BY <3>1, <3>2
  <2>5. size = req[p].at
    <3>1. Cardinality(done \cup {last}) = Cardinality(done) + 1
      BY <1>3, <1>5, FS_AddElement
    <3>2. Cardinality(done) = req[p].at - 1
      BY <1>3
    <3>3. Cardinality(done) + 1 = req[p].at
      BY <1>2, <3>2
    <3> HIDE DEF newer
    <3> QED
      BY <2>4, <3>1, <3>3
  <2>6. size \in Nat /\ size <= MaxOps
    <3>1. Cardinality(done) # 0 /\ Cardinality(done) \in Nat
      <4>1. Cardinality(done) \in Nat
        BY <1>5, FS_CardinalityType
      <4>2. Cardinality(done) # 0
        BY <1>5, <1>7, FS_EmptySet, Zenon
      <4> QED
        BY <4>1, <4>2
    <3>2. req[p].at > 1
      <4>1. Cardinality(done) = req[p].at - 1 /\ req[p].at \in Nat
        BY <1>2, <1>3
      <4> QED
        BY <3>1, <4>1
    <3>3. Len(req[p].ops) <= MaxOps /\ MaxOps \in Nat
      <4>1. Len(req[p].ops) # 1
        <5>1. \A a, l \in Nat : a <= l /\ a > 1 => l # 1
          OBVIOUS
        <5> QED
          BY <1>2, <3>2, <5>1, Zenon
      <4>2. Len(req[p].ops) = 1 \/ Len(req[p].ops) <= MaxOps
        BY <1>3
      <4>3. Len(req[p].ops) <= MaxOps
        BY <4>1, <4>2, Zenon
      <4> QED
        BY <4>3, LimitsAssumption
    <3> HIDE DEF size
    <3> QED
      BY <1>2, <2>5, <3>3
  <2>7. Window(idx, n, last - n) = newer
    BY <1>1, <2>3 DEF Window
  <2>8. \A i \in Nat : EntryBytes(idx, i) <= B
    BY <1>1 DEF EntryBytes, Bytes, Entry, Holdings
  <2>9. BytesUpTo(idx)[last] - BytesUpTo(idx)[n] <= size * B
    <3>1. DOMAIN idx \subseteq Nat
      BY <1>1
    <3> HIDE DEF n, newer
    <3>2. BytesUpTo(idx)[n + (last - n)] - BytesUpTo(idx)[n]
            <= Cardinality(Window(idx, n, last - n)) * B
      BY <1>1, <2>3, <2>8, <3>1, BytesBound
    <3> QED
      BY <2>3, <2>7, <3>2
  <2> HIDE DEF size
  <2>10. size * B <= MaxOps * B
    BY <2>6, LimitsAssumption
  <2>11. size <= MaxEntries /\ BytesUpTo(idx)[last] - BytesUpTo(idx)[n] <= MaxBytes
    <3>1. BytesUpTo(idx)[last] \in Nat /\ BytesUpTo(idx)[n] \in Nat
      BY <1>1, <2>3, BytesUpToTyped
    <3>2. size * B \in Nat /\ MaxOps * B \in Nat
      BY <2>6, LimitsAssumption
    <3> HIDE DEF n
    <3> QED
      BY <2>6, <2>9, <2>10, <3>1, <3>2, LimitsAssumption
  <2>12. \A i \in DOMAIN idx : i > n => i \in DOMAIN Evict(idx, last)
    <3>1. DOMAIN idx \subseteq Nat
      BY <1>1
    <3>2. Cardinality({i \in DOMAIN idx : i > n}) <= MaxEntries
      BY <2>11 DEF size
    <3> HIDE DEF n
    <3> QED
      BY <1>1, <2>3, <2>11, <3>1, <3>2, EvictSpares
  <2>13. newer \subseteq DOMAIN Evict(idx, last)
    BY <2>12
  <2> QED
    BY <2>4, <2>13 DEF idx, last, done
<1> QED
  BY <1>6, <1>7

\* A step that keeps the request and nothing the batch knows of.
LEMMA BatchMoves ==
  ASSUME NEW p \in Procs, BatchOK(p), UNCHANGED <<index, applied>>, req'[p] = req[p],
         pc'[p] = "lock" => pc[p] = "lock", pc'[p] \in Taken => pc[p] \in Taken
  PROVE  BatchOK(p)'
BY DEF BatchOK

\* A step that changes what the batch does not look at, and may add changes made.
LEMMA BatchDecides ==
  ASSUME TypeInv, NEW p \in Procs, BatchOK(p), UNCHANGED index, applied \subseteq applied',
         pc[p] \in Taken, NEW v, Decide(p, v)
  PROVE  BatchOK(p)'
<1> DEFINE r == [req[p] EXCEPT !.verdict = v]
<1>1. req[p] \in Request
  BY DEF TypeInv, TypeOK
<1>2. /\ r.id = req[p].id /\ r.kind = req[p].kind /\ r.ops = req[p].ops
      /\ r.at = req[p].at /\ r.done = req[p].done
  BY <1>1 DEF Request
<1>3. req'[p] = r /\ pc'[p] = "mark"
  BY DEF Decide, Goto, TypeInv, TypeOK
<1> HIDE DEF r
<1> QED
  BY <1>2, <1>3 DEF BatchOK, Taken

LEMMA BatchSnapshots ==
  ASSUME NEW B \in Nat, \A c \in Contents : Size[c] <= B,
         MaxOps <= MaxEntries, MaxOps * B <= MaxBytes,
         HistoryInv, NEW p \in Procs, BatchOK(p),
         WriteBlob(p) \/ SaveIndex(p) \/ RemoveEvicted(p)
  PROVE  BatchOK(p)'
<1>1. req[p] \in Request /\ req[p].kind = "mutate" /\ RecordOK(p) /\ TypeInv
  BY DEF HistoryInv, TypeInv, TypeOK, RecordOK, WriteBlob, PutBlob, SaveIndex, RemoveEvicted
<1>2. CASE WriteBlob(p)
  <2> DEFINE r == [req[p] EXCEPT !.id = nextId]
  <2>1. /\ r.id = nextId /\ r.kind = "mutate" /\ r.ops = req[p].ops
        /\ r.at = req[p].at /\ r.done = req[p].done
    BY <1>1 DEF Request
  <2>2. req'[p] = r /\ pc'[p] = "index" /\ UNCHANGED <<index, applied>>
    BY <1>1, <1>2 DEF WriteBlob, PutBlob, Goto, ghost, past, TypeInv, TypeOK
  <2>3. nextId \in Nat /\ DOMAIN index \subseteq 1..(nextId - 1)
    BY <1>1 DEF HistoryInv, IdsInv, TypeInv, TypeOK
  <2>4. req[p].id = 0
    BY <1>1, <1>2 DEF RecordOK, WriteBlob, PutBlob, Early
  <2>5. /\ \A i \in DOMAIN index : i # 0 /\ i <= nextId /\ i # nextId
        /\ nextId \notin req[p].done
    BY <1>1, <2>3 DEF BatchOK
  <2> HIDE DEF r
  <2> QED
    BY <1>1, <2>1, <2>2, <2>4, <2>5 DEF BatchOK
<1>3. CASE SaveIndex(p)
  <2> DEFINE kept == Evict(Appended(p), req[p].id)
             r == [req[p] EXCEPT !.drop = DOMAIN Appended(p) \ DOMAIN kept]
  <2>1. /\ r.id = req[p].id /\ r.kind = "mutate" /\ r.ops = req[p].ops
        /\ r.at = req[p].at /\ r.done = req[p].done
    BY <1>1 DEF Request
  <2>2. req'[p] = r /\ pc'[p] = "evict" /\ UNCHANGED applied /\ index' = kept /\ pc[p] = "index"
    BY <1>1, <1>3 DEF SaveIndex, Saved, Goto, ghost, past, TypeInv, TypeOK
  <2>3. req[p].done \subseteq DOMAIN kept
    BY <2>2, BatchSpared
  <2>4. /\ DOMAIN kept \subseteq DOMAIN index \cup {req[p].id}
        /\ \A i \in DOMAIN kept : i # req[p].id => kept[i] = index[i]
    BY KeptIndex
  <2>5. req[p].id \in Nat
    BY <1>1 DEF Request
  <2> HIDE DEF kept, r
  <2> QED
    BY <1>1, <2>1, <2>2, <2>3, <2>4, <2>5 DEF BatchOK, Taken
<1>4. CASE RemoveEvicted(p)
  <2> DEFINE r == [req[p] EXCEPT !.drop = {}]
  <2>1. /\ r.id = req[p].id /\ r.kind = "mutate" /\ r.ops = req[p].ops
        /\ r.at = req[p].at /\ r.done = req[p].done
    BY <1>1 DEF Request
  <2>2. /\ req'[p] = r /\ pc'[p] \in {"stage", "replace"} /\ pc[p] = "evict"
        /\ UNCHANGED <<index, applied>>
    BY <1>1, <1>4 DEF RemoveEvicted, Goto, ghost, past, TypeInv, TypeOK
  <2> HIDE DEF r
  <2> QED
    BY <1>1, <2>1, <2>2 DEF BatchOK, Taken
<1> QED
  BY <1>2, <1>3, <1>4

\* A target is done: its entry is committed, and it joins the targets before.
LEMMA BatchProceeds ==
  ASSUME HistoryInv, NEW p \in Procs, BatchOK(p), VerdictOK(p), MarkCommitted(p),
         Proceed(p), req[p].at < Len(req[p].ops)
  PROVE  BatchOK(p)'
<1> DEFINE c == Call("mutate", req[p].scope, req[p].ops, req[p].at + 1, 0)
           ids == req[p].done \cup {req[p].id}
           r == [c EXCEPT !.done = ids]
<1>1. /\ TypeInv /\ req[p] \in Request /\ pc[p] = "mark" /\ req[p].verdict = "committed"
      /\ req[p].kind = "mutate" /\ UNCHANGED applied
  BY DEF past, MarkCommitted, HistoryInv, TypeInv, TypeOK, CallOK, Request, VerdictOK
<1>2. req'[p] = r /\ pc'[p] = "reverify"
  BY <1>1 DEF Proceed, Goto, TypeInv, TypeOK
<1>3. /\ r.id = 0 /\ r.kind = "mutate" /\ r.ops = req[p].ops /\ r.at = req[p].at + 1
      /\ r.done = ids
  BY DEF Call
<1>4. req[p].id \in DOMAIN index /\ index' = Marked(req[p].id, "committed")
  <2>1. pc'[p] # pc[p]
    BY <1>1, <1>2
  <2> QED
    BY <2>1 DEF MarkCommitted, Saved
<1>5. DOMAIN index' = DOMAIN index
  BY <1>4 DEF Marked
<1>6. \A i \in ids : i \in DOMAIN index /\ index'[i].state = "committed"
  BY <1>1, <1>4, MarkedKeeps DEF BatchOK, Taken
<1>7. ids \subseteq applied
  BY <1>1 DEF BatchOK, VerdictOK
<1>8. Cardinality(ids) = (req[p].at + 1) - 1
  <2>1. req[p].done \subseteq DOMAIN index /\ Cardinality(req[p].done) = req[p].at - 1
        /\ req[p].id \notin req[p].done
    BY <1>1 DEF BatchOK, Taken
  <2>2. nextId - 1 \in Int /\ 1 \in Int /\ req[p].done \subseteq 1..(nextId - 1)
    BY <1>1, <2>1 DEF HistoryInv, IdsInv, TypeInv, TypeOK
  <2>3. IsFiniteSet(1..(nextId - 1))
    BY <2>2, FS_Interval
  <2>4. IsFiniteSet(req[p].done)
    BY <2>2, <2>3, FS_Subset
  <2>5. Cardinality(ids) = Cardinality(req[p].done) + 1
    BY <2>1, <2>4, FS_AddElement
  <2>6. req[p].at \in Nat
    BY <1>1 DEF Request
  <2> HIDE DEF ids
  <2> QED
    BY <2>1, <2>5, <2>6
<1>9. \A d \in ids : \A i \in DOMAIN index : i >= d => i \in ids
  <2> SUFFICES ASSUME NEW d \in ids, NEW i \in DOMAIN index, i >= d PROVE i \in ids
    OBVIOUS
  <2>1. CASE d \in req[p].done
    BY <1>1, <2>1 DEF BatchOK
  <2>2. CASE d = req[p].id
    <3>1. i <= req[p].id /\ i \in Nat /\ req[p].id \in Nat
      BY <1>1 DEF BatchOK, Taken, Request, TypeInv, TypeOK
    <3>2. i = req[p].id
      BY <2>2, <3>1
    <3> QED
      BY <3>2
  <2> QED
    BY <2>1, <2>2
<1>10. Len(req[p].ops) = 1 \/ Len(req[p].ops) <= MaxOps
  BY <1>1 DEF BatchOK
<1> HIDE DEF r, ids
<1> QED
  BY <1>1, <1>2, <1>3, <1>5, <1>6, <1>7, <1>8, <1>9, <1>10 DEF BatchOK, Taken

LEMMA BatchBegins ==
  ASSUME TypeInv, NEW p \in Procs, Begin(p)
  PROVE  BatchOK(p)'
<1>1. pc'[p] = "lock"
  BY DEF Begin, BeginMutation, BeginRestore, BeginClear, Goto, TypeInv, TypeOK
<1>2. CASE BeginMutation(p)
  <2>1. PICK s \in Scopes, ops \in OpsOf : req'[p] = Call("mutate", s, Told(ops), 1, 0)
    BY <1>2 DEF BeginMutation, TypeInv, TypeOK
  <2>2. req'[p].done = {} /\ req'[p].at = 1 /\ req'[p].ops = Told(ops)
    BY <2>1 DEF Call
  <2>3. Len(Told(ops)) = 1 \/ Len(Told(ops)) <= MaxOps
    BY OpsCounted
  <2>4. Cardinality({}) = 1 - 1
    BY FS_EmptySet
  <2> QED
    BY <1>1, <2>2, <2>3, <2>4 DEF BatchOK, Taken
<1>3. CASE BeginRestore(p) \/ BeginClear(p)
  <2>1. req'[p].kind # "mutate"
    BY <1>3 DEF BeginRestore, BeginClear, Call, TypeInv, TypeOK
  <2> QED
    BY <2>1 DEF BatchOK
<1> QED
  BY <1>2, <1>3 DEF Begin

\* The mark failed: nothing that is done changes, the verdict does.
LEMMA BatchDoubts ==
  ASSUME HistoryInv, NEW p \in Procs, BatchOK(p), pc[p] = "mark",
         UNCHANGED <<pc, applied>>, req' = [req EXCEPT ![p].verdict = "uncertain"],
         \/ UNCHANGED index
         \/ req[p].id \in DOMAIN index /\ index' = Marked(req[p].id, "committed")
  PROVE  BatchOK(p)'
<1> DEFINE r == [req[p] EXCEPT !.verdict = "uncertain"]
<1>1. req[p] \in Request /\ TypeInv
  BY DEF HistoryInv, TypeInv, TypeOK
<1>2. /\ r.id = req[p].id /\ r.kind = req[p].kind /\ r.ops = req[p].ops
      /\ r.at = req[p].at /\ r.done = req[p].done
  BY <1>1 DEF Request
<1>3. req'[p] = r
  BY <1>1 DEF TypeInv, TypeOK
<1>4. DOMAIN index' = DOMAIN index
  BY DEF Marked
<1>5. \A d \in DOMAIN index : index[d].state = "committed" => index'[d].state = "committed"
  BY <1>1, MarkedKeeps
<1> HIDE DEF r
<1> QED
  BY <1>2, <1>3, <1>4, <1>5 DEF BatchOK, Taken

LEMMA BatchOwnStep ==
  ASSUME NEW B \in Nat, \A c \in Contents : Size[c] <= B,
         MaxOps <= MaxEntries, MaxOps * B <= MaxBytes,
         HistoryInv, NEW p \in Procs, BatchOK(p), VerdictOK(p), Begin(p) \/ Step(p) \/ Crash(p)
  PROVE  BatchOK(p)'
<1>1. TypeInv /\ RecordOK(p)
  BY DEF HistoryInv
<1>2. CASE Return(p)
  <2>1. req'[p].kind = "none"
    BY <1>1, <1>2, NoRequestPlain DEF Return, TypeInv, TypeOK
  <2> QED
    BY <2>1 DEF BatchOK
<1>3. CASE Begin(p)
  BY <1>1, <1>3, BatchBegins
<1>4. CASE LockMutation(p) \/ LockTargets(p) \/ Preflight(p) \/ Reverify(p)
  <2>1. UNCHANGED <<req, index, applied>>
    BY <1>4 DEF LockMutation, LockTargets, Preflight, Reverify, disk, ghost, past
  <2>2. pc'[p] \notin Taken \cup {"lock"}
    BY <1>1, <1>4 DEF LockMutation, LockTargets, Preflight, Reverify, Goto, Taken,
       TypeInv, TypeOK
  <2> QED
    BY <2>1, <2>2, BatchMoves
<1>5. CASE ReadBlob(p) \/ Recheck(p) \/ PutBack(p)
  <2>1. req[p].kind = "restore"
    BY <1>1, <1>5 DEF RecordOK, ReadBlob, Recheck, PutBack
  <2>2. Return(p) \/ UNCHANGED req \/ \E v : Decide(p, v)
    BY <1>5 DEF ReadBlob, Recheck, PutBack
  <2>3. CASE UNCHANGED req
    BY <2>1, <2>3 DEF BatchOK
  <2>4. CASE \E v : Decide(p, v)
    <3>1. req'[p].kind = "restore"
      BY <1>1, <2>1, <2>4, DecideFields
    <3> QED
      BY <3>1 DEF BatchOK
  <2> QED
    BY <1>2, <2>2, <2>3, <2>4
<1>6. CASE ClearFirst(p)
  <2>1. req'[p].kind = "clear"
    BY <1>1, <1>6 DEF ClearFirst, TypeInv, CallOK
  <2> QED
    BY <2>1 DEF BatchOK
<1>7. CASE WriteBlob(p) \/ SaveIndex(p) \/ RemoveEvicted(p)
  BY <1>7, BatchSnapshots
<1>8. CASE Stage(p) \/ Rename(p) \/ Unlink(p)
  <2>1. UNCHANGED index /\ applied \subseteq applied' /\ pc[p] \in Taken
    BY <1>8 DEF Stage, Rename, Unlink, Replaced, disk, ghost, past, Taken
  <2>2. \/ \E v : Decide(p, v)
        \/ Goto(p, "replace") /\ UNCHANGED <<req, applied>>
    BY <1>8 DEF Stage, Rename, Unlink, ghost, past
  <2>3. CASE Goto(p, "replace") /\ UNCHANGED <<req, applied>>
    <3>1. pc'[p] = "replace"
      BY <1>1, <2>3 DEF Goto, TypeInv, TypeOK
    <3> QED
      BY <2>1, <2>3, <3>1, BatchMoves
  <2> QED
    BY <1>1, <2>1, <2>2, <2>3, BatchDecides
<1>9. CASE MarkCommitted(p)
  <2>1. CASE Proceed(p)
    <3>1. CASE req[p].at < Len(req[p].ops)
      BY <1>9, <2>1, <3>1, BatchProceeds
    <3> QED
      BY <1>2, <2>1, <3>1 DEF Proceed
  <2>2. CASE ~Proceed(p)
    BY <1>9, <2>2, BatchDoubts DEF past, MarkCommitted, SaveFails
  <2> QED
    BY <2>1, <2>2
<1>10. CASE Refuse(p) \/ ReverifyFails(p) \/ WriteBlobFails(p) \/ SaveIndexFails(p)
             \/ MarkFailed(p) \/ ClearRest(p) \/ Crash(p)
  BY <1>2, <1>10 DEF Refuse, ReverifyFails, WriteBlobFails, SaveIndexFails, MarkFailed,
     ClearRest, Crash
<1> QED
  BY <1>3, <1>4, <1>5, <1>6, <1>7, <1>8, <1>9, <1>10 DEF past, Step

\* Reconciliation leaves what is committed committed.
LEMMA BatchReconciled ==
  ASSUME TypeInv, NEW q \in Procs, BatchOK(q), pc'[q] = pc[q], req'[q] = req[q],
         UNCHANGED applied, UNCHANGED index \/ \E u : index' = Reconcile(u)
  PROVE  BatchOK(q)'
<1>1. DOMAIN index' = DOMAIN index
  BY DEF Reconcile
<1>2. \A d \in DOMAIN index : index[d].state = "committed" => index'[d].state = "committed"
  BY ReconcileKeeps DEF Resolve
<1> QED
  BY <1>1, <1>2 DEF BatchOK

LEMMA BatchOthers ==
  ASSUME NEW s \in Scopes, Scopes = {s}, TypeInv, LockInv,
         NEW p \in Procs, Begin(p) \/ Step(p) \/ Crash(p), NEW q \in Procs \ {p}, BatchOK(q)
  PROVE  BatchOK(q)'
<1>1. pc'[q] = pc[q] /\ req'[q] = req[q]
  BY OthersKeep
<1>2. CASE Inside(q)
  <2>1. ~Inside(p)
    BY <1>2, OnlyOneInside
  <2>2. UNCHANGED applied /\ (UNCHANGED index \/ \E u : index' = Reconcile(u))
    BY <2>1, OutsideStep
  <2> QED
    BY <1>1, <2>2, BatchReconciled
<1>3. CASE pc[q] = "lock"
  BY <1>1, <1>3 DEF BatchOK, Taken
<1>4. CASE pc[q] = "idle"
  <2>1. req[q].kind = "none"
    BY <1>4 DEF TypeInv, CallOK
  <2> QED
    BY <1>1, <2>1 DEF BatchOK
<1> QED
  BY <1>2, <1>3, <1>4 DEF Inside

LEMMA BatchStep ==
  ASSUME NEW s \in Scopes, Scopes = {s}, NEW B \in Nat, \A c \in Contents : Size[c] <= B,
         MaxOps <= MaxEntries, MaxOps * B <= MaxBytes
  PROVE  HistoryInv /\ LockInv /\ BatchInv /\ [Next]_vars => BatchInv'
<1> SUFFICES ASSUME HistoryInv, LockInv, BatchInv, [Next]_vars PROVE BatchInv'
  OBVIOUS
<1>1. TypeInv
  BY DEF HistoryInv
<1>2. CASE UNCHANGED vars
  BY <1>2 DEF vars, disk, ghost, past, BatchInv, BatchOK, VerdictOK
<1>3. CASE List
  <2>1. UNCHANGED <<pc, req, applied>> /\ (UNCHANGED index \/ \E u : index' = Reconcile(u))
    BY <1>3 DEF List, Saved, SaveFails, ghost, past
  <2>2. \A q \in Procs : BatchOK(q)'
    BY <1>1, <2>1, BatchReconciled DEF BatchInv
  <2>3. \A q \in Procs : VerdictOK(q)'
    BY <2>1 DEF BatchInv, VerdictOK
  <2> QED
    BY <2>2, <2>3 DEF BatchInv
<1>4. CASE \E t \in Targets : Edit(t)
  BY <1>4 DEF past, Edit, BatchInv, BatchOK, VerdictOK
<1>5. ASSUME NEW p \in Procs, Begin(p) \/ Step(p) \/ Crash(p) PROVE BatchInv'
  <2>1. BatchOK(p)'
    BY <1>5, BatchOwnStep DEF BatchInv
  <2>2. \A q \in Procs \ {p} : BatchOK(q)'
    BY <1>1, <1>5, BatchOthers DEF BatchInv
  <2>3. \A q \in Procs : VerdictOK(q)'
    BY <1>5, OwnVerdict, OthersVerdict DEF BatchInv
  <2> QED
    BY <2>1, <2>2, <2>3 DEF BatchInv
<1> QED
  BY <1>2, <1>3, <1>4, <1>5 DEF Next

\* With one engine per workspace and a batch whose contents, of at most B bytes
\* each, fit in the history, the undo ids a call would report after a failure are
\* those of the targets it has changed: each did change, is committed, and can
\* still be undone, whatever fails and whoever evicts, clears, lists or edits.
THEOREM PartialReportsAreHonest ==
  ASSUME NEW s \in Scopes, Scopes = {s}, NEW B \in Nat, \A c \in Contents : Size[c] <= B,
         MaxOps <= MaxEntries, MaxOps * B <= MaxBytes
  PROVE  Spec => []PartialReportHonest
<1>1. Init => LockInv /\ BatchInv
  <2> SUFFICES ASSUME Init PROVE LockInv /\ BatchInv
    OBVIOUS
  <2>1. \A p \in Procs : pc[p] = "idle" /\ req[p].kind = "none"
    BY NoRequestPlain DEF Init
  <2> QED
    BY <2>1 DEF LockInv, Inside, BatchInv, BatchOK, VerdictOK
<1>2. HistoryInv => TypeInv
  BY DEF HistoryInv
<1>3. HistoryInv /\ LockInv /\ BatchInv /\ [Next]_vars => BatchInv'
  BY BatchStep
<1>4. BatchInv => PartialReportHonest
  BY DEF BatchInv, BatchOK, PartialReportHonest
<1> QED
  BY <1>1, <1>2, <1>3, <1>4, HistoryInit, HistoryStep, LockStep, PTL DEF Spec


-----------------------------------------------------------------------------
(* The history is a write-ahead log of changes: UndoLog.                   *)

\* The places at which the snapshot of a call is in the index.
Recorded == {"evict", "stage", "replace", "mark"}

\* The entry of a call under way says what the call does.
EntryOK(p) ==
  req[p].kind = "mutate" /\ pc[p] \in Recorded =>
    /\ index[req[p].id].target = Cur(p).target
    /\ index[req[p].id].before = Cur(p).want
    /\ index[req[p].id].after = Cur(p).new

\* Only a call that has compared its target can be too late to see a change.
LateOK(p) ==
  late[p] => pc[p] \notin {"idle", "lock", "lock targets", "preflight", "clear", "clear rest"}

\* A step of a call keeps the operation it is at, unless the call begins, ends
\* or goes on to its next target.
LEMMA OpKept ==
  ASSUME TypeInv, NEW p \in Procs, Begin(p) \/ Step(p) \/ Crash(p),
         ~Begin(p), ~Return(p), ~(pc[p] = "mark" /\ Proceed(p))
  PROVE  /\ req'[p].kind = req[p].kind /\ req'[p].ops = req[p].ops /\ req'[p].at = req[p].at
         /\ Cur(p)' = Cur(p)
         /\ late' = late
<1> USE DEF TypeInv, TypeOK
<1>1. req[p] \in Request
  OBVIOUS
<1>2. late' = late
  BY DEF ghost, past, Step, Crash, LockMutation, LockTargets, Preflight, Refuse, Reverify,
  ReverifyFails, WriteBlob, WriteBlobFails, PutBlob, SaveIndex, SaveIndexFails, RemoveEvicted,
  Stage, Rename, Unlink, MarkCommitted, MarkFailed, ReadBlob, Recheck, PutBack, ClearFirst,
  ClearRest
<1>3. \/ req' = req
      \/ \E v : req' = [req EXCEPT ![p].verdict = v]
      \/ \E v : req' = [req EXCEPT ![p].id = v]
      \/ \E v : req' = [req EXCEPT ![p].drop = v]
  BY DEF Decide, Step, Crash, LockMutation, LockTargets, Preflight, Refuse, Reverify, ReverifyFails,
     WriteBlob, WriteBlobFails, PutBlob, SaveIndex, SaveIndexFails, RemoveEvicted, Stage,
     Rename, Unlink, MarkCommitted, MarkFailed, ReadBlob, Recheck, PutBack, ClearFirst,
     ClearRest
<1>4. req'[p].kind = req[p].kind /\ req'[p].ops = req[p].ops /\ req'[p].at = req[p].at
  BY <1>1, <1>3 DEF Request
<1> QED
  BY <1>2, <1>4 DEF Cur

\* What a call that goes on to its next target leaves.
LEMMA ProceedFields ==
  ASSUME TypeInv, NEW p \in Procs, pc[p] = "mark", Proceed(p)
  PROVE  ~late'[p] /\ pc'[p] \in {"reverify", "idle"} /\ (pc'[p] = "reverify" => req'[p].kind = "mutate")
<1> USE DEF TypeInv, TypeOK
<1>1. CASE Return(p)
  BY <1>1 DEF Return, Goto
<1>2. CASE ~Return(p)
  <2> DEFINE r == [Call("mutate", req[p].scope, req[p].ops, req[p].at + 1, 0)
                     EXCEPT !.done = req[p].done \cup {req[p].id}]
  <2>1. req' = [req EXCEPT ![p] = r]
    BY <1>2 DEF Proceed
  <2>2. r.kind = "mutate"
    BY DEF Call
  <2>3. late'[p] = FALSE /\ pc'[p] = "reverify"
    BY <1>2 DEF Proceed, Goto
  <2> HIDE DEF r
  <2> QED
    BY <2>1, <2>2, <2>3
<1> QED
  BY <1>1, <1>2

LEMMA BeginFields ==
  ASSUME TypeInv, NEW p \in Procs, Begin(p)
  PROVE  pc[p] = "idle" /\ pc'[p] = "lock" /\ late' = late
BY DEF TypeInv, TypeOK, Begin, BeginMutation, BeginRestore, BeginClear, Goto, ghost, past

LEMMA LateStep == TypeInv /\ (\A p \in Procs : LateOK(p)) /\ [Next]_vars => \A p \in Procs : LateOK(p)'
<1> SUFFICES ASSUME TypeInv, \A p \in Procs : LateOK(p), [Next]_vars, NEW q \in Procs, late'[q]
             PROVE  pc'[q] \notin {"idle", "lock", "lock targets", "preflight", "clear", "clear rest"}
  BY DEF LateOK
<1>1. CASE UNCHANGED vars
  BY <1>1 DEF vars, ghost, past, LateOK
<1>2. CASE List
  BY <1>2 DEF List, ghost, past, LateOK
<1>3. CASE \E t \in Targets : Edit(t)
  BY <1>3 DEF Edit, LateOK, LastCompared
<1>4. ASSUME NEW p \in Procs, Begin(p) \/ Step(p) \/ Crash(p)
      PROVE  pc'[q] \notin {"idle", "lock", "lock targets", "preflight", "clear", "clear rest"}
  <2>1. CASE q # p
    BY <1>4, <2>1, OthersKeep DEF LateOK
  <2>2. CASE q = p
    <3>1. ~Return(p)
      BY <2>2 DEF Return, TypeInv, TypeOK
    <3>2. ~(pc[p] = "mark" /\ Proceed(p))
      BY <2>2, ProceedFields
    <3>3. ~Begin(p)
      BY <2>2, BeginFields DEF LateOK
    <3>4. pc[p] \notin {"idle", "lock", "lock targets", "preflight", "clear", "clear rest"}
      BY <1>4, <2>2, <3>1, <3>2, <3>3, OpKept DEF LateOK
    <3> QED
      BY <1>4, <2>2, <3>1, <3>3, <3>4, ZenonT(30) DEF TypeInv, TypeOK, Goto, Decide, Step,
         Crash, LockMutation, LockTargets, Preflight, Refuse, Reverify, ReverifyFails,
         WriteBlob, WriteBlobFails, PutBlob, SaveIndex, SaveIndexFails, RemoveEvicted, Stage,
         Rename, Unlink, MarkCommitted, MarkFailed, Proceed, ReadBlob, Recheck, PutBack,
         ClearFirst, ClearRest
  <2> QED
    BY <2>1, <2>2
<1> QED
  BY <1>1, <1>2, <1>3, <1>4 DEF Next

\* Nobody rewrites what an entry says of its change.
SameFields(i) ==
  /\ index'[i].target = index[i].target
  /\ index'[i].before = index[i].before
  /\ index'[i].after = index[i].after

LEMMA ReconcileFields ==
  ASSUME TypeInv, NEW i \in DOMAIN index, NEW u, index' = Reconcile(u)
  PROVE  SameFields(i)
BY ReconcileKeeps DEF SameFields

LEMMA MarkedFields ==
  ASSUME TypeInv, NEW i \in DOMAIN index, NEW j \in DOMAIN index, NEW v, index' = Marked(j, v)
  PROVE  SameFields(i)
<1>1. index[i] \in Entry
  BY DEF TypeInv, TypeOK
<1> QED
  BY <1>1 DEF Marked, Entry, SameFields

LEMMA FieldsKept ==
  ASSUME HistoryInv, NEW p \in Procs, Begin(p) \/ Step(p) \/ Crash(p),
         NEW i \in DOMAIN index, i \in DOMAIN index'
  PROVE  SameFields(i)
<1>1. TypeInv
  BY DEF HistoryInv
<1>2. CASE UNCHANGED index
  BY <1>2 DEF SameFields
<1>3. CASE \E u : index' = Reconcile(u)
  BY <1>1, <1>3, ReconcileFields
<1>4. CASE \E v : req[p].id \in DOMAIN index /\ index' = Marked(req[p].id, v)
  BY <1>1, <1>4, MarkedFields
<1>5. CASE pc[p] = "index" /\ index' = Evict(Appended(p), req[p].id)
  <2>1. i # req[p].id
    BY <1>5 DEF HistoryInv, RecordOK
  <2> QED
    BY <1>5, <2>1, KeptIndex DEF SameFields
<1>6. CASE DOMAIN index' = {}
  BY <1>6
<1> QED
  BY <1>2, <1>3, <1>4, <1>5, <1>6 DEF Saved, SaveFails, disk, Without, Begin, BeginMutation,
     BeginRestore, BeginClear, Crash, Step, LockMutation, LockTargets, Preflight, Refuse,
     Reverify, ReverifyFails, WriteBlob, WriteBlobFails, PutBlob, SaveIndex, SaveIndexFails,
     RemoveEvicted, Stage, Rename, Unlink, MarkCommitted, MarkFailed, ReadBlob, Recheck,
     PutBack, ClearFirst, ClearRest

\* The snapshot a call saves says what the call does, and nobody changes it.
LEMMA EntryOwnStep ==
  ASSUME HistoryInv, OwnEntryKept, OwnEntryKept', NEW p \in Procs, EntryOK(p),
         Begin(p) \/ Step(p) \/ Crash(p)
  PROVE  EntryOK(p)'
<1> SUFFICES ASSUME req'[p].kind = "mutate", pc'[p] \in Recorded PROVE EntryOK(p)'
  BY DEF EntryOK
<1>1. TypeInv /\ req[p] \in Request /\ RecordOK(p)
  BY DEF HistoryInv, TypeInv, TypeOK
<1>2. ~Return(p) /\ ~Begin(p) /\ ~(pc[p] = "mark" /\ Proceed(p))
  BY <1>1, BeginFields, ProceedFields DEF Return, Goto, Recorded, TypeInv, TypeOK
<1>3. Cur(p)' = Cur(p) /\ req'[p].kind = req[p].kind
  BY <1>1, <1>2, OpKept
<1>4. req'[p].id \in DOMAIN index'
  BY DEF OwnEntryKept, Recorded
<1>5. CASE pc[p] = "index"
  <2>1. SaveIndex(p)
    BY <1>2, <1>5 DEF Step, Crash, LockMutation, LockTargets, Preflight, Refuse, Reverify,
       ReverifyFails, WriteBlob, WriteBlobFails, PutBlob, SaveIndexFails, RemoveEvicted, Stage,
       Rename, Unlink, MarkCommitted, MarkFailed, ReadBlob, Recheck, PutBack, ClearFirst,
       ClearRest
  <2>2. index' = Evict(Appended(p), req[p].id) /\ req'[p].id = req[p].id
    BY <1>1, <2>1 DEF SaveIndex, Saved, Request, TypeInv, TypeOK
  <2>3. index'[req'[p].id] = NewEntry(p)
    BY <1>4, <2>2, KeptIndex
  <2> QED
    BY <1>3, <2>3 DEF EntryOK, NewEntry
<1>6. CASE pc[p] \in Recorded
  <2>1. req'[p].id = req[p].id
    <3>1. req'[p].id = 0 \/ req'[p].id = req[p].id \/ WriteBlob(p)
      BY <1>2, OwnId
    <3>2. ~WriteBlob(p)
      BY <1>6 DEF WriteBlob, PutBlob, Recorded
    <3>3. req'[p].id # 0
      <4>1. DOMAIN index' \subseteq DOMAIN index \cup {req[p].id}
        BY IdsAdded
      <4>2. 0 \notin DOMAIN index
        BY DEF HistoryInv, IdsInv
      <4>3. req[p].id # 0
        BY <1>1, <1>3, <1>6 DEF RecordOK, Recorded, Taken
      <4> QED
        BY <1>4, <4>1, <4>2, <4>3
    <3> QED
      BY <3>1, <3>2, <3>3
  <2>2. req[p].id \in DOMAIN index
    BY <1>3, <1>6 DEF OwnEntryKept, Recorded
  <2>3. SameFields(req[p].id)
    BY <1>4, <2>1, <2>2, FieldsKept
  <2> QED
    BY <1>3, <1>6, <2>1, <2>3 DEF EntryOK, SameFields
<1>7. CASE pc[p] \notin Recorded \cup {"index"}
  <2>1. req[p].kind = "mutate"
    BY <1>3
  <2>2. PutBack(p)
    BY <1>1, <1>2, <1>7 DEF Recorded, Goto, Decide, TypeInv, TypeOK, Step, Crash, LockMutation,
       LockTargets, Preflight, Refuse, Reverify, ReverifyFails, WriteBlob, WriteBlobFails,
       PutBlob, SaveIndex, SaveIndexFails, RemoveEvicted, Stage, Rename, Unlink, MarkCommitted,
       MarkFailed, ReadBlob, Recheck, ClearFirst, ClearRest
  <2> QED
    BY <1>1, <2>1, <2>2 DEF PutBack, RecordOK
<1> QED
  BY <1>5, <1>6, <1>7

LogInv == OwnEntryKept /\ \A p \in Procs : EntryOK(p) /\ LateOK(p) /\ VerdictOK(p)

LEMMA LogStep ==
  ASSUME NEW s \in Scopes, Scopes = {s}
  PROVE  HistoryInv /\ LockInv /\ LogInv /\ [Next]_vars => LogInv'
<1> SUFFICES ASSUME HistoryInv, LockInv, LogInv, [Next]_vars PROVE LogInv'
  OBVIOUS
<1>1. TypeInv
  BY DEF HistoryInv
<1>2. OwnEntryKept /\ OwnEntryKept'
  BY OwnEntryStep DEF LogInv
<1>3. \A p \in Procs : LateOK(p)'
  BY <1>1, LateStep DEF LogInv
<1>4. CASE UNCHANGED vars
  BY <1>2, <1>3, <1>4 DEF vars, disk, ghost, past, LogInv, EntryOK, VerdictOK, Cur
<1>5. CASE \E t \in Targets : Edit(t)
  BY <1>2, <1>3, <1>5 DEF past, Edit, LogInv, EntryOK, VerdictOK, Cur
<1>6. CASE List
  <2>1. UNCHANGED <<pc, req, applied>> /\ (UNCHANGED index \/ \E u : index' = Reconcile(u))
    BY <1>6 DEF List, Saved, SaveFails, ghost, past
  <2>2. \A i \in DOMAIN index : SameFields(i)
    BY <1>1, <2>1, ReconcileFields DEF SameFields
  <2>3. ASSUME NEW p \in Procs PROVE EntryOK(p)'
    <3> SUFFICES ASSUME req[p].kind = "mutate", pc[p] \in Recorded PROVE EntryOK(p)'
      BY <2>1 DEF EntryOK
    <3>1. SameFields(req[p].id)
      BY <1>2, <2>2 DEF OwnEntryKept, Recorded
    <3> QED
      BY <2>1, <3>1 DEF LogInv, EntryOK, SameFields, Cur
  <2> QED
    BY <1>2, <1>3, <2>1, <2>3 DEF LogInv, VerdictOK
<1>7. ASSUME NEW p \in Procs, Begin(p) \/ Step(p) \/ Crash(p) PROVE LogInv'
  <2>1. \A q \in Procs : VerdictOK(q)'
    BY <1>7, OwnVerdict, OthersVerdict DEF LogInv
  <2>2. EntryOK(p)'
    BY <1>2, <1>7, EntryOwnStep DEF LogInv
  <2>3. ASSUME NEW q \in Procs, q # p PROVE EntryOK(q)'
    <3> SUFFICES ASSUME req'[q].kind = "mutate", pc'[q] \in Recorded PROVE EntryOK(q)'
      BY DEF EntryOK
    <3>1. pc'[q] = pc[q] /\ req'[q] = req[q]
      BY <1>1, <1>7, <2>3, OthersKeep
    <3>2. req[q].id \in DOMAIN index /\ req[q].id \in DOMAIN index'
      BY <1>2, <3>1 DEF OwnEntryKept, Recorded
    <3>3. SameFields(req[q].id)
      BY <1>7, <3>2, FieldsKept
    <3> QED
      BY <3>1, <3>3 DEF LogInv, EntryOK, SameFields, Cur
  <2> QED
    BY <1>2, <1>3, <2>1, <2>2, <2>3 DEF LogInv
<1> QED
  BY <1>4, <1>5, <1>6, <1>7 DEF Next

Refined == HistoryInv /\ LockInv /\ CheckedInv /\ BlobInv /\ LogInv

\* What is undoable is the index, unless it is being removed: each entry has its blob.
Entries == [i \in DOMAIN index |-> index[i]]
NoEntries == [i \in {} |-> {}]

LEMMA UndoableIs ==
  ASSUME TypeInv, BlobBacked
  PROVE  Undoable = IF Clearing THEN NoEntries ELSE Entries
<1>1. CASE Clearing
  BY <1>1 DEF Undoable, NoEntries
<1>2. CASE ~Clearing
  <2>1. ASSUME NEW i \in DOMAIN index
        PROVE  [index[i] EXCEPT !.before = IF @ = Absent \/ i \notin DOMAIN blobs THEN Absent ELSE blobs[i]]
                 = index[i]
    <3>1. index[i] \in Entry
      BY DEF TypeInv, TypeOK
    <3>2. (IF index[i].before = Absent \/ i \notin DOMAIN blobs THEN Absent ELSE blobs[i]) = index[i].before
      BY <1>2 DEF BlobBacked
    <3> QED
      BY <3>1, <3>2 DEF Entry
  <2> QED
    BY <1>2, <2>1 DEF Undoable, Entries
<1> QED
  BY <1>1, <1>2

LEMMA UndoableNext ==
  ASSUME TypeInv', BlobBacked'
  PROVE  Undoable' = IF Clearing' THEN NoEntries ELSE Entries'
<1>1. CASE Clearing'
  BY <1>1 DEF Undoable, NoEntries
<1>2. CASE ~Clearing'
  <2>1. ASSUME NEW i \in DOMAIN index'
        PROVE  [index'[i] EXCEPT !.before = IF @ = Absent \/ i \notin DOMAIN blobs' THEN Absent ELSE blobs'[i]]
                 = index'[i]
    <3>1. index'[i] \in Entry
      BY DEF TypeInv, TypeOK
    <3>2. (IF index'[i].before = Absent \/ i \notin DOMAIN blobs' THEN Absent ELSE blobs'[i]) = index'[i].before
      BY <1>2 DEF BlobBacked
    <3> QED
      BY <3>1, <3>2 DEF Entry
  <2> QED
    BY <1>2, <2>1 DEF Undoable, Entries
<1> QED
  BY <1>1, <1>2

\* A call that neither begins nor ends the removal leaves a clear where it is.
LEMMA ClearingKept ==
  ASSUME TypeInv, NEW p \in Procs, Begin(p) \/ Step(p) \/ Crash(p),
         pc[p] # "clear rest", pc'[p] # "clear rest"
  PROVE  Clearing' = Clearing
<1>1. \A q \in Procs : q # p => pc'[q] = pc[q]
  BY OthersKeep
<1> QED
  BY <1>1 DEF Clearing

\* Whoever finds the history lock free, holds it, or is inside, finds no clear
\* under way.
LEMMA NoClear ==
  ASSUME NEW s \in Scopes, Scopes = {s}, HistoryInv, LockInv, NEW p \in Procs, pc[p] # "clear rest",
         histOwner = Nobody \/ pc[p] \in HoldsHistory \/ Inside(p)
  PROVE  ~Clearing
<1> SUFFICES ASSUME NEW q \in Procs, pc[q] = "clear rest" PROVE FALSE
  BY DEF Clearing
<1>1. TypeInv /\ Inside(q) /\ histOwner = q
  BY DEF HistoryInv, Inside, HistInv, HoldsHistory
<1>2. ~Inside(p)
  BY <1>1, OnlyOneInside
<1>3. pc[p] \notin HoldsHistory
  BY <1>2 DEF HoldsHistory, Inside
<1> QED
  BY <1>1, <1>2, <1>3, NamesAssumption

\* A step of p is a step of p's turn alone.
LEMMA OthersTurn ==
  ASSUME HistoryInv, NEW p \in Procs, Begin(p) \/ Step(p) \/ Crash(p), NEW q \in Procs, q # p
  PROVE  TurnOf(q)' = TurnOf(q)
<1>1. pc'[q] = pc[q] /\ req'[q] = req[q]
  BY OthersKeep DEF HistoryInv
<1>2. ASSUME req[q].kind = "mutate", pc[q] \in Recorded
      PROVE  (req[q].id \in applied') = (req[q].id \in applied)
  <2>1. applied' = applied \/ (pc[p] = "replace" /\ applied' \subseteq applied \cup {req[p].id})
    BY IdsAdded
  <2>2. req[q].id # 0
    BY <1>2 DEF HistoryInv, RecordOK, Recorded, Taken
  <2>3. CASE pc[p] = "replace"
    <3>1. req[p].kind = "mutate"
      BY <2>3 DEF HistoryInv, RecordOK
    <3>2. req[q].id # req[p].id
      BY <1>2, <2>2, <3>1 DEF HistoryInv, IdsInv
    <3>3. applied \subseteq applied'
      BY <2>3 DEF disk, ghost, past, Goto, Replaced, Begin, BeginMutation, BeginRestore,
         BeginClear, Crash, Step, LockMutation, LockTargets, Preflight, Refuse, Reverify,
         ReverifyFails, WriteBlob, WriteBlobFails, PutBlob, SaveIndex, SaveIndexFails,
         RemoveEvicted, Stage, Rename, Unlink, MarkCommitted, MarkFailed, ReadBlob, Recheck,
         PutBack, ClearFirst, ClearRest
    <3> QED
      BY <2>1, <3>2, <3>3
  <2> QED
    BY <2>1, <2>3
<1>3. CASE req[q].kind = "mutate" /\ pc[q] \in Recorded
  BY <1>1, <1>2, <1>3 DEF TurnOf, Recorded
<1>4. CASE ~(req[q].kind = "mutate" /\ pc[q] \in Recorded)
  BY <1>1, <1>4 DEF TurnOf, Recorded, Cur
<1> QED
  BY <1>3, <1>4

LEMMA TurnTaken ==
  ASSUME HistoryInv, NEW p \in Procs, Begin(p) \/ Step(p) \/ Crash(p), NEW t, TurnOf(p)' = t
  PROVE  History!Turns(p, t)
<1>1. \A q \in Procs : q # p => TurnOf(q)' = TurnOf(q)
  BY OthersTurn
<1> QED
  BY <1>1 DEF History!Turns

LEMMA TurnKept ==
  ASSUME HistoryInv, NEW p \in Procs, Begin(p) \/ Step(p) \/ Crash(p), TurnOf(p)' = TurnOf(p)
  PROVE  [q \in Procs |-> TurnOf(q)]' = [q \in Procs |-> TurnOf(q)]
<1>1. \A q \in Procs : TurnOf(q)' = TurnOf(q)
  BY OthersTurn
<1> QED
  BY <1>1

\* What a call does not see another program do, it did not see before its step.
LEMMA StaysUnseen ==
  ASSUME TypeInv, NEW p \in Procs, LateOK(p)', Begin(p) \/ Step(p) \/ Crash(p), NEW q \in Procs, late'[q]
  PROVE  late[q] /\ Cur(q)' = Cur(q)
<1>1. CASE q # p
  BY <1>1, OthersKeep DEF Cur
<1>2. CASE q = p
  <2>1. ~Return(p)
    BY <1>2 DEF Return, TypeInv, TypeOK
  <2>2. ~(pc[p] = "mark" /\ Proceed(p))
    BY <1>2, ProceedFields
  <2>3. ~Begin(p)
    BY <1>2, BeginFields DEF LateOK
  <2> QED
    BY <1>2, <2>1, <2>2, <2>3, OpKept
<1> QED
  BY <1>1, <1>2

LEMMA SeenStep ==
  ASSUME TypeInv, NEW p \in Procs, LateOK(p)', Begin(p) \/ Step(p) \/ Crash(p)
  PROVE  History!Seen
BY StaysUnseen DEF History!Seen

LEMMA UnseenKept ==
  ASSUME TypeInv, NEW p \in Procs, LateOK(p)', Begin(p) \/ Step(p) \/ Crash(p), UNCHANGED late
  PROVE  {Cur(q).target : q \in {r \in Procs : late[r]}}' = {Cur(q).target : q \in {r \in Procs : late[r]}}
BY StaysUnseen

LEMMA RefinedParts ==
  ASSUME Refined
  PROVE  /\ TypeInv /\ HistoryInv /\ LockInv /\ CheckedInv /\ BlobBacked /\ OwnEntryKept
         /\ \A p \in Procs : EntryOK(p) /\ LateOK(p) /\ VerdictOK(p) /\ RecordOK(p)
BY DEF Refined, HistoryInv, BlobInv, LogInv

LEMMA RefinedPartsNext ==
  ASSUME Refined'
  PROVE  /\ TypeInv' /\ BlobBacked' /\ OwnEntryKept'
         /\ \A p \in Procs : LateOK(p)'
BY DEF Refined, HistoryInv, BlobInv, LogInv

\* A step that leaves the index leaves what is undoable.
LEMMA UndoableKept ==
  ASSUME Refined, Refined', NEW p \in Procs, Begin(p) \/ Step(p) \/ Crash(p),
         pc[p] # "clear rest", pc'[p] # "clear rest", UNCHANGED index
  PROVE  Undoable' = Undoable
<1>1. Clearing' = Clearing
  BY RefinedParts, ClearingKept
<1>2. Entries' = Entries
  BY DEF Entries
<1>3. Undoable = IF Clearing THEN NoEntries ELSE Entries
  BY RefinedParts, UndoableIs
<1>4. Undoable' = IF Clearing' THEN NoEntries ELSE Entries'
  BY RefinedPartsNext, UndoableNext
<1> QED
  BY <1>1, <1>2, <1>3, <1>4

\* A step of a call that the users of the history do not see.
LEMMA Unnoticed ==
  ASSUME Refined, Refined', NEW p \in Procs, Begin(p) \/ Step(p) \/ Crash(p),
         pc[p] # "clear rest", pc'[p] # "clear rest", UNCHANGED <<file, index, late>>,
         TurnOf(p)' = TurnOf(p)
  PROVE  UNCHANGED History!vars
<1>1. Undoable' = Undoable
  BY UndoableKept
<1>2. [q \in Procs |-> TurnOf(q)]' = [q \in Procs |-> TurnOf(q)]
  BY RefinedParts, TurnKept
<1>3. {Cur(q).target : q \in {r \in Procs : late[r]}}' = {Cur(q).target : q \in {r \in Procs : late[r]}}
  BY RefinedParts, RefinedPartsNext, UnseenKept
<1> QED
  BY <1>1, <1>2, <1>3 DEF History!vars

LEMMA TurnEnds ==
  ASSUME TypeInv, NEW p \in Procs, Return(p)
  PROVE  TurnOf(p)' = History!Nothing
BY NoRequestPlain DEF TypeInv, TypeOK, Return, TurnOf, History!Nothing, History!Doing

LEMMA Leaves ==
  ASSUME Refined, Refined', NEW p \in Procs, Begin(p) \/ Step(p) \/ Crash(p),
         UNCHANGED file, Undoable' = Undoable, TurnOf(p)' = History!Nothing
  PROVE  History!Leave(p)
<1>1. History!Turns(p, History!Nothing)
  BY RefinedParts, TurnTaken
<1>2. History!Seen
  BY RefinedParts, RefinedPartsNext, SeenStep
<1> QED
  BY <1>1, <1>2 DEF History!Leave

\* A call that ends and leaves the files and the index alone.
LEMMA ReturnLeaves ==
  ASSUME Refined, Refined', NEW p \in Procs, Begin(p) \/ Step(p) \/ Crash(p),
         Return(p), pc[p] # "clear rest", UNCHANGED <<file, index>>
  PROVE  History!Leave(p)
<1>1. pc'[p] # "clear rest"
  BY RefinedParts DEF Return, Goto, TypeInv, TypeOK
<1>2. Undoable' = Undoable
  BY <1>1, UndoableKept
<1> QED
  BY <1>2, RefinedParts, TurnEnds, Leaves

\* A call that begins a change or a clear, and its way to its snapshot, go unnoticed.
LEMMA QuietSteps ==
  ASSUME Refined, Refined', NEW p \in Procs,
         \/ BeginMutation(p) \/ BeginClear(p) \/ LockMutation(p) \/ LockTargets(p) \/ Preflight(p)
         \/ Reverify(p) \/ WriteBlob(p) \/ RemoveEvicted(p)
  PROVE  UNCHANGED History!vars
<1>1. TypeInv /\ RecordOK(p) /\ req[p] \in Request
  BY RefinedParts DEF TypeInv, TypeOK
<1>2. Begin(p) \/ Step(p) \/ Crash(p)
  BY DEF Begin, Step
<1>3. UNCHANGED <<file, index, late>>
  BY DEF BeginMutation, BeginClear, LockMutation, LockTargets, Preflight, Reverify, WriteBlob,
  PutBlob, RemoveEvicted, disk, ghost, past
<1>4. pc[p] # "clear rest" /\ pc'[p] # "clear rest"
  BY <1>1 DEF BeginMutation, BeginClear, LockMutation, LockTargets, Preflight, Reverify,
     WriteBlob, PutBlob, RemoveEvicted, Goto, TypeInv, TypeOK
<1>5. CASE BeginMutation(p) \/ BeginClear(p)
  <2>1. req[p].kind = "none"
    BY <1>1, <1>5 DEF BeginMutation, BeginClear, TypeInv, CallOK
  <2>2. req'[p].kind \in {"mutate", "clear"} /\ pc'[p] = "lock"
    BY <1>1, <1>5 DEF BeginMutation, BeginClear, Goto, Call, TypeInv, TypeOK
  <2>3. TurnOf(p)' = TurnOf(p)
    BY <2>1, <2>2 DEF TurnOf
  <2> QED
    BY <1>2, <1>3, <1>4, <2>3, Unnoticed
<1>6. CASE LockMutation(p) \/ LockTargets(p) \/ Preflight(p) \/ Reverify(p)
  <2>1. req'[p] = req[p] /\ pc[p] \notin Recorded /\ pc'[p] \notin Recorded
    BY <1>1, <1>6 DEF LockMutation, LockTargets, Preflight, Reverify, Goto, Recorded, TypeInv,
       TypeOK
  <2>2. TurnOf(p)' = TurnOf(p)
    BY <2>1 DEF TurnOf, Recorded, Cur
  <2> QED
    BY <1>2, <1>3, <1>4, <2>2, Unnoticed
<1>7. CASE WriteBlob(p)
  <2>1. req[p].kind = "mutate" /\ req'[p].kind = "mutate" /\ pc[p] = "snapshot" /\ pc'[p] = "index"
    BY <1>1, <1>7 DEF WriteBlob, PutBlob, Goto, RecordOK, Request, TypeInv, TypeOK
  <2>2. TurnOf(p)' = TurnOf(p)
    BY <2>1 DEF TurnOf
  <2> QED
    BY <1>2, <1>3, <1>4, <2>2, Unnoticed
<1>8. CASE RemoveEvicted(p)
  <2>1. /\ req[p].kind = "mutate" /\ req'[p].kind = "mutate" /\ req'[p].id = req[p].id
        /\ pc[p] = "evict" /\ pc'[p] \in {"stage", "replace"} /\ UNCHANGED applied
    BY <1>1, <1>8 DEF RemoveEvicted, Goto, RecordOK, Request, TypeInv, TypeOK, ghost, past
  <2>2. TurnOf(p)' = TurnOf(p)
    BY <2>1 DEF TurnOf
  <2> QED
    BY <1>2, <1>3, <1>4, <2>2, Unnoticed
<1> QED
  BY <1>5, <1>6, <1>7, <1>8

\* Staging and its comparison: a change that is given up is not known to be yet.
LEMMA StageQuiet ==
  ASSUME Refined, Refined', NEW p \in Procs, Stage(p)
  PROVE  UNCHANGED History!vars
<1>1. TypeInv /\ RecordOK(p) /\ req[p] \in Request
  BY RefinedParts DEF TypeInv, TypeOK
<1>2. pc[p] = "stage" /\ req[p].kind = "mutate" /\ UNCHANGED <<file, index, late, applied>>
  BY <1>1 DEF Stage, RecordOK, disk, ghost, past
<1>3. pc'[p] \in {"replace", "mark"}
  BY <1>1 DEF Stage, Decide, Goto, TypeInv, TypeOK
<1>4. req'[p].id = req[p].id /\ req'[p].kind = req[p].kind
  BY <1>1, DecideFields DEF Stage
<1>5. TurnOf(p)' = TurnOf(p)
  BY <1>2, <1>3, <1>4 DEF TurnOf
<1> QED
  BY <1>2, <1>3, <1>5, Unnoticed DEF Step

\* A restore that is still comparing, or gives up.
LEMMA RestoreQuiet ==
  ASSUME Refined, Refined', NEW p \in Procs, ReadBlob(p) \/ Recheck(p)
  PROVE  UNCHANGED History!vars \/ History!Leave(p)
<1>1. TypeInv /\ RecordOK(p)
  BY RefinedParts
<1>2. /\ pc[p] \in {"read blob", "recheck"} /\ req[p].kind = "restore"
      /\ UNCHANGED <<file, index>>
  BY <1>1 DEF ReadBlob, Recheck, RecordOK, disk
<1>3. Step(p)
  BY DEF Step
<1>4. CASE Return(p)
  BY <1>2, <1>3, <1>4, ReturnLeaves
<1>5. CASE ~Return(p)
  <2>1. UNCHANGED <<req, late>> /\ pc'[p] \in {"recheck", "put back"}
    BY <1>1, <1>5 DEF ReadBlob, Recheck, Goto, TypeInv, TypeOK
  <2>2. TurnOf(p)' = TurnOf(p)
    BY <1>2, <2>1 DEF TurnOf, Cur
  <2> QED
    BY <1>2, <1>3, <2>1, <2>2, Unnoticed
<1> QED
  BY <1>4, <1>5

\* A call that is refused, fails before its change, or dies.
LEMMA FailureLeaves ==
  ASSUME "torn_save" \notin Faults, "torn_clear" \notin Faults, Refined, Refined',
         NEW p \in Procs, \/ Refuse(p) \/ ReverifyFails(p) \/ WriteBlobFails(p)
                         \/ SaveIndexFails(p) \/ Crash(p)
  PROVE  History!Leave(p)
<1>1. Begin(p) \/ Step(p) \/ Crash(p)
  BY DEF Step
<1>2. Return(p) /\ UNCHANGED <<file, index>>
  BY DEF Refuse, ReverifyFails, WriteBlobFails, SaveIndexFails, SaveFails, Fault, Crash, disk
<1>3. pc[p] # "clear rest"
  BY DEF Refuse, ReverifyFails, WriteBlobFails, SaveIndexFails, Fault, Crash
<1> QED
  BY <1>1, <1>2, <1>3, ReturnLeaves

\* Inside, without a clear under way before or after, what can be undone is the index.
LEMMA InsideUndoable ==
  ASSUME NEW s \in Scopes, Scopes = {s}, Refined, Refined', NEW p \in Procs, Begin(p) \/ Step(p) \/ Crash(p),
         histOwner = Nobody \/ pc[p] \in HoldsHistory \/ Inside(p), pc[p] # "clear rest", pc'[p] # "clear rest"
  PROVE  Undoable = Entries /\ Undoable' = Entries'
<1>1. ~Clearing
  BY RefinedParts, NoClear
<1>2. Clearing' = Clearing
  BY RefinedParts, ClearingKept
<1>3. Undoable = IF Clearing THEN NoEntries ELSE Entries
  BY RefinedParts, UndoableIs
<1>4. Undoable' = IF Clearing' THEN NoEntries ELSE Entries'
  BY RefinedPartsNext, UndoableNext
<1>5. Undoable = Entries
  BY <1>1, <1>3
<1>6. ~Clearing'
  BY <1>1, <1>2
<1> QED
  BY <1>4, <1>5, <1>6

\* A call that is changing its target announced it.
LEMMA ChangeTurn ==
  ASSUME NEW p \in Procs, req[p].kind = "mutate", pc[p] \in Recorded, NEW m \in BOOLEAN,
         m = (req[p].id \in applied)
  PROVE  TurnOf(p) = History!Changing(req[p].id, m) /\ TurnOf(p).id = req[p].id /\ TurnOf(p).does = "change"
<1>1. TurnOf(p).id = req[p].id /\ TurnOf(p).does = "change"
  BY DEF TurnOf, Recorded
<1>2. TurnOf(p) = History!Changing(req[p].id, m)
  BY DEF TurnOf, History!Changing, History!Doing, Recorded
<1> QED
  BY <1>1, <1>2

LEMMA ChangeTurnNext ==
  ASSUME NEW p \in Procs, req'[p].kind = "mutate", pc'[p] \in Recorded, NEW m \in BOOLEAN,
         m = (req'[p].id \in applied')
  PROVE  TurnOf(p)' = History!Changing(req'[p].id, m)
BY DEF TurnOf, History!Changing, History!Doing, Recorded

LEMMA QuietTurn ==
  ASSUME NEW p \in Procs, req[p].kind # "restore", ~(req[p].kind = "mutate" /\ pc[p] \in Recorded)
  PROVE  TurnOf(p) = History!Nothing
BY DEF TurnOf, History!Nothing, History!Doing, Recorded

LEMMA QuietTurnNext ==
  ASSUME NEW p \in Procs, req'[p].kind # "restore", ~(req'[p].kind = "mutate" /\ pc'[p] \in Recorded)
  PROVE  TurnOf(p)' = History!Nothing
BY DEF TurnOf, History!Nothing, History!Doing, Recorded

\* Saving the index announces the change; eviction drops the oldest.
LEMMA SaveRecords ==
  ASSUME NEW s \in Scopes, Scopes = {s}, Refined, Refined', NEW p \in Procs, SaveIndex(p)
  PROVE  History!Record(p)
<1> DEFINE i == req[p].id
           idx == Appended(p)
<1>1. TypeInv /\ RecordOK(p) /\ VerdictOK(p) /\ req[p] \in Request /\ HistoryInv
  BY RefinedParts DEF TypeInv, TypeOK
<1>2. /\ pc[p] = "index" /\ pc'[p] = "evict" /\ req[p].kind = "mutate"
      /\ index' = Evict(idx, i) /\ UNCHANGED <<file, late, applied>>
  BY <1>1 DEF SaveIndex, Saved, Goto, RecordOK, TypeInv, TypeOK, ghost, past
<1>3. req'[p].id = i /\ req'[p].kind = "mutate"
  BY <1>1, <1>2 DEF SaveIndex, Request, TypeInv, TypeOK
<1>4. Step(p)
  BY DEF Step
<1>5. Undoable = Entries /\ Undoable' = Entries'
  BY <1>2, <1>4, InsideUndoable DEF HoldsHistory
<1>6. /\ i \in Nat \ {0} /\ DOMAIN idx = DOMAIN index \cup {i} /\ DOMAIN idx \subseteq 1..i
      /\ nextId = i + 1 /\ i \notin DOMAIN index
  BY <1>1, <1>2, AppendedTyped DEF RecordOK
<1>7. PICK n \in 0..(i - 1) : index' = [j \in {j \in DOMAIN idx : j > n} |-> idx[j]]
  <2>1. /\ i - 1 \in 0..i
        /\ Cardinality({j \in DOMAIN idx : j > i - 1}) <= MaxEntries
        /\ BytesUpTo(idx)[i] - BytesUpTo(idx)[i - 1] <= MaxBytes
    BY <1>1, <1>2, OwnFits
  <2> HIDE DEF i, idx
  <2>2. DOMAIN idx \subseteq Nat /\ i \in Nat
    BY <1>6
  <2>3. \E m \in 0..(i - 1) : CutAt(idx, i, m)
    BY <2>1, <2>2, EvictCuts, ZenonT(30)
  <2>4. PICK m \in 0..(i - 1) : CutAt(idx, i, m)
    BY <2>3
  <2>5. index' = [j \in {j \in DOMAIN idx : j > m} |-> idx[j]]
    BY <1>2, <2>4 DEF CutAt
  <2> QED
    BY <2>5
<1>8. /\ idx[i] = NewEntry(p) /\ \A j \in DOMAIN index : idx[j] = index[j]
  BY <1>6 DEF Appended
<1>9. index'[i] = NewEntry(p) /\ i \in DOMAIN index'
  BY <1>6, <1>7, <1>8
<1>10. Undoable' = [j \in {k \in DOMAIN Undoable \cup {i} : k > n} |->
                       IF j = i THEN Undoable'[i] ELSE Undoable[j]]
  <2> HIDE DEF i, idx
  <2>1. DOMAIN Entries = DOMAIN index /\ \A j \in DOMAIN index : Entries[j] = index[j]
    BY DEF Entries
  <2>2. Entries' = [j \in DOMAIN index' |-> index'[j]]
    BY DEF Entries
  <2>3. DOMAIN index' = {k \in DOMAIN index \cup {i} : k > n}
    BY <1>6, <1>7
  <2>4. \A j \in DOMAIN index' : index'[j] = IF j = i THEN Entries'[i] ELSE Entries[j]
    BY <1>6, <1>7, <1>8, <1>9, <2>1, <2>2
  <2> QED
    BY <1>5, <2>1, <2>2, <2>3, <2>4
<1>11. i \in DOMAIN Undoable' /\ Undoable'[i].state = "prepared"
  BY <1>5, <1>9 DEF Entries, NewEntry
<1>12. \A j \in DOMAIN Undoable : j < i
  BY <1>5, <1>6 DEF Entries
<1>13. TurnOf(p) = History!Nothing
  BY <1>2, QuietTurn DEF Recorded
<1>14. (req'[p].id \in applied') = FALSE
  BY <1>1, <1>2, <1>3 DEF VerdictOK, Taken
<1>15. TurnOf(p)' = History!Changing(i, FALSE)
  BY <1>2, <1>3, <1>14, ChangeTurnNext DEF Recorded
<1>16. History!Turns(p, History!Changing(i, FALSE))
  BY <1>1, <1>4, <1>15, TurnTaken
<1>17. History!Seen
  BY <1>1, <1>4, RefinedPartsNext, SeenStep
<1>18. n \in 0 .. i
  BY <1>6
<1> HIDE DEF i
<1> QED
  BY <1>2, <1>10, <1>11, <1>12, <1>13, <1>16, <1>17, <1>18 DEF History!Record

\* What a call replaces is what it compared, or another program was faster.
LEMMA ReplacesWhatItFound ==
  ASSUME Refined, Refined', NEW p \in Procs, LastCompared(p), file' = [file EXCEPT ![Cur(p).target] = Cur(p).new]
  PROVE  History!Replaces(Cur(p).target, Cur(p).new, Cur(p).want)
BY RefinedParts DEF CheckedInv, History!Replaces

\* Replacing the target is the change that was announced.
LEMMA ReplacedChanges ==
  ASSUME NEW s \in Scopes, Scopes = {s}, Refined, Refined', NEW p \in Procs,
         Rename(p) \/ Unlink(p), Replaced(p), NEW v, Decide(p, v)
  PROVE  History!Change(p)
<1> DEFINE i == req[p].id
<1>1. TypeInv /\ RecordOK(p) /\ VerdictOK(p) /\ EntryOK(p) /\ OwnEntryKept /\ req[p] \in Request /\ HistoryInv
  BY RefinedParts DEF TypeInv, TypeOK
<1>2. /\ pc[p] = "replace" /\ req[p].kind = "mutate" /\ UNCHANGED <<index, late>>
      /\ applied' = applied \cup {i} /\ file' = [file EXCEPT ![Cur(p).target] = Cur(p).new]
  BY <1>1 DEF Rename, Unlink, Replaced, RecordOK
<1>3. req'[p].id = i /\ req'[p].kind = "mutate" /\ pc'[p] = "mark"
  BY <1>1, <1>2, DecideFields
<1>4. Step(p)
  BY DEF Step
<1>5. Undoable = Entries /\ Undoable' = Entries'
  BY <1>2, <1>3, <1>4, InsideUndoable DEF Inside
<1>6. /\ i \in DOMAIN Undoable /\ Undoable[i].target = Cur(p).target
      /\ Undoable[i].after = Cur(p).new /\ Undoable[i].before = Cur(p).want
  BY <1>1, <1>2, <1>5 DEF EntryOK, OwnEntryKept, Entries, Recorded
<1>7. Undoable' = Undoable
  BY <1>2, <1>5 DEF Entries
<1>8. History!Replaces(Cur(p).target, Cur(p).new, Cur(p).want)
  BY <1>2, ReplacesWhatItFound DEF LastCompared
<1>9. (req[p].id \in applied) = FALSE /\ (req'[p].id \in applied') = TRUE
  BY <1>1, <1>2, <1>3 DEF VerdictOK, Taken
<1>10. TurnOf(p) = History!Changing(i, FALSE)
  BY <1>2, <1>9, ChangeTurn DEF Recorded
<1>11. TurnOf(p)' = History!Changing(i, TRUE)
  BY <1>3, <1>9, ChangeTurnNext DEF Recorded
<1>12. History!Turns(p, History!Changing(i, TRUE))
  BY <1>1, <1>4, <1>11, TurnTaken
<1>13. History!Seen
  BY <1>1, <1>4, RefinedPartsNext, SeenStep
<1>14. TurnOf(p).id = i
  BY <1>2, <1>9, ChangeTurn DEF Recorded
<1> HIDE DEF i
<1> QED
  BY <1>6, <1>7, <1>8, <1>10, <1>12, <1>13, <1>14 DEF History!Change

LEMMA ReplaceChanges ==
  ASSUME NEW s \in Scopes, Scopes = {s}, Refined, Refined', NEW p \in Procs, Rename(p) \/ Unlink(p)
  PROVE  UNCHANGED History!vars \/ History!Change(p)
<1>1. TypeInv /\ RecordOK(p) /\ req[p] \in Request
  BY RefinedParts DEF TypeInv, TypeOK
<1>2. PICK v : Decide(p, v)
  BY DEF Rename, Unlink
<1>3. CASE Replaced(p)
  BY <1>2, <1>3, ReplacedChanges
<1>4. CASE UNCHANGED <<file, applied>>
  <2>1. pc[p] = "replace" /\ req[p].kind = "mutate" /\ UNCHANGED <<index, late>>
    BY <1>1 DEF Rename, Unlink, RecordOK
  <2>2. req'[p].id = req[p].id /\ req'[p].kind = "mutate" /\ pc'[p] = "mark"
    BY <1>1, <1>2, <2>1, DecideFields
  <2>3. TurnOf(p)' = TurnOf(p)
    BY <1>4, <2>1, <2>2 DEF TurnOf
  <2> QED
    BY <1>4, <2>1, <2>2, <2>3, Unnoticed DEF Step
<1> QED
  BY <1>3, <1>4 DEF Rename, Unlink

\* Marking an entry marks it for those who use the history.
LEMMA MarkingMarks ==
  ASSUME NEW s \in Scopes, Scopes = {s}, Refined, Refined', NEW p \in Procs, Step(p), pc[p] = "mark",
         pc'[p] # "clear rest", req[p].id \in DOMAIN index, NEW v, index' = Marked(req[p].id, v)
  PROVE  req[p].id \in DOMAIN Undoable /\ History!Marks(req[p].id, v)
<1>1. Undoable = Entries /\ Undoable' = Entries'
  BY InsideUndoable DEF Inside
<1>2. DOMAIN index' = DOMAIN index
  BY DEF Marked
<1>3. \A j \in DOMAIN index : index'[j] = IF j = req[p].id THEN [index[j] EXCEPT !.state = v] ELSE index[j]
  BY DEF Marked
<1>4. DOMAIN Entries = DOMAIN index /\ \A j \in DOMAIN index : Entries[j] = index[j]
  BY DEF Entries
<1>5. Entries' = [j \in DOMAIN index |-> index'[j]]
  BY <1>2 DEF Entries
<1>6. Entries' = [Entries EXCEPT ![req[p].id] = [Entries[req[p].id] EXCEPT !.state = v]]
  <2>1. Entries = [j \in DOMAIN index |-> Entries[j]]
    BY DEF Entries
  <2> QED
    BY <1>3, <1>4, <1>5, <2>1, ZenonT(30)
<1>7. req[p].id \in DOMAIN Undoable
  BY <1>1, <1>4
<1> QED
  BY <1>1, <1>6, <1>7 DEF History!Marks

LEMMA VerdictTyped ==
  ASSUME TypeInv, NEW p \in Procs
  PROVE  req[p].verdict \in States
BY DEF TypeInv, TypeOK, Request

\* A change is marked with the truth, or as unknown.
LEMMA MarkedTruly ==
  ASSUME NEW p \in Procs, VerdictOK(p), pc[p] = "mark", req[p].kind = "mutate", req[p].verdict \in States
  PROVE  \/ req[p].verdict = "committed" /\ (req[p].id \in applied) = TRUE
         \/ req[p].verdict = "aborted" /\ (req[p].id \in applied) = FALSE
         \/ req[p].verdict = "uncertain" /\ ((req[p].id \in applied) = TRUE \/ (req[p].id \in applied) = FALSE)
BY DEF VerdictOK, States

\* A change that is marked is settled; an undo that is marked is in doubt.
LEMMA MarkSettles ==
  ASSUME NEW s \in Scopes, Scopes = {s}, Refined, Refined', NEW p \in Procs, Step(p), pc[p] = "mark",
         req[p].kind = "mutate", UNCHANGED <<file, applied>>,
         req[p].id \in DOMAIN index, index' = Marked(req[p].id, req[p].verdict),
         pc'[p] # "clear rest", TurnOf(p)' = History!Nothing
  PROVE  History!Settle(p)
<1> DEFINE i == req[p].id
           v == req[p].verdict
<1>1. TypeInv /\ VerdictOK(p) /\ HistoryInv
  BY RefinedParts
<1>2. i \in DOMAIN Undoable /\ History!Marks(i, v)
  BY MarkingMarks
<1>3. v \in States
  BY <1>1, VerdictTyped
<1>4. \/ v = "committed" /\ (i \in applied) = TRUE
      \/ v = "aborted" /\ (i \in applied) = FALSE
      \/ v = "uncertain" /\ ((i \in applied) = TRUE \/ (i \in applied) = FALSE)
  BY <1>1, <1>3, MarkedTruly
<1>5. pc[p] \in Recorded
  BY DEF Recorded
<1>6. /\ TurnOf(p).id = i /\ TurnOf(p).does = "change"
      /\ (i \in applied) = TRUE => TurnOf(p) = History!Changing(i, TRUE)
      /\ (i \in applied) = FALSE => TurnOf(p) = History!Changing(i, FALSE)
  <2>1. TRUE \in BOOLEAN /\ FALSE \in BOOLEAN
    OBVIOUS
  <2>2. CASE (i \in applied) = TRUE
    BY <1>5, <2>1, <2>2, ChangeTurn
  <2>3. CASE (i \in applied) = FALSE
    BY <1>5, <2>1, <2>3, ChangeTurn
  <2> QED
    BY <1>4, <2>2, <2>3
<1>7. History!Turns(p, History!Nothing)
  BY <1>1, TurnTaken
<1>8. History!Seen
  BY <1>1, RefinedPartsNext, SeenStep
<1> HIDE DEF i, v
<1> QED
  BY <1>2, <1>4, <1>6, <1>7, <1>8 DEF History!Settle

LEMMA MarkDoubts ==
  ASSUME NEW s \in Scopes, Scopes = {s}, Refined, Refined', NEW p \in Procs, Step(p), pc[p] = "mark",
         req[p].kind = "restore", UNCHANGED file,
         req[p].id \in DOMAIN index, index' = Marked(req[p].id, req[p].verdict),
         pc'[p] # "clear rest", TurnOf(p)' = History!Nothing
  PROVE  History!Doubt(p)
<1> DEFINE i == req[p].id
<1>1. TypeInv /\ VerdictOK(p) /\ HistoryInv
  BY RefinedParts
<1>2. i \in DOMAIN Undoable /\ History!Marks(i, req[p].verdict)
  BY MarkingMarks
<1>3. req[p].verdict = "uncertain"
  BY <1>1 DEF VerdictOK
<1>4. TurnOf(p).does = "undo" /\ TurnOf(p).id = i
  BY DEF TurnOf
<1>5. History!Turns(p, History!Nothing)
  BY <1>1, TurnTaken
<1>6. History!Seen
  BY <1>1, RefinedPartsNext, SeenStep
<1> HIDE DEF i
<1> QED
  BY <1>2, <1>3, <1>4, <1>5, <1>6 DEF History!Doubt

LEMMA MarkSteps ==
  ASSUME "torn_save" \notin Faults, NEW s \in Scopes, Scopes = {s}, Refined, Refined', NEW p \in Procs,
         MarkCommitted(p) \/ MarkFailed(p)
  PROVE  UNCHANGED History!vars \/ History!Settle(p) \/ History!Doubt(p) \/ History!Leave(p)
<1>1. TypeInv /\ RecordOK(p) /\ VerdictOK(p) /\ OwnEntryKept /\ req[p] \in Request
  BY RefinedParts DEF TypeInv, TypeOK
<1>2. Step(p) /\ pc[p] = "mark" /\ UNCHANGED <<file, applied>>
  BY DEF past, Step, MarkCommitted, MarkFailed
<1>3. req[p].kind \in {"mutate", "restore"}
  BY <1>1, <1>2 DEF TypeInv, CallOK, Request
<1>4. ASSUME Proceed(p) \/ Return(p)
      PROVE  pc'[p] # "clear rest" /\ TurnOf(p)' = History!Nothing
  <2>1. CASE Return(p)
    <3>1. TurnOf(p)' = History!Nothing
      BY <1>1, <2>1, TurnEnds
    <3> QED
      BY <1>1, <2>1, <3>1 DEF Return, Goto, TypeInv, TypeOK
  <2>2. CASE Proceed(p) /\ ~Return(p)
    <3>1. pc'[p] = "reverify" /\ req'[p].kind = "mutate"
      BY <1>1, <1>2, <2>2, ProceedFields DEF Proceed, Goto, TypeInv, TypeOK
    <3>2. TurnOf(p)' = History!Nothing
      BY <3>1, QuietTurnNext DEF Recorded
    <3> QED
      BY <3>1, <3>2
  <2> QED
    BY <1>4, <2>1, <2>2
<1>5. CASE req[p].id \in DOMAIN index /\ index' = Marked(req[p].id, req[p].verdict) /\ (Proceed(p) \/ Return(p))
  BY <1>2, <1>3, <1>4, <1>5, MarkSettles, MarkDoubts
<1>6. CASE UNCHANGED index /\ Return(p)
  BY <1>2, <1>6, ReturnLeaves
<1>7. CASE UNCHANGED <<index, pc, late>> /\ req' = [req EXCEPT ![p].verdict = "uncertain"]
           /\ req[p].verdict = "committed"
  <2>1. req[p].kind = "mutate"
    BY <1>1, <1>2, <1>3, <1>7 DEF VerdictOK
  <2>2. req'[p].id = req[p].id /\ req'[p].kind = "mutate"
    BY <1>1, <1>7, <2>1 DEF Request, TypeInv, TypeOK
  <2>3. TurnOf(p)' = TurnOf(p)
    BY <1>2, <1>7, <2>1, <2>2 DEF TurnOf
  <2> QED
    BY <1>2, <1>7, <2>3, Unnoticed
<1> QED
  BY <1>5, <1>6, <1>7 DEF MarkCommitted, MarkFailed, Saved, SaveFails, Fault

\* Reconciling the index judges it.
LEMMA ReconcileVerdict ==
  ASSUME TypeInv, NEW i \in DOMAIN index, NEW u, index' = Reconcile(u)
  PROVE  index'[i] = [index[i] EXCEPT !.state = index'[i].state]
         /\ \/ index[i].state # "prepared" /\ index'[i].state = index[i].state
            \/ index[i].state = "prepared" /\ index'[i].state = "uncertain"
            \/ index[i].state = "prepared" /\ index'[i].state =
                 IF file[index[i].target] = index[i].after THEN "committed"
                 ELSE IF file[index[i].target] = index[i].before THEN "aborted"
                 ELSE "uncertain"
<1>1. index[i] \in Entry
  BY DEF TypeInv, TypeOK
<1>2. index'[i] = [index[i] EXCEPT !.state = Resolve(index[i], u)] /\ index'[i].state = Resolve(index[i], u)
  BY ReconcileKeeps DEF Reconcile
<1> QED
  BY <1>1, <1>2 DEF Resolve

LEMMA ReconcileJudges ==
  ASSUME TypeInv, NEW u, index' = Reconcile(u), Undoable = Entries, Undoable' = Entries'
  PROVE  History!Judged
<1>1. DOMAIN index' = DOMAIN index
  BY DEF Reconcile
<1>2. Entries' = [i \in DOMAIN index |-> index'[i]]
  BY <1>1 DEF Entries
<1>3. DOMAIN Entries = DOMAIN index /\ \A i \in DOMAIN index : Entries[i] = index[i]
  BY DEF Entries
<1>4. DOMAIN Entries' = DOMAIN index /\ \A i \in DOMAIN index : Entries'[i] = index'[i]
  BY <1>2
<1>5. Entries' = [i \in DOMAIN Entries |-> [Entries[i] EXCEPT !.state = Entries'[i].state]]
  <2>1. \A i \in DOMAIN index : index'[i] = [index[i] EXCEPT !.state = index'[i].state]
    BY ReconcileVerdict
  <2> QED
    BY <1>2, <1>3, <1>4, <2>1
<1>6. ASSUME NEW i \in DOMAIN Entries PROVE Entries'[i].state \in History!Verdicts(Entries[i])
  <2>1. i \in DOMAIN index /\ Entries[i] = index[i] /\ Entries'[i] = index'[i]
    BY <1>3, <1>4, <1>6
  <2> QED
    BY <2>1, ReconcileVerdict DEF History!Verdicts
<1>7. DOMAIN Entries' = DOMAIN Entries
  BY <1>3, <1>4
<1> QED
  BY <1>5, <1>6, <1>7 DEF History!Judged

\* A restore asks for a change that took place, with what its file holds now.
LEMMA RestoreAsked ==
  ASSUME Refined, NEW p \in Procs, BeginRestore(p)
  PROVE  /\ pc'[p] = "lock" /\ pc[p] = "idle" /\ req[p].kind = "none" /\ histOwner = Nobody /\ UNCHANGED file
         /\ \E u : index' = Reconcile(u)
         /\ \E i \in DOMAIN index :
              /\ index'[i].state = "committed"
              /\ req'[p].kind = "restore" /\ req'[p].id = i
              /\ (Cur(p))' = Restoring(index[i])
<1>1. TypeInv /\ req \in [Procs -> Request] /\ pc \in [Procs -> Labels]
  BY RefinedParts DEF TypeInv, TypeOK
<1>2. pc'[p] = "lock" /\ pc[p] = "idle" /\ req[p].kind = "none" /\ histOwner = Nobody /\ UNCHANGED file
  BY <1>1 DEF BeginRestore, Goto, TypeInv, CallOK
<1>3. PICK u : index' = Reconcile(u)
  BY DEF BeginRestore, Saved
<1>4. DOMAIN index' = DOMAIN index
  BY <1>3 DEF Reconcile
<1>5. PICK i \in DOMAIN index, s \in Scopes :
        /\ index'[i].state = "committed"
        /\ req' = [req EXCEPT ![p] = Call("restore", s, <<Restoring(index'[i])>>, 1, i)]
  BY DEF BeginRestore
<1>6. Restoring(index'[i]) = Restoring(index[i])
  <2>1. index'[i].target = index[i].target /\ index'[i].before = index[i].before
    BY <1>1, <1>3, ReconcileKeeps
  <2> QED
    BY <2>1 DEF Restoring
<1>7. req'[p] = Call("restore", s, <<Restoring(index[i])>>, 1, i)
  BY <1>1, <1>5, <1>6
<1>8. req'[p].kind = "restore" /\ req'[p].id = i /\ req'[p].at = 1 /\ req'[p].ops = <<Restoring(index[i])>>
  BY <1>7 DEF Call
<1>9. (Cur(p))' = Restoring(index[i])
  BY <1>8 DEF Cur
<1> QED
  BY <1>2, <1>3, <1>5, <1>8, <1>9

LEMMA RestoreAsks ==
  ASSUME NEW s \in Scopes, Scopes = {s}, Refined, Refined', NEW p \in Procs, BeginRestore(p)
  PROVE  History!Ask(p)
<1>1. /\ pc'[p] = "lock" /\ pc[p] = "idle" /\ req[p].kind = "none" /\ histOwner = Nobody /\ UNCHANGED file
  BY RestoreAsked
<1>2. PICK u : index' = Reconcile(u)
  BY RestoreAsked
<1>3. PICK i \in DOMAIN index :
        /\ index'[i].state = "committed"
        /\ req'[p].kind = "restore" /\ req'[p].id = i
        /\ (Cur(p))' = Restoring(index[i])
  BY RestoreAsked
<1>4. Begin(p) \/ Step(p) \/ Crash(p)
  BY DEF Begin
<1>5. Undoable = Entries /\ Undoable' = Entries'
  BY <1>1, <1>4, InsideUndoable
<1>6. DOMAIN index' = DOMAIN index
  BY <1>2 DEF Reconcile
<1>7. /\ i \in DOMAIN Undoable' /\ Undoable'[i].state = "committed" /\ Undoable[i] = index[i]
  BY <1>3, <1>5, <1>6 DEF Entries
<1>8. TurnOf(p)' = History!Undoing(i, index[i].target, index[i].before, file[index[i].target])
  BY <1>3 DEF TurnOf, Restoring, History!Undoing, History!Doing
<1>9. TurnOf(p) = History!Nothing
  BY <1>1, QuietTurn
<1>10. History!Judged
  BY <1>2, <1>5, RefinedParts, ReconcileJudges
<1>11. History!Turns(p, History!Undoing(i, index[i].target, index[i].before, file[index[i].target]))
  BY <1>4, <1>8, RefinedParts, TurnTaken
<1>12. History!Seen
  BY <1>4, RefinedParts, RefinedPartsNext, SeenStep
<1> QED
  BY <1>1, <1>7, <1>9, <1>10, <1>11, <1>12 DEF History!Ask

\* Listing judges the entries, or leaves them.
LEMMA ListJudges ==
  ASSUME "torn_save" \notin Faults, Refined, Refined', List
  PROVE  UNCHANGED History!vars \/ History!Judge
<1>1. UNCHANGED <<file, blobs, pc, req, applied, late>> /\ histOwner = Nobody
  BY DEF List, ghost, past
<1>2. [p \in Procs |-> TurnOf(p)]' = [p \in Procs |-> TurnOf(p)]
  BY <1>1 DEF TurnOf, Cur
<1>3. {Cur(q).target : q \in {r \in Procs : late[r]}}' = {Cur(q).target : q \in {r \in Procs : late[r]}}
  BY <1>1 DEF Cur
<1>4. ~Clearing
  BY <1>1, RefinedParts, NamesAssumption DEF Clearing, HistoryInv, HistInv, HoldsHistory
<1>5. ~Clearing'
  BY <1>1, <1>4 DEF Clearing
<1>6. Undoable = Entries
  BY <1>4, RefinedParts, UndoableIs
<1>7. Undoable' = Entries'
  BY <1>5, RefinedPartsNext, UndoableNext
<1>8. CASE UNCHANGED index
  <2>1. Undoable' = Undoable
    BY <1>6, <1>7, <1>8 DEF Entries
  <2> QED
    BY <1>1, <1>2, <1>3, <2>1 DEF History!vars
<1>9. CASE \E u : index' = Reconcile(u)
  <2>1. History!Judged
    BY <1>6, <1>7, <1>9, RefinedParts, ReconcileJudges
  <2>2. History!Seen
    BY <1>3 DEF History!Seen
  <2> QED
    BY <1>1, <1>2, <2>1, <2>2 DEF History!Judge
<1> QED
  BY <1>8, <1>9 DEF List, Saved, SaveFails, Fault

\* A restore that has compared its target.
LEMMA UndoTurn ==
  ASSUME NEW p \in Procs, req[p].kind = "restore"
  PROVE  /\ TurnOf(p).does = "undo" /\ TurnOf(p).target = Cur(p).target
         /\ TurnOf(p).content = Cur(p).new /\ TurnOf(p).found = Cur(p).want
BY DEF TurnOf

\* Putting a file back undoes the change, unless it fails.
LEMMA PutBackUndoes ==
  ASSUME Refined, Refined', NEW p \in Procs, PutBack(p)
  PROVE  UNCHANGED History!vars \/ History!Undo(p) \/ History!Leave(p)
<1>1. TypeInv /\ RecordOK(p) /\ HistoryInv
  BY RefinedParts
<1>2. pc[p] = "put back" /\ req[p].kind = "restore" /\ UNCHANGED index
  BY <1>1 DEF PutBack, RecordOK
<1>3. Step(p)
  BY DEF Step
<1>4. ASSUME NEW v, Decide(p, v), UNCHANGED late
      PROVE  pc'[p] = "mark" /\ TurnOf(p)' = TurnOf(p)
  <2>1. req'[p].id = req[p].id /\ req'[p].kind = req[p].kind /\ pc'[p] = "mark"
    BY <1>1, <1>4, DecideFields
  <2>2. (Cur(p))' = Cur(p)
    <3>1. ~Begin(p) /\ ~Return(p) /\ ~(pc[p] = "mark" /\ Proceed(p))
      BY <1>1, <1>2, <2>1, BeginFields DEF Return, Goto, TypeInv, TypeOK
    <3> QED
      BY <1>1, <1>3, <3>1, OpKept
  <2> QED
    BY <1>2, <2>1, <2>2 DEF TurnOf
<1>5. CASE UNCHANGED file
  <2>1. CASE Return(p)
    BY <1>2, <1>3, <1>5, <2>1, ReturnLeaves
  <2>2. CASE Decide(p, "uncertain") /\ UNCHANGED late
    <3>1. pc'[p] = "mark" /\ TurnOf(p)' = TurnOf(p)
      BY <1>4, <2>2
    <3> QED
      BY <1>2, <1>3, <1>5, <2>2, <3>1, Unnoticed
  <2> QED
    BY <2>1, <2>2 DEF PutBack
<1>6. CASE file' = [file EXCEPT ![Cur(p).target] = Cur(p).new]
  <2>1. History!Replaces(Cur(p).target, Cur(p).new, Cur(p).want)
    BY <1>2, <1>6, ReplacesWhatItFound DEF LastCompared
  <2>2. pc'[p] # "clear rest"
    BY <1>1 DEF PutBack, Return, Decide, Goto, TypeInv, TypeOK
  <2>3. Undoable' = Undoable
    BY <1>2, <1>3, <2>2, UndoableKept
  <2>4. History!Seen
    BY <1>1, <1>3, RefinedPartsNext, SeenStep
  <2>5. CASE Return(p)
    <3>1. History!Turns(p, History!Nothing)
      BY <1>1, <1>3, <2>5, TurnEnds, TurnTaken
    <3> QED
      BY <1>2, <2>1, <2>3, <2>4, <3>1, UndoTurn DEF History!Undo
  <2>6. CASE Decide(p, "uncertain") /\ UNCHANGED late
    <3>1. [q \in Procs |-> TurnOf(q)]' = [q \in Procs |-> TurnOf(q)]
      BY <1>1, <1>3, <1>4, <2>6, TurnKept
    <3> QED
      BY <1>2, <2>1, <2>3, <2>4, <3>1, UndoTurn DEF History!Undo
  <2> QED
    BY <2>5, <2>6 DEF PutBack
<1> QED
  BY <1>5, <1>6 DEF PutBack

\* A clear takes everything at its first step: nobody is changing anything.
LEMMA ClearClears ==
  ASSUME NEW s \in Scopes, Scopes = {s}, Refined, Refined', NEW p \in Procs, ClearFirst(p)
  PROVE  History!Clear
<1>1. TypeInv /\ RecordOK(p) /\ HistoryInv /\ LockInv
  BY RefinedParts
<1>2. /\ pc[p] = "clear" /\ pc'[p] = "clear rest" /\ req[p].kind = "clear"
      /\ UNCHANGED <<file, req, late>>
  BY <1>1 DEF ClearFirst, Goto, TypeInv, TypeOK, CallOK, ghost, past
<1>3. Step(p)
  BY DEF Step
<1>4. Clearing'
  BY <1>2 DEF Clearing
<1>5. Undoable' = NoEntries
  BY <1>4, RefinedPartsNext, UndoableNext
<1>6. ASSUME NEW c \in Procs PROVE TurnOf(c).does # "change"
  <2> SUFFICES ASSUME req[c].kind = "mutate", pc[c] \in Recorded PROVE FALSE
    BY DEF TurnOf, Recorded
  <2>1. Inside(c) /\ Inside(p)
    BY <1>2 DEF Inside, Recorded
  <2>2. c = p
    BY <1>1, <2>1, OnlyOneInside
  <2> QED
    BY <1>2, <2>2
<1>7. TurnOf(p)' = TurnOf(p)
  BY <1>2 DEF TurnOf
<1>8. [q \in Procs |-> TurnOf(q)]' = [q \in Procs |-> TurnOf(q)]
  BY <1>1, <1>3, <1>7, TurnKept
<1>9. History!Seen
  BY <1>1, <1>3, RefinedPartsNext, SeenStep
<1> QED
  BY <1>2, <1>5, <1>6, <1>8, <1>9 DEF History!Clear, NoEntries

LEMMA ClearRestLeaves ==
  ASSUME NEW s \in Scopes, Scopes = {s}, Refined, Refined', NEW p \in Procs, ClearRest(p)
  PROVE  History!Leave(p)
<1>1. TypeInv /\ HistoryInv /\ LockInv
  BY RefinedParts
<1>2. pc[p] = "clear rest" /\ Return(p) /\ UNCHANGED file /\ DOMAIN index' = {} /\ pc'[p] = "idle"
  BY <1>1 DEF ClearRest, Return, Goto, Without, TypeInv, TypeOK
<1>3. Step(p)
  BY DEF Step
<1>4. Clearing
  BY <1>2 DEF Clearing
<1>5. ~Clearing'
  <2> SUFFICES ASSUME NEW q \in Procs, pc'[q] = "clear rest" PROVE FALSE
    BY DEF Clearing
  <2>1. q # p /\ pc[q] = "clear rest"
    BY <1>1, <1>2, <1>3, OthersKeep
  <2> QED
    BY <1>1, <1>2, <2>1, OnlyOneInside DEF Inside
<1>6. Undoable = NoEntries
  BY <1>4, RefinedParts, UndoableIs
<1>7. Undoable' = Entries'
  BY <1>5, RefinedPartsNext, UndoableNext
<1>8. Entries' = NoEntries
  BY <1>2 DEF Entries, NoEntries
<1>9. Undoable' = Undoable
  BY <1>6, <1>7, <1>8
<1> QED
  BY <1>1, <1>2, <1>3, <1>9, TurnEnds, Leaves

\* Another program changes a file, perhaps behind a call that has compared it.
LEMMA EditIsForeign ==
  ASSUME TypeInv, NEW t \in Targets, Edit(t)
  PROVE  History!Foreign(t)
<1>1. UNCHANGED <<index, blobs, pc, req, applied>>
  BY DEF past, Edit, locks
<1>2. \E h \in Holdings : file' = [file EXCEPT ![t] = h]
  BY DEF Edit
<1>3. \A p \in Procs : late'[p] = (late[p] \/ (LastCompared(p) /\ Cur(p).target = t))
  BY DEF Edit
<1>4. \A p \in Procs : late'[p] <=> (late[p] \/ (LastCompared(p) /\ Cur(p).target = t))
  BY <1>3
<1>5. \A p \in Procs : (Cur(p))' = Cur(p)
  BY <1>1 DEF Cur
<1> DEFINE Behind == {Cur(p).target : p \in {q \in Procs : late[q]}}
<1>7. Behind' \in {Behind, Behind \cup {t}}
  <2>1. Behind' = {Cur(p).target : p \in {q \in Procs : late'[q]}}
    BY <1>5
  <2>2. CASE \E p \in Procs : LastCompared(p) /\ Cur(p).target = t
    <3>1. Behind' = Behind \cup {t}
      BY <1>4, <2>1, <2>2
    <3> QED
      BY <3>1
  <2>3. CASE ~\E p \in Procs : LastCompared(p) /\ Cur(p).target = t
    <3>1. Behind' = Behind
      BY <1>4, <2>1, <2>3
    <3> QED
      BY <3>1
  <2> QED
    BY <2>2, <2>3
<1>8. Undoable' = Undoable
  BY <1>1 DEF Undoable, Clearing
<1>9. [p \in Procs |-> TurnOf(p)]' = [p \in Procs |-> TurnOf(p)]
  BY <1>1 DEF TurnOf, Cur
<1> QED
  BY <1>2, <1>7, <1>8, <1>9 DEF History!Foreign

LEMMA StutterUnnoticed ==
  ASSUME UNCHANGED vars
  PROVE  UNCHANGED History!vars
<1>1. UNCHANGED <<file, index, blobs, pc, req, applied, late>>
  BY DEF vars, disk, ghost, past
<1>2. Undoable' = Undoable
  BY <1>1 DEF Undoable, Clearing
<1>3. [p \in Procs |-> TurnOf(p)]' = [p \in Procs |-> TurnOf(p)]
  BY <1>1 DEF TurnOf, Cur
<1>4. {Cur(q).target : q \in {r \in Procs : late[r]}}' = {Cur(q).target : q \in {r \in Procs : late[r]}}
  BY <1>1 DEF Cur
<1> QED
  BY <1>1, <1>2, <1>3, <1>4 DEF History!vars

\* Every step of Mutation is one of the log, or none.
LEMMA StepIsTheLogs ==
  ASSUME NEW s \in Scopes, Scopes = {s}, "torn_save" \notin Faults, "torn_clear" \notin Faults
  PROVE  Refined /\ Refined' /\ [Next]_vars => [History!Next]_History!vars
<1> SUFFICES ASSUME Refined, Refined', [Next]_vars PROVE [History!Next]_History!vars
  OBVIOUS
<1>1. CASE UNCHANGED vars
  BY <1>1, StutterUnnoticed
<1>2. CASE List
  BY <1>2, ListJudges DEF History!Next
<1>3. CASE \E t \in Targets : Edit(t)
  BY <1>3, RefinedParts, EditIsForeign DEF History!Next
<1>4. ASSUME NEW p \in Procs, Begin(p) \/ Step(p) \/ Crash(p)
      PROVE  [History!Next]_History!vars
  <2>1. CASE BeginMutation(p) \/ BeginClear(p) \/ LockMutation(p) \/ LockTargets(p) \/ Preflight(p)
               \/ Reverify(p) \/ WriteBlob(p) \/ RemoveEvicted(p)
    BY <2>1, QuietSteps
  <2>2. CASE BeginRestore(p)
    BY <2>2, RestoreAsks DEF History!Next
  <2>3. CASE \/ Refuse(p) \/ ReverifyFails(p) \/ WriteBlobFails(p)
              \/ SaveIndexFails(p) \/ Crash(p)
    BY <2>3, FailureLeaves DEF History!Next
  <2>4. CASE SaveIndex(p)
    BY <2>4, SaveRecords DEF History!Next
  <2>5. CASE Stage(p)
    BY <2>5, StageQuiet
  <2>6. CASE Rename(p) \/ Unlink(p)
    BY <2>6, ReplaceChanges DEF History!Next
  <2>7. CASE MarkCommitted(p) \/ MarkFailed(p)
    BY <2>7, MarkSteps DEF History!Next
  <2>8. CASE ReadBlob(p) \/ Recheck(p)
    BY <2>8, RestoreQuiet DEF History!Next
  <2>9. CASE PutBack(p)
    BY <2>9, PutBackUndoes DEF History!Next
  <2>10. CASE ClearFirst(p) \/ ClearRest(p)
    BY <2>10, ClearClears, ClearRestLeaves DEF History!Next
  <2> QED
    BY <1>4, <2>1, <2>2, <2>3, <2>4, <2>5, <2>6, <2>7, <2>8, <2>9, <2>10 DEF past, Begin, Step
<1> QED
  BY <1>1, <1>2, <1>3, <1>4 DEF Next

LEMMA LogBegins == Init => History!Init
<1> SUFFICES ASSUME Init PROVE History!Init
  OBVIOUS
<1>1. Undoable = [i \in {} |-> {}]
  BY DEF Init, Undoable
<1>2. \A p \in Procs : req[p].kind = "none" /\ late[p] = FALSE
  BY NoRequestPlain DEF Init
<1>3. \A p \in Procs : TurnOf(p) = History!Nothing
  BY <1>2, QuietTurn
<1>4. {Cur(p).target : p \in {q \in Procs : late[q]}} = {}
  BY <1>2
<1>5. file \in [Targets -> Holdings]
  BY DEF Init
<1> QED
  BY <1>1, <1>3, <1>4, <1>5 DEF History!Init

\* With one engine, and saves and clears of the history that are done or not
\* done, the mutation protocol implements UndoLog: a log of changes written
\* ahead of each of them, in which nothing under way is lost, and from which
\* only changes that took place are undone, to what their files held.
THEOREM HistoryIsALog ==
  ASSUME NEW s \in Scopes, Scopes = {s}, "torn_save" \notin Faults, "torn_clear" \notin Faults
  PROVE  Spec => KeepsUndoLog
<1>1. Init => Refined
  <2> SUFFICES ASSUME Init PROVE Refined
    OBVIOUS
  <2>1. \A p \in Procs : req[p].kind = "none" /\ pc[p] = "idle" /\ late[p] = FALSE
    BY NoRequestPlain DEF Init
  <2>2. LockInv /\ CheckedInv
    BY <2>1 DEF LockInv, CheckedInv, LastCompared, Inside
  <2>3. BlobInv /\ LogInv
    BY <2>1 DEF Init, BlobInv, BlobBacked, PendingBacked, LogInv, OwnEntryKept, EntryOK, LateOK,
       VerdictOK, Recorded, Taken
  <2> QED
    BY <2>2, <2>3, HistoryInit DEF Refined
<1>2. Refined /\ [Next]_vars => Refined'
  <2>1. Refined => TypeInv
    BY DEF Refined, HistoryInv
  <2> QED
    BY <2>1, HistoryStep, LockStep, CheckedStep, BlobStep, LogStep DEF Refined
<1>3. Refined /\ Refined' /\ [Next]_vars => [History!Next]_History!vars
  BY StepIsTheLogs
<1> QED
  BY <1>1, <1>2, <1>3, LogBegins, PTL DEF Spec, KeepsUndoLog, History!Spec
=============================================================================

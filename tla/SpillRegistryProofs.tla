------------------------ MODULE SpillRegistryProofs ------------------------
(***************************************************************************)
(* Theorems about SpillRegistry, for every set of processes and names and  *)
(* every limit.                                                            *)
(***************************************************************************)
EXTENDS SpillRegistry, WellFoundedInduction, FiniteSetTheorems, TLAPS

-----------------------------------------------------------------------------
\* The invariant.
-----------------------------------------------------------------------------
SpillRec == [path : SpillPaths, ino : Nat, version : Nat, at : Nat]

\* The file of the spill registered i-th may be gone, its record may be dropped,
\* or is to be dropped when the registration tried last is written.  Once true,
\* the first two stay so.
Gone(i) ==
    \/ TooOld(spillTried[i].rec)
    \/ spillTried[i].rec.ino \in spillTaken
    \/ Later(i) # {} /\ Cardinality(LaterWritten(i)) >= SpillMaxEntries - 1
Dropped(i) ==
    \/ TooOld(spillTried[i].rec)
    \/ Cardinality(LaterWritten(i)) >= SpillMaxEntries
    \/ \E j \in LaterWritten(i) : spillTried[j].rec.path = spillTried[i].rec.path \/ spillTried[j].blind
Leaving(i) ==
    /\ i < Len(spillTried)
    /\ \/ TooOld(spillTried[i].rec)
       \/ Cardinality(LaterWritten(i)) >= SpillMaxEntries - 1
       \/ spillTried[Len(spillTried)].rec.path = spillTried[i].rec.path
       \/ spillTried[Len(spillTried)].blind
GoneRec(r) == \E i \in DOMAIN spillTried : spillTried[i].rec = r /\ Gone(i)
LeavingRec(r) == \E i \in DOMAIN spillTried : spillTried[i].rec = r /\ Leaving(i)
\* A record that was written.
Listed(r) == \E i \in DOMAIN spillTried : spillTried[i].rec = r /\ spillTried[i].written

SpillTypes ==
    /\ spillTried \in Seq([rec : SpillRec, written : BOOLEAN, blind : BOOLEAN])
    /\ DOMAIN spillFiles \subseteq SpillPaths
    /\ DOMAIN spillOp = SpillProcs
    /\ \A p \in SpillProcs : spillOp[p].pc = "lock" =>
          spillOp[p].path \in SpillPaths /\ spillOp[p].file.ino \in Nat /\ spillOp[p].file.version \in Nat
    /\ spillMade \in Nat /\ spillClock \in Nat

\* No two files have one number: not those registered, nor those about to be.
NumbersInv ==
    /\ \A i \in DOMAIN spillTried : spillTried[i].rec.ino <= spillMade
    /\ \A i, j \in DOMAIN spillTried : spillTried[i].rec.ino = spillTried[j].rec.ino => i = j
    /\ \A p \in SpillProcs : spillOp[p].pc = "lock" =>
          /\ spillOp[p].file.ino <= spillMade
          /\ \A i \in DOMAIN spillTried : spillTried[i].rec.ino # spillOp[p].file.ino
    /\ \A p, q \in SpillProcs :
          spillOp[p].pc = "lock" /\ spillOp[q].pc = "lock" /\ spillOp[p].file.ino = spillOp[q].file.ino => p = q

\* A file is there until it may be gone, from the moment it is made.
FilesInv ==
    /\ \A i \in DOMAIN spillTried : Gone(i) \/ Unchanged(spillTried[i].rec)
    /\ \A p \in SpillProcs : spillOp[p].pc = "lock" =>
          \/ spillOp[p].file.ino \in spillTaken
          \/ /\ spillOp[p].path \in DOMAIN spillFiles
             /\ spillFiles[spillOp[p].path].ino = spillOp[p].file.ino
             /\ spillFiles[spillOp[p].path].version = spillOp[p].file.version

\* Records of different names, in the order in which they were registered.
InOrder(seq) ==
    /\ \A k \in 1 .. Len(seq) : \E i \in DOMAIN spillTried : spillTried[i].rec = seq[k]
    /\ \A k, l \in 1 .. Len(seq) : k < l =>
          /\ seq[k].path # seq[l].path
          /\ \E i, j \in DOMAIN spillTried : i < j /\ spillTried[i].rec = seq[k] /\ spillTried[j].rec = seq[l]
Holds(seq) == seq \in Seq(SpillRec) /\ Len(seq) <= SpillMaxEntries /\ InOrder(seq)

RecordsInv ==
    /\ Holds(spillRecords) /\ \A r \in Range(spillRecords) : Listed(r)
    /\ \A i \in DOMAIN spillTried :
          spillTried[i].written => Dropped(i) \/ spillTried[i].rec \in Range(spillRecords)

\* Who deletes holds the lock, and is about to write the records, less those that
\* leave, with the last one tried.
Deleting(p) ==
    /\ spillLock = p
    /\ Len(spillTried) > 0 /\ spillOp[p].rec = spillTried[Len(spillTried)].rec
    /\ ~spillTried[Len(spillTried)].written
    /\ Holds(spillOp[p].records) /\ spillOp[p].rec \in Range(spillOp[p].records)
    /\ \A r \in Range(spillOp[p].records) : r = spillOp[p].rec \/ Listed(r)
    /\ \A r \in Range(spillRecords) : r \in Range(spillOp[p].records) \/ LeavingRec(r)
    /\ \A r \in spillOp[p].gone : GoneRec(r)
DeletingInv == \A p \in SpillProcs : spillOp[p].pc = "delete" => Deleting(p)

SpillInv == SpillTypes /\ NumbersInv /\ FilesInv /\ RecordsInv /\ DeletingInv

-----------------------------------------------------------------------------
\* What Only computes.
-----------------------------------------------------------------------------
\* A set of numbers that is not empty has a least one.
LEMMA LeastNat ==
  ASSUME NEW S, S \subseteq Nat, S # {}
  PROVE  \E m \in S : \A k \in S : m <= k
<1> DEFINE R == OpToRel(<, Nat)
<1>1. IsWellFoundedOn(R, Nat)
  BY NatLessThanWellFounded
<1>2. \A x, y \in Nat : y < x => <<y, x>> \in R
  BY DEF OpToRel
<1> HIDE DEF R
<1>3. PICK m \in S : \A k \in S : ~ (<<k, m>> \in R)
  BY <1>1, WFMin
<1>4. ASSUME NEW k \in S PROVE m <= k
  <2>1. ~(<<k, m>> \in R) /\ k \in Nat /\ m \in Nat
    BY <1>3
  <2>2. ~(k < m)
    BY <1>2, <2>1, Zenon
  <2> QED
    BY <2>1, <2>2
<1> QED
  BY <1>4

\* Induction on the natural numbers: a set of them that holds 0 and, with
\* each number, the next one holds them all.
LEMMA NatSetInduction ==
  ASSUME NEW S, 0 \in S, \A n \in Nat : n \in S => n + 1 \in S
  PROVE  Nat \subseteq S
<1> SUFFICES ASSUME Nat \ S # {} PROVE FALSE
  OBVIOUS
<1>1. PICK m \in Nat \ S : \A k \in Nat \ S : m <= k
  BY LeastNat
<1>2. m - 1 \in Nat /\ m - 1 < m
  BY <1>1
<1>3. m - 1 \in S
  BY <1>1, <1>2
<1> QED
  BY <1>1, <1>2, <1>3

\* The recursive definition in Only defines a function.
Selects(f, seq, S) ==
    f = [i \in 0 .. Len(seq) |->
            IF i = 0 THEN <<>>
            ELSE IF seq[i] \in S THEN Append(f[i - 1], seq[i]) ELSE f[i - 1]]

LEMMA OnlyDefined ==
  ASSUME NEW S, NEW T, NEW seq \in Seq(T)
  PROVE  \E f : Selects(f, seq, S)
<1> DEFINE Next1(f, i) == IF seq[i] \in S THEN Append(f[i - 1], seq[i]) ELSE f[i - 1]
           Def(f, n) == f = [i \in 0 .. n |-> IF i = 0 THEN <<>> ELSE Next1(f, i)]
           N == {n \in Nat : \E f : Def(f, n)}
<1>1. 0 \in N
  <2> DEFINE f == [i \in 0 .. 0 |-> <<>>]
  <2>1. Def(f, 0)
    OBVIOUS
  <2> QED
    BY <2>1
<1>2. ASSUME NEW n \in Nat, n \in N PROVE n + 1 \in N
  <2>1. PICK f : Def(f, n)
    BY <1>2
  <2> DEFINE g == [i \in 0 .. n + 1 |-> IF i = n + 1 THEN Next1(f, n + 1) ELSE f[i]]
  <2>2. ASSUME NEW i \in 0 .. n + 1 PROVE g[i] = IF i = 0 THEN <<>> ELSE Next1(g, i)
    <3>1. CASE i = 0
      <4>1. f[0] = <<>> /\ g[0] = f[0]
        BY <2>1
      <4> QED
        BY <3>1, <4>1
    <3>2. CASE i \in 1 .. n
      <4>1. i - 1 \in 0 .. n /\ i # n + 1 /\ i - 1 # n + 1 /\ i # 0 /\ i \in 0 .. n /\ i - 1 \in 0 .. n + 1
        BY <3>2
      <4>2. f[i] = Next1(f, i)
        BY <2>1, <4>1
      <4>3. g[i] = f[i] /\ g[i - 1] = f[i - 1]
        BY <4>1
      <4> QED
        BY <4>1, <4>2, <4>3
    <3>3. CASE i = n + 1
      <4>1. g[n] = f[n] /\ (n + 1) - 1 = n /\ n \in 0 .. n + 1 /\ n # n + 1 /\ n + 1 # 0
        OBVIOUS
      <4> QED
        BY <3>3, <4>1
    <3> QED
      BY <3>1, <3>2, <3>3
  <2>3. g = [i \in 0 .. n + 1 |-> g[i]]
    OBVIOUS
  <2> HIDE DEF g
  <2>4. g = [i \in 0 .. n + 1 |-> IF i = 0 THEN <<>> ELSE Next1(g, i)]
    <3> HIDE DEF Next1
    <3> QED
      BY <2>2, <2>3
  <2>5. Def(g, n + 1)
    BY <2>4
  <2>6. \E h : Def(h, n + 1)
    <3> HIDE DEF Def
    <3> QED
      BY <2>5
  <2> HIDE DEF Def
  <2> QED
    BY <2>6
<1> HIDE DEF N
<1>3. Len(seq) \in N
  BY <1>1, <1>2, NatSetInduction
<1>4. PICK f : Def(f, Len(seq))
  BY <1>3 DEF N
<1>5. Selects(f, seq, S)
  BY <1>4 DEF Selects
<1> QED
  BY <1>5

\* o holds the members of S that the first n places of seq hold, in their order.
Selected(seq, S, n, o) ==
    /\ \A k \in 1 .. Len(o) : o[k] \in S /\ \E a \in 1 .. n : seq[a] = o[k]
    /\ \A k, l \in 1 .. Len(o) : k < l => \E a, b \in 1 .. n : a < b /\ seq[a] = o[k] /\ seq[b] = o[l]
    /\ \A a \in 1 .. n : seq[a] \in S => \E k \in 1 .. Len(o) : o[k] = seq[a]

LEMMA SelectedAppend ==
  ASSUME NEW S, NEW T, NEW seq \in Seq(T), NEW n \in Nat, n + 1 <= Len(seq),
         NEW o \in Seq(T), Selected(seq, S, n, o)
  PROVE  /\ seq[n + 1] \in S => Selected(seq, S, n + 1, Append(o, seq[n + 1]))
         /\ seq[n + 1] \notin S => Selected(seq, S, n + 1, o)
<1>1. ASSUME seq[n + 1] \notin S PROVE Selected(seq, S, n + 1, o)
  <2>1. \A a \in 1 .. n + 1 : a \in 1 .. n \/ a = n + 1
    OBVIOUS
  <2>2. \A a \in 1 .. n : a \in 1 .. n + 1
    OBVIOUS
  <2>3. \A k \in 1 .. Len(o) : o[k] \in S /\ \E a \in 1 .. n + 1 : seq[a] = o[k]
    BY <2>2, Zenon DEF Selected
  <2>4. ASSUME NEW k \in 1 .. Len(o), NEW l \in 1 .. Len(o), k < l
        PROVE  \E a, b \in 1 .. n + 1 : a < b /\ seq[a] = o[k] /\ seq[b] = o[l]
    <3>1. PICK a, b \in 1 .. n : a < b /\ seq[a] = o[k] /\ seq[b] = o[l]
      BY <2>4 DEF Selected
    <3>2. a \in 1 .. n + 1 /\ b \in 1 .. n + 1
      BY <2>2
    <3> QED
      BY <3>1, <3>2
  <2>5. \A a \in 1 .. n + 1 : seq[a] \in S => \E k \in 1 .. Len(o) : o[k] = seq[a]
    BY <1>1, <2>1, Zenon DEF Selected
  <2> QED
    BY <2>3, <2>4, <2>5 DEF Selected
<1>2. ASSUME seq[n + 1] \in S PROVE Selected(seq, S, n + 1, Append(o, seq[n + 1]))
  <2> DEFINE x == seq[n + 1]
             q == Append(o, x)
  <2>1. n + 1 \in 1 .. n + 1 /\ \A a \in 1 .. n : a \in 1 .. n + 1 /\ a < n + 1
    OBVIOUS
  <2>2. x \in T /\ Len(o) \in Nat
    OBVIOUS
  <2>3. Len(q) = Len(o) + 1 /\ q[Len(o) + 1] = x /\ \A k \in 1 .. Len(o) : q[k] = o[k]
    BY <2>2
  <2>4. \A k \in 1 .. Len(q) : k \in 1 .. Len(o) \/ k = Len(o) + 1
    BY <2>2, <2>3
  <2>5. \A k, l \in 1 .. Len(q) : k < l => k \in 1 .. Len(o) /\ (l \in 1 .. Len(o) \/ l = Len(o) + 1)
    BY <2>2, <2>3
  <2>6. \A k \in 1 .. Len(o) : k \in 1 .. Len(q)
    BY <2>2, <2>3
  <2>7. Len(o) + 1 \in 1 .. Len(q)
    BY <2>2, <2>3
  <2>8. \A a \in 1 .. n + 1 : a \in 1 .. n \/ a = n + 1
    OBVIOUS
  <2> HIDE DEF q
  <2>9. \A k \in 1 .. Len(q) : q[k] \in S /\ \E a \in 1 .. n + 1 : seq[a] = q[k]
    <3> SUFFICES ASSUME NEW k \in 1 .. Len(q)
                 PROVE  q[k] \in S /\ \E a \in 1 .. n + 1 : seq[a] = q[k]
      OBVIOUS
    <3>1. CASE k \in 1 .. Len(o)
      <4>1. PICK a \in 1 .. n : seq[a] = o[k]
        BY <3>1, Zenon DEF Selected
      <4>2. o[k] \in S
        BY <3>1, Zenon DEF Selected
      <4> QED
        BY <2>1, <2>3, <3>1, <4>1, <4>2
    <3>2. CASE k = Len(o) + 1
      BY <1>2, <2>1, <2>3, <3>2
    <3> QED
      BY <2>4, <3>1, <3>2
  <2>10. \A k, l \in 1 .. Len(q) : k < l => \E a, b \in 1 .. n + 1 : a < b /\ seq[a] = q[k] /\ seq[b] = q[l]
    <3> SUFFICES ASSUME NEW k \in 1 .. Len(q), NEW l \in 1 .. Len(q), k < l
                 PROVE  \E a, b \in 1 .. n + 1 : a < b /\ seq[a] = q[k] /\ seq[b] = q[l]
      OBVIOUS
    <3>1. k \in 1 .. Len(o) /\ q[k] = o[k]
      BY <2>3, <2>5
    <3>2. CASE l \in 1 .. Len(o)
      <4>1. PICK a, b \in 1 .. n : a < b /\ seq[a] = o[k] /\ seq[b] = o[l]
        BY <3>1, <3>2 DEF Selected
      <4> QED
        BY <2>1, <2>3, <3>1, <3>2, <4>1
    <3>3. CASE l = Len(o) + 1
      <4>1. PICK a \in 1 .. n : seq[a] = o[k]
        BY <3>1, Zenon DEF Selected
      <4> QED
        BY <2>1, <2>3, <3>1, <3>3, <4>1, Zenon
    <3> QED
      BY <2>5, <3>2, <3>3
  <2>11. \A a \in 1 .. n + 1 : seq[a] \in S => \E k \in 1 .. Len(q) : q[k] = seq[a]
    <3> SUFFICES ASSUME NEW a \in 1 .. n + 1, seq[a] \in S
                 PROVE  \E k \in 1 .. Len(q) : q[k] = seq[a]
      OBVIOUS
    <3>1. CASE a \in 1 .. n
      <4>1. PICK k \in 1 .. Len(o) : o[k] = seq[a]
        BY <3>1 DEF Selected
      <4> QED
        BY <2>3, <2>6, <4>1
    <3>2. CASE a = n + 1
      BY <2>3, <2>7, <3>2
    <3> QED
      BY <2>8, <3>1, <3>2
  <2>12. Selected(seq, S, n + 1, q)
    BY <2>9, <2>10, <2>11, Zenon DEF Selected
  <2> QED
    BY <2>12 DEF q
<1> QED
  BY <1>1, <1>2

\* Only selects from the whole sequence.
LEMMA OnlySelects ==
  ASSUME NEW S, NEW T, NEW seq \in Seq(T)
  PROVE  Only(seq, S) \in Seq(T) /\ Selected(seq, S, Len(seq), Only(seq, S))
<1>1. PICK f : Selects(f, seq, S)
  BY OnlyDefined
<1> DEFINE g == CHOOSE h : h = [i \in 0 .. Len(seq) |->
                       IF i = 0 THEN <<>>
                       ELSE IF seq[i] \in S THEN Append(h[i - 1], seq[i]) ELSE h[i - 1]]
<1>2. g = [i \in 0 .. Len(seq) |->
                       IF i = 0 THEN <<>>
                       ELSE IF seq[i] \in S THEN Append(g[i - 1], seq[i]) ELSE g[i - 1]]
  BY <1>1 DEF Selects
<1>3. Only(seq, S) = g[Len(seq)]
  BY DEF Only
<1> HIDE DEF g
<1> DEFINE Good(n) == g[n] \in Seq(T) /\ Selected(seq, S, n, g[n])
           N == {n \in Nat : n <= Len(seq) => Good(n)}
<1>4. 0 \in N
  <2>1. g[0] = <<>>
    BY <1>2
  <2>2. <<>> \in Seq(T) /\ Selected(seq, S, 0, <<>>)
    BY DEF Selected
  <2> QED
    BY <2>1, <2>2
<1>5. ASSUME NEW n \in Nat, n \in N PROVE n + 1 \in N
  <2> SUFFICES ASSUME n + 1 <= Len(seq) PROVE Good(n + 1)
    OBVIOUS
  <2>1. Good(n)
    BY <1>5
  <2>2. n + 1 \in 0 .. Len(seq) /\ n + 1 # 0 /\ (n + 1) - 1 = n /\ seq[n + 1] \in T
    OBVIOUS
  <2>3. g[n + 1] = IF seq[n + 1] \in S THEN Append(g[n], seq[n + 1]) ELSE g[n]
    BY <1>2, <2>2
  <2>4. Append(g[n], seq[n + 1]) \in Seq(T)
    BY <2>1, <2>2
  <2>5. /\ seq[n + 1] \in S => Selected(seq, S, n + 1, Append(g[n], seq[n + 1]))
        /\ seq[n + 1] \notin S => Selected(seq, S, n + 1, g[n])
    BY <2>1, SelectedAppend
  <2> QED
    BY <2>1, <2>3, <2>4, <2>5, Zenon
<1> HIDE DEF N
<1>6. Len(seq) \in N
  BY <1>4, <1>5, NatSetInduction
<1>7. Good(Len(seq))
  BY <1>6 DEF N
<1> QED
  BY <1>3, <1>7

-----------------------------------------------------------------------------
\* What no step takes back.
-----------------------------------------------------------------------------
\* The clock and the files touched grow, and the spills tried stay in their places.
Grows ==
    /\ spillClock <= spillClock' /\ spillTaken \subseteq spillTaken'
    /\ DOMAIN spillTried \subseteq DOMAIN spillTried'
    /\ \A i \in DOMAIN spillTried :
          /\ spillTried'[i].rec = spillTried[i].rec /\ spillTried'[i].blind = spillTried[i].blind
          /\ spillTried[i].written => spillTried'[i].written

\* A step that is neither a spill nor a registration, nor touches files or records.
Aside(p) ==
    /\ \E op : op.pc \notin {"lock", "delete"} /\ spillOp' = [spillOp EXCEPT ![p] = op]
    /\ spillLock' = spillLock \/ (spillLock = p /\ spillLock' = NoHolder)
    /\ UNCHANGED <<spillFiles, spillRecords, spillMade, spillClock, spillTried, spillTaken>>

LEMMA StepsAside ==
  ASSUME NEW p \in SpillProcs, StatSpill(p) \/ IsRegisteredShellSpill(p) \/ ReadSpill(p) \/ SpillCrash(p)
  PROVE  Aside(p)
<1>1. CASE StatSpill(p)
  <2>1. PICK path \in DOMAIN spillFiles :
          spillOp' = [spillOp EXCEPT ![p] = [pc |-> "read", path |-> path, file |-> spillFiles[path]]]
    BY <1>1 DEF StatSpill
  <2> DEFINE op == [pc |-> "read", path |-> path, file |-> spillFiles[path]]
  <2>2. op.pc \notin {"lock", "delete"} /\ spillOp' = [spillOp EXCEPT ![p] = op]
    BY <2>1
  <2> HIDE DEF op
  <2> QED
    BY <1>1, <2>2 DEF StatSpill, Aside
<1>2. CASE IsRegisteredShellSpill(p)
  <2>1. PICK op \in {[pc |-> "serve"], [pc |-> "refuse"]} : spillOp' = [spillOp EXCEPT ![p] = op]
    BY <1>2 DEF IsRegisteredShellSpill
  <2>2. op.pc \notin {"lock", "delete"}
    OBVIOUS
  <2> QED
    BY <1>2, <2>1, <2>2 DEF IsRegisteredShellSpill, Aside
<1>3. CASE ReadSpill(p)
  BY <1>3 DEF ReadSpill, Aside, Resting
<1>4. CASE SpillCrash(p)
  BY <1>4 DEF SpillCrash, Aside, Resting
<1> QED
  BY <1>1, <1>2, <1>3, <1>4

LEMMA AsideOps ==
  ASSUME SpillTypes, NEW p \in SpillProcs, Aside(p), NEW q \in SpillProcs
  PROVE  /\ IF q = p THEN spillOp'[q].pc \notin {"lock", "delete"} ELSE spillOp'[q] = spillOp[q]
         /\ DOMAIN spillOp' = SpillProcs
BY DEF Aside, SpillTypes

\* What WriteRegistry leaves of the list of spills tried.
LEMMA WriteTried ==
  ASSUME SpillTypes, NEW p \in SpillProcs, WriteRegistry(p)
  PROVE  /\ spillTried' \in Seq([rec : SpillRec, written : BOOLEAN, blind : BOOLEAN])
         /\ DOMAIN spillTried' = DOMAIN spillTried
         /\ \A i \in DOMAIN spillTried :
               /\ spillTried'[i].rec = spillTried[i].rec /\ spillTried'[i].blind = spillTried[i].blind
               /\ spillTried[i].written => spillTried'[i].written
         /\ \/ UNCHANGED <<spillTried, spillRecords>>
            \/ /\ spillRecords' = spillOp[p].records
               /\ \A i \in DOMAIN spillTried : spillTried'[i].written <=>
                     spillTried[i].written \/ spillTried[i].rec = spillOp[p].rec
<1> DEFINE Pair == [rec : SpillRec, written : BOOLEAN, blind : BOOLEAN]
           new == [i \in DOMAIN spillTried |->
                    IF spillTried[i].rec = spillOp[p].rec THEN [spillTried[i] EXCEPT !.written = TRUE]
                    ELSE spillTried[i]]
<1>1. spillTried \in Seq(Pair)
  BY DEF SpillTypes
<1>a. ASSUME NEW i \in DOMAIN spillTried PROVE spillTried[i] \in Pair
  <2> HIDE DEF Pair
  <2> QED
    BY <1>1
<1>2. CASE UNCHANGED <<spillTried, spillRecords>>
  BY <1>1, <1>2
<1>3. CASE spillRecords' = spillOp[p].records /\ spillTried' = new
  <2>1. ASSUME NEW i \in DOMAIN spillTried
        PROVE  /\ new[i] \in Pair /\ new[i].rec = spillTried[i].rec /\ new[i].blind = spillTried[i].blind
               /\ new[i].written <=> spillTried[i].written \/ spillTried[i].rec = spillOp[p].rec
    <3> DEFINE v == [spillTried[i] EXCEPT !.written = TRUE]
    <3>1. spillTried[i] \in Pair
      BY <1>a
    <3>2. v \in Pair /\ v.rec = spillTried[i].rec /\ v.blind = spillTried[i].blind /\ v.written
      BY <3>1
    <3>3. new[i] = IF spillTried[i].rec = spillOp[p].rec THEN v ELSE spillTried[i]
      OBVIOUS
    <3> HIDE DEF new, v, Pair
    <3> QED
      BY <3>1, <3>2, <3>3
  <2>2. DOMAIN spillTried = 1 .. Len(spillTried) /\ Len(spillTried) \in Nat
    BY <1>1
  <2>3. DOMAIN new = DOMAIN spillTried /\ new = [i \in 1 .. Len(spillTried) |-> new[i]]
    BY <2>2
  <2> HIDE DEF new, Pair
  <2>4. new \in Seq(Pair)
    BY <2>1, <2>2, <2>3
  <2> QED
    BY <1>3, <2>1, <2>3, <2>4 DEF Pair
<1> QED
  BY <1>2, <1>3 DEF WriteRegistry

\* What RegisterSpill adds to it.
LEMMA RegisterTried ==
  ASSUME SpillTypes, NEW p \in SpillProcs, RegisterSpill(p)
  PROVE  /\ Record(p) \in SpillRec
         /\ spillTried' \in Seq([rec : SpillRec, written : BOOLEAN, blind : BOOLEAN])
         /\ Len(spillTried) \in Nat /\ Len(spillTried') = Len(spillTried) + 1
         /\ DOMAIN spillTried = 1 .. Len(spillTried) /\ DOMAIN spillTried' = 1 .. Len(spillTried) + 1
         /\ DOMAIN spillTried \subseteq DOMAIN spillTried'
         /\ \A i \in DOMAIN spillTried : spillTried'[i] = spillTried[i]
         /\ spillTried'[Len(spillTried) + 1].rec = Record(p) /\ ~spillTried'[Len(spillTried) + 1].written
         /\ \E records \in ReadSpillRegistry :
               /\ spillTried'[Len(spillTried) + 1].blind = (records # spillRecords)
               /\ spillOp' = [spillOp EXCEPT ![p] = [pc |-> "delete", rec |-> Record(p), records |-> Cut(Kept(p, records)),
                                                     gone |-> Forgotten(p, records)]]
<1>0. PICK records \in ReadSpillRegistry :
        /\ spillTried' = Append(spillTried, [rec |-> Record(p), written |-> FALSE, blind |-> records # spillRecords])
        /\ spillOp' = [spillOp EXCEPT ![p] = [pc |-> "delete", rec |-> Record(p), records |-> Cut(Kept(p, records)),
                                              gone |-> Forgotten(p, records)]]
  BY DEF RegisterSpill
<1> DEFINE Pair == [rec : SpillRec, written : BOOLEAN, blind : BOOLEAN]
           x == [rec |-> Record(p), written |-> FALSE, blind |-> records # spillRecords]
<1>1. spillTried \in Seq(Pair)
  BY DEF SpillTypes
<1>2. Record(p) \in SpillRec
  BY DEF RegisterSpill, SpillTypes, Record, SpillRec
<1>3. x \in Pair
  BY <1>2
<1>4. spillTried' = Append(spillTried, x)
  BY <1>0
<1>6. x.rec = Record(p) /\ ~x.written /\ x.blind = (records # spillRecords)
  OBVIOUS
<1> HIDE DEF x, Pair
<1>5. /\ spillTried' \in Seq(Pair)
      /\ Len(spillTried) \in Nat /\ Len(spillTried') = Len(spillTried) + 1
      /\ DOMAIN spillTried = 1 .. Len(spillTried) /\ DOMAIN spillTried' = 1 .. Len(spillTried) + 1
      /\ DOMAIN spillTried \subseteq DOMAIN spillTried'
      /\ \A i \in DOMAIN spillTried : spillTried'[i] = spillTried[i]
      /\ spillTried'[Len(spillTried) + 1] = x
  BY <1>1, <1>3, <1>4
<1>7. /\ spillTried'[Len(spillTried) + 1].rec = Record(p) /\ ~spillTried'[Len(spillTried) + 1].written
      /\ spillTried'[Len(spillTried) + 1].blind = (records # spillRecords)
  BY <1>5, <1>6, Zenon
<1>8. \E rs \in ReadSpillRegistry :
         /\ spillTried'[Len(spillTried) + 1].blind = (rs # spillRecords)
         /\ spillOp' = [spillOp EXCEPT ![p] = [pc |-> "delete", rec |-> Record(p), records |-> Cut(Kept(p, rs)),
                                               gone |-> Forgotten(p, rs)]]
  BY <1>0, <1>7, Zenon
<1> QED
  BY <1>2, <1>5, <1>7, <1>8 DEF Pair

LEMMA StepGrows ==
  ASSUME SpillTypes, [SpillNext]_spillVars
  PROVE  Grows
<1>1. spillClock \in Nat /\ spillClock <= spillClock
  BY DEF SpillTypes
<1>2. CASE UNCHANGED <<spillClock, spillTried, spillTaken>>
  BY <1>1, <1>2 DEF Grows
<1>3. ASSUME NEW p \in SpillProcs, RegisterSpill(p) PROVE Grows
  <2>1. UNCHANGED <<spillClock, spillTaken>>
    BY <1>3 DEF RegisterSpill
  <2>2. DOMAIN spillTried \subseteq DOMAIN spillTried' /\ \A i \in DOMAIN spillTried : spillTried'[i] = spillTried[i]
    BY <1>3, RegisterTried
  <2> QED
    BY <1>1, <2>1, <2>2 DEF Grows
<1>4. ASSUME NEW p \in SpillProcs, WriteRegistry(p) PROVE Grows
  <2>1. UNCHANGED <<spillClock, spillTaken>>
    BY <1>4 DEF WriteRegistry
  <2>2. /\ DOMAIN spillTried' = DOMAIN spillTried
        /\ \A i \in DOMAIN spillTried :
              /\ spillTried'[i].rec = spillTried[i].rec /\ spillTried'[i].blind = spillTried[i].blind
              /\ spillTried[i].written => spillTried'[i].written
    BY <1>4, WriteTried
  <2> QED
    BY <1>1, <2>1, <2>2 DEF Grows
<1>5. ASSUME NEW p \in SpillProcs, Spill(p) \/ DeleteRecordedSpill(p) PROVE Grows
  BY <1>1, <1>5 DEF Grows, Spill, DeleteRecordedSpill
<1>6. ASSUME NEW p \in SpillProcs, Aside(p) PROVE Grows
  BY <1>1, <1>6 DEF Grows, Aside
<1>7. ASSUME NEW path \in SpillPaths, OthersTouch(path) PROVE Grows
  BY <1>1, <1>7 DEF Grows, OthersTouch
<1>8. CASE SpillTick
  BY <1>1, <1>8 DEF Grows, SpillTick
<1> QED
  BY <1>2, <1>3, <1>4, <1>5, <1>6, <1>7, <1>8, StepsAside DEF SpillNext, spillVars

LEMMA TypesStep ==
  ASSUME SpillTypes, [SpillNext]_spillVars
  PROVE  SpillTypes'
<1>1. CASE UNCHANGED spillVars
  BY <1>1 DEF SpillTypes, spillVars
<1>2. ASSUME NEW p \in SpillProcs, Spill(p) PROVE SpillTypes'
  <2>1. PICK path \in SpillPaths \ DOMAIN spillFiles :
          LET file == [ino |-> spillMade + 1, version |-> 0] IN
          /\ spillFiles' = Put(spillFiles, path, file)
          /\ spillOp' = [spillOp EXCEPT ![p] = [pc |-> "lock", path |-> path, file |-> file]]
    BY <1>2 DEF Spill
  <2>2. DOMAIN spillFiles' \subseteq SpillPaths
    BY <2>1 DEF Put, SpillTypes
  <2>3. spillMade' = spillMade + 1 /\ UNCHANGED <<spillTried, spillClock>>
    BY <1>2 DEF Spill
  <2>4. spillOp'[p].path = path /\ spillOp'[p].file = [ino |-> spillMade + 1, version |-> 0]
    BY <2>1 DEF SpillTypes
  <2>5. DOMAIN spillOp' = SpillProcs /\ \A q \in SpillProcs \ {p} : spillOp'[q] = spillOp[q]
    BY <2>1 DEF SpillTypes
  <2> QED
    BY <2>2, <2>3, <2>4, <2>5 DEF SpillTypes
<1>3. ASSUME NEW p \in SpillProcs, RegisterSpill(p) PROVE SpillTypes'
  <2>1. spillTried' \in Seq([rec : SpillRec, written : BOOLEAN, blind : BOOLEAN])
    BY <1>3, RegisterTried
  <2>2. /\ DOMAIN spillOp' = SpillProcs /\ spillOp'[p].pc = "delete"
        /\ \A q \in SpillProcs \ {p} : spillOp'[q] = spillOp[q]
    BY <1>3 DEF RegisterSpill, SpillTypes
  <2>3. UNCHANGED <<spillFiles, spillMade, spillClock>>
    BY <1>3 DEF RegisterSpill
  <2> QED
    BY <2>1, <2>2, <2>3 DEF SpillTypes
<1>4. ASSUME NEW p \in SpillProcs, DeleteRecordedSpill(p) PROVE SpillTypes'
  <2>1. PICK r \in spillOp[p].gone :
          /\ spillFiles' = IF Recorded(r) THEN Drop(spillFiles, r.path) ELSE spillFiles
          /\ spillOp' = [spillOp EXCEPT ![p].gone = @ \ {r}]
    BY <1>4 DEF DeleteRecordedSpill
  <2>2. DOMAIN spillFiles' \subseteq SpillPaths
    BY <2>1 DEF Drop, SpillTypes
  <2>3. /\ DOMAIN spillOp' = SpillProcs
        /\ \A q \in SpillProcs \ {p} : spillOp'[q] = spillOp[q]
    BY <2>1 DEF SpillTypes
  <2>4. spillOp[p].pc = "delete" /\ UNCHANGED <<spillTried, spillMade, spillClock>>
    BY <1>4 DEF DeleteRecordedSpill
  <2>5. spillOp'[p].pc = spillOp[p].pc
    BY <2>1 DEF SpillTypes
  <2> QED
    BY <2>2, <2>3, <2>4, <2>5 DEF SpillTypes
<1>5. ASSUME NEW p \in SpillProcs, WriteRegistry(p) PROVE SpillTypes'
  <2>1. spillTried' \in Seq([rec : SpillRec, written : BOOLEAN, blind : BOOLEAN])
    BY <1>5, WriteTried
  <2>2. /\ DOMAIN spillOp' = SpillProcs /\ spillOp'[p].pc = "rest"
        /\ \A q \in SpillProcs \ {p} : spillOp'[q] = spillOp[q]
    BY <1>5 DEF WriteRegistry, SpillTypes, Resting
  <2>3. UNCHANGED <<spillFiles, spillMade, spillClock>>
    BY <1>5 DEF WriteRegistry
  <2> QED
    BY <2>1, <2>2, <2>3 DEF SpillTypes
<1>6. ASSUME NEW p \in SpillProcs, Aside(p) PROVE SpillTypes'
  BY <1>6, AsideOps DEF SpillTypes, Aside
<1>7. ASSUME NEW path \in SpillPaths, OthersTouch(path) PROVE SpillTypes'
  <2>1. DOMAIN spillFiles' \subseteq SpillPaths
    BY <1>7 DEF OthersTouch, Drop, SpillTypes
  <2> QED
    BY <1>7, <2>1 DEF OthersTouch, SpillTypes
<1>8. CASE SpillTick
  BY <1>8 DEF SpillTick, SpillTypes
<1> QED
  BY <1>1, <1>2, <1>3, <1>4, <1>5, <1>6, <1>7, <1>8, StepsAside DEF SpillNext

LEMMA LaterFinite ==
  ASSUME SpillTypes, NEW i
  PROVE  IsFiniteSet(LaterWritten(i))
<1>1. DOMAIN spillTried = 1 .. Len(spillTried) /\ Len(spillTried) \in Nat
  BY DEF SpillTypes
<1>2. LaterWritten(i) \subseteq 1 .. Len(spillTried)
  BY <1>1 DEF LaterWritten, Later
<1>3. IsFiniteSet(1 .. Len(spillTried))
  BY <1>1, FS_Interval
<1> QED
  BY <1>2, <1>3, FS_Subset

\* The spills written after a place are finitely many, and no step takes one away.
LEMMA LaterGrows ==
  ASSUME SpillTypes, SpillTypes', Grows, NEW i \in DOMAIN spillTried
  PROVE  /\ Later(i) \subseteq Later(i)' /\ LaterWritten(i) \subseteq LaterWritten(i)'
         /\ IsFiniteSet(LaterWritten(i)) /\ IsFiniteSet(LaterWritten(i)')
         /\ Cardinality(LaterWritten(i)) \in Nat /\ Cardinality(LaterWritten(i)') \in Nat
         /\ Cardinality(LaterWritten(i)) <= Cardinality(LaterWritten(i)')
<1>1. Later(i) \subseteq Later(i)' /\ LaterWritten(i) \subseteq LaterWritten(i)'
  BY DEF Grows, Later, LaterWritten
<1>2. IsFiniteSet(LaterWritten(i)) /\ IsFiniteSet(LaterWritten(i)')
  <2>1. ASSUME SpillTypes PROVE IsFiniteSet(LaterWritten(i))
    BY <2>1, LaterFinite
  <2>2. DOMAIN spillTried' = 1 .. Len(spillTried') /\ Len(spillTried') \in Nat
    BY DEF SpillTypes
  <2>3. LaterWritten(i)' \subseteq 1 .. Len(spillTried')
    BY <2>2 DEF LaterWritten, Later
  <2>4. IsFiniteSet(1 .. Len(spillTried'))
    BY <2>2, FS_Interval
  <2>5. IsFiniteSet(LaterWritten(i)')
    BY <2>3, <2>4, FS_Subset
  <2> QED
    BY <2>1, <2>5
<1>3. Cardinality(LaterWritten(i)) \in Nat /\ Cardinality(LaterWritten(i)') \in Nat
  BY <1>2, FS_CardinalityType
<1>4. Cardinality(LaterWritten(i)) <= Cardinality(LaterWritten(i)')
  BY <1>1, <1>2, FS_Subset
<1> QED
  BY <1>1, <1>2, <1>3, <1>4

LEMMA StillTooOld ==
  ASSUME SpillTypes, SpillTypes', Grows, NEW i \in DOMAIN spillTried, TooOld(spillTried[i].rec)
  PROVE  TooOld(spillTried[i].rec)'
<1>1. spillTried'[i].rec = spillTried[i].rec
  BY DEF Grows
<1>2. spillTried[i].rec \in SpillRec
  <2> DEFINE Pair == [rec : SpillRec, written : BOOLEAN, blind : BOOLEAN]
  <2>1. spillTried[i] \in Pair
    <3>1. spillTried \in Seq(Pair)
      BY DEF SpillTypes
    <3> HIDE DEF Pair
    <3> QED
      BY <3>1
  <2> QED
    BY <2>1
<1>3. spillClock \in Nat /\ spillClock' \in Nat /\ spillClock <= spillClock'
  BY DEF SpillTypes, Grows
<1>4. spillTried[i].rec.at \in Nat
  BY <1>2 DEF SpillRec
<1> QED
  BY <1>1, <1>3, <1>4, SpillAssumption DEF TooOld

LEMMA StillGone ==
  ASSUME SpillTypes, SpillTypes', Grows, NEW i \in DOMAIN spillTried, Gone(i)
  PROVE  i \in DOMAIN spillTried' /\ Gone(i)'
<1>1. i \in DOMAIN spillTried' /\ spillTried'[i].rec = spillTried[i].rec
  BY DEF Grows
<1>2. CASE TooOld(spillTried[i].rec)
  BY <1>1, <1>2, StillTooOld DEF Gone
<1>3. CASE spillTried[i].rec.ino \in spillTaken
  BY <1>1, <1>3 DEF Gone, Grows
<1>4. CASE Later(i) # {} /\ Cardinality(LaterWritten(i)) >= SpillMaxEntries - 1
  <2>1. /\ Later(i) \subseteq Later(i)'
        /\ Cardinality(LaterWritten(i)) \in Nat /\ Cardinality(LaterWritten(i)') \in Nat
        /\ Cardinality(LaterWritten(i)) <= Cardinality(LaterWritten(i)')
    BY LaterGrows
  <2>2. Later(i)' # {} /\ Cardinality(LaterWritten(i)') >= SpillMaxEntries - 1
    BY <1>4, <2>1, SpillAssumption
  <2> QED
    BY <1>1, <2>2 DEF Gone
<1> QED
  BY <1>2, <1>3, <1>4 DEF Gone

LEMMA StillGoneRec ==
  ASSUME SpillTypes, SpillTypes', Grows, NEW r, GoneRec(r)
  PROVE  GoneRec(r)'
<1>1. PICK i \in DOMAIN spillTried : spillTried[i].rec = r /\ Gone(i)
  BY DEF GoneRec
<1>2. i \in DOMAIN spillTried' /\ Gone(i)'
  BY <1>1, StillGone
<1>3. spillTried'[i].rec = r
  BY <1>1 DEF Grows
<1> QED
  BY <1>2, <1>3 DEF GoneRec

LEMMA StillDropped ==
  ASSUME SpillTypes, SpillTypes', Grows, NEW i \in DOMAIN spillTried, Dropped(i)
  PROVE  i \in DOMAIN spillTried' /\ Dropped(i)'
<1>1. i \in DOMAIN spillTried' /\ spillTried'[i].rec = spillTried[i].rec
  BY DEF Grows
<1>2. CASE TooOld(spillTried[i].rec)
  BY <1>1, <1>2, StillTooOld DEF Dropped
<1>3. CASE Cardinality(LaterWritten(i)) >= SpillMaxEntries
  <2>1. /\ Cardinality(LaterWritten(i)) \in Nat /\ Cardinality(LaterWritten(i)') \in Nat
        /\ Cardinality(LaterWritten(i)) <= Cardinality(LaterWritten(i)')
    BY LaterGrows
  <2>2. Cardinality(LaterWritten(i)') >= SpillMaxEntries
    BY <1>3, <2>1, SpillAssumption
  <2> QED
    BY <1>1, <2>2 DEF Dropped
<1>4. CASE \E j \in LaterWritten(i) : spillTried[j].rec.path = spillTried[i].rec.path \/ spillTried[j].blind
  <2>1. PICK j \in LaterWritten(i) : spillTried[j].rec.path = spillTried[i].rec.path \/ spillTried[j].blind
    BY <1>4
  <2>2. j \in LaterWritten(i)' /\ j \in DOMAIN spillTried
    BY LaterGrows DEF LaterWritten, Later
  <2>3. spillTried'[j].rec = spillTried[j].rec /\ spillTried'[j].blind = spillTried[j].blind
    BY <2>2 DEF Grows
  <2>4. \E k \in LaterWritten(i)' : spillTried'[k].rec.path = spillTried'[i].rec.path \/ spillTried'[k].blind
    BY <1>1, <2>1, <2>2, <2>3, Zenon
  <2> QED
    BY <1>1, <2>4 DEF Dropped
<1> QED
  BY <1>2, <1>3, <1>4 DEF Dropped

\* What was to leave is dropped when the registration tried last is written.
LEMMA LeavingDrops ==
  ASSUME SpillTypes, SpillTypes', Grows, NEW i \in DOMAIN spillTried, Leaving(i),
         ~spillTried[Len(spillTried)].written, spillTried'[Len(spillTried)].written
  PROVE  Dropped(i)'
<1> DEFINE n == Len(spillTried)
<1>1. i \in DOMAIN spillTried' /\ spillTried'[i].rec = spillTried[i].rec
  BY DEF Grows
<1>2. n \in DOMAIN spillTried /\ i < n
  <2>1. DOMAIN spillTried = 1 .. n /\ n \in Nat
    BY DEF SpillTypes
  <2> QED
    BY <2>1 DEF Leaving
<1>3. n \in DOMAIN spillTried' /\ spillTried'[n].rec = spillTried[n].rec /\ spillTried'[n].blind = spillTried[n].blind
  BY <1>2 DEF Grows
<1>4. n \in LaterWritten(i)' /\ n \notin LaterWritten(i)
  <2>1. n > i
    BY <1>2 DEF SpillTypes
  <2> QED
    BY <1>3, <2>1 DEF LaterWritten, Later
<1> HIDE DEF n
<1>5. CASE TooOld(spillTried[i].rec)
  BY <1>1, <1>5, StillTooOld DEF Dropped
<1>6. CASE Cardinality(LaterWritten(i)) >= SpillMaxEntries - 1
  <2> DEFINE A == LaterWritten(i)
             B == LaterWritten(i)'
  <2>1. /\ A \subseteq B /\ IsFiniteSet(A) /\ IsFiniteSet(B)
        /\ Cardinality(A) \in Nat /\ Cardinality(B) \in Nat
    BY LaterGrows
  <2>2. Cardinality(A) >= SpillMaxEntries - 1 /\ n \in B /\ n \notin A
    BY <1>4, <1>6
  <2> HIDE DEF A, B
  <2>3. A \cup {n} \subseteq B /\ IsFiniteSet(A \cup {n}) /\ Cardinality(A \cup {n}) = Cardinality(A) + 1
    BY <2>1, <2>2, FS_AddElement
  <2>4. Cardinality(A \cup {n}) <= Cardinality(B)
    BY <2>1, <2>3, FS_Subset
  <2>5. Cardinality(B) >= SpillMaxEntries
    BY <2>1, <2>2, <2>3, <2>4, SpillAssumption
  <2> QED
    BY <2>5 DEF Dropped, B
<1>7. CASE spillTried[n].rec.path = spillTried[i].rec.path \/ spillTried[n].blind
  <2>1. \E j \in LaterWritten(i)' : spillTried'[j].rec.path = spillTried'[i].rec.path \/ spillTried'[j].blind
    BY <1>1, <1>3, <1>4, <1>7, Zenon
  <2> QED
    BY <2>1 DEF Dropped
<1> QED
  BY <1>5, <1>6, <1>7 DEF Leaving, n

LEMMA StillListed ==
  ASSUME Grows, NEW r, Listed(r)
  PROVE  Listed(r)'
BY DEF Grows, Listed

LEMMA StillHolds ==
  ASSUME SpillTypes, Grows, NEW seq, Holds(seq)
  PROVE  Holds(seq)'
<1>1. ASSUME NEW k \in 1 .. Len(seq)
      PROVE  \E i \in DOMAIN spillTried' : spillTried'[i].rec = seq[k]
  <2>1. PICK i \in DOMAIN spillTried : spillTried[i].rec = seq[k]
    BY DEF Holds, InOrder
  <2> QED
    BY <2>1 DEF Grows
<1>2. ASSUME NEW k \in 1 .. Len(seq), NEW l \in 1 .. Len(seq), k < l
      PROVE  /\ seq[k].path # seq[l].path
             /\ \E i, j \in DOMAIN spillTried' : i < j /\ spillTried'[i].rec = seq[k] /\ spillTried'[j].rec = seq[l]
  <2>1. seq[k].path # seq[l].path
    BY <1>2 DEF Holds, InOrder
  <2>2. PICK i, j \in DOMAIN spillTried : i < j /\ spillTried[i].rec = seq[k] /\ spillTried[j].rec = seq[l]
    BY <1>2 DEF Holds, InOrder
  <2>3. /\ i \in DOMAIN spillTried' /\ spillTried'[i].rec = seq[k]
        /\ j \in DOMAIN spillTried' /\ spillTried'[j].rec = seq[l]
    BY <2>2 DEF Grows
  <2> QED
    BY <2>1, <2>2, <2>3
<1> QED
  BY <1>1, <1>2 DEF Holds, InOrder

LEMMA NumbersStep ==
  ASSUME SpillTypes, SpillTypes', NumbersInv, [SpillNext]_spillVars
  PROVE  NumbersInv'
<1> DEFINE Same == /\ DOMAIN spillTried' = DOMAIN spillTried
                   /\ \A i \in DOMAIN spillTried : spillTried'[i].rec = spillTried[i].rec
                   /\ \A q \in SpillProcs : spillOp'[q] = spillOp[q] \/ spillOp'[q].pc # "lock"
                   /\ spillMade' = spillMade
<1>s. ASSUME Same PROVE NumbersInv'
  <2>1. \A i \in DOMAIN spillTried' : spillTried'[i].rec.ino <= spillMade'
    BY <1>s DEF NumbersInv
  <2>2. \A i, j \in DOMAIN spillTried' : spillTried'[i].rec.ino = spillTried'[j].rec.ino => i = j
    BY <1>s DEF NumbersInv
  <2>3. \A q \in SpillProcs : spillOp'[q].pc = "lock" => spillOp'[q] = spillOp[q]
    BY <1>s
  <2>4. ASSUME NEW q \in SpillProcs, spillOp'[q].pc = "lock"
        PROVE  /\ spillOp'[q].file.ino <= spillMade'
               /\ \A i \in DOMAIN spillTried' : spillTried'[i].rec.ino # spillOp'[q].file.ino
    <3>1. spillOp'[q] = spillOp[q]
      BY <2>3, <2>4
    <3>2. spillOp[q].file.ino <= spillMade /\ \A i \in DOMAIN spillTried : spillTried[i].rec.ino # spillOp[q].file.ino
      BY <2>4, <3>1 DEF NumbersInv
    <3> QED
      BY <1>s, <3>1, <3>2
  <2>5. \A p, q \in SpillProcs :
          spillOp'[p].pc = "lock" /\ spillOp'[q].pc = "lock" /\ spillOp'[p].file.ino = spillOp'[q].file.ino => p = q
    BY <2>3, Zenon DEF NumbersInv
  <2> QED
    BY <2>1, <2>2, <2>4, <2>5 DEF NumbersInv
<1>1. CASE UNCHANGED spillVars
  <2>1. Same
    BY <1>1 DEF spillVars
  <2> QED
    BY <1>s, <2>1
<1>2. ASSUME NEW p \in SpillProcs, Spill(p) PROVE NumbersInv'
  <2>1. PICK path \in SpillPaths \ DOMAIN spillFiles :
          LET file == [ino |-> spillMade + 1, version |-> 0] IN
          spillOp' = [spillOp EXCEPT ![p] = [pc |-> "lock", path |-> path, file |-> file]]
    BY <1>2 DEF Spill
  <2>2. spillMade' = spillMade + 1 /\ spillTried' = spillTried /\ spillMade \in Nat
    BY <1>2 DEF Spill, SpillTypes
  <2>3. spillOp'[p].pc = "lock" /\ spillOp'[p].file.ino = spillMade + 1
    BY <2>1 DEF SpillTypes
  <2>4. \A q \in SpillProcs \ {p} : spillOp'[q] = spillOp[q]
    BY <2>1 DEF SpillTypes
  <2>5. \A i \in DOMAIN spillTried : spillTried[i].rec.ino \in Nat /\ spillTried[i].rec.ino <= spillMade
    <3> DEFINE Pair == [rec : SpillRec, written : BOOLEAN, blind : BOOLEAN]
    <3>1. spillTried \in Seq(Pair)
      BY DEF SpillTypes
    <3>2. \A i \in DOMAIN spillTried : spillTried[i] \in Pair
      <4> HIDE DEF Pair
      <4> QED
        BY <3>1
    <3>3. \A i \in DOMAIN spillTried : spillTried[i].rec.ino \in Nat
      BY <3>2 DEF SpillRec
    <3> QED
      BY <3>3 DEF NumbersInv
  <2>6. \A q \in SpillProcs \ {p} : spillOp[q].pc = "lock" =>
          /\ spillOp[q].file.ino \in Nat /\ spillOp[q].file.ino <= spillMade
          /\ \A i \in DOMAIN spillTried : spillTried[i].rec.ino # spillOp[q].file.ino
    BY DEF SpillTypes, NumbersInv
  <2>7. \A i \in DOMAIN spillTried' : spillTried'[i].rec.ino <= spillMade'
    BY <2>2, <2>5
  <2>8. \A i, j \in DOMAIN spillTried' : spillTried'[i].rec.ino = spillTried'[j].rec.ino => i = j
    BY <2>2 DEF NumbersInv
  <2>9. ASSUME NEW q \in SpillProcs, spillOp'[q].pc = "lock"
        PROVE  /\ spillOp'[q].file.ino <= spillMade'
               /\ \A i \in DOMAIN spillTried' : spillTried'[i].rec.ino # spillOp'[q].file.ino
    <3>1. CASE q = p
      BY <2>2, <2>3, <2>5, <3>1
    <3>2. CASE q # p
      BY <2>2, <2>4, <2>6, <2>9, <3>2
    <3> QED
      BY <3>1, <3>2
  <2>10. ASSUME NEW q1 \in SpillProcs, NEW q2 \in SpillProcs,
                spillOp'[q1].pc = "lock", spillOp'[q2].pc = "lock",
                spillOp'[q1].file.ino = spillOp'[q2].file.ino, q1 # q2
         PROVE  FALSE
    <3>1. CASE q1 = p
      BY <2>2, <2>3, <2>4, <2>6, <2>10, <3>1
    <3>2. CASE q2 = p
      BY <2>2, <2>3, <2>4, <2>6, <2>10, <3>2
    <3>3. CASE q1 # p /\ q2 # p
      BY <2>4, <2>10, <3>3 DEF NumbersInv
    <3> QED
      BY <3>1, <3>2, <3>3
  <2> QED
    BY <2>7, <2>8, <2>9, <2>10 DEF NumbersInv
<1>3. ASSUME NEW p \in SpillProcs, RegisterSpill(p) PROVE NumbersInv'
  <2>1. /\ Len(spillTried) \in Nat /\ DOMAIN spillTried = 1 .. Len(spillTried)
        /\ \A i \in DOMAIN spillTried' : i \in DOMAIN spillTried \/ i = Len(spillTried) + 1
        /\ \A i \in DOMAIN spillTried : spillTried'[i].rec = spillTried[i].rec
        /\ spillTried'[Len(spillTried) + 1].rec = Record(p)
    <3>1. /\ Len(spillTried) \in Nat /\ DOMAIN spillTried = 1 .. Len(spillTried)
          /\ DOMAIN spillTried' = 1 .. Len(spillTried) + 1
          /\ \A i \in DOMAIN spillTried : spillTried'[i] = spillTried[i]
          /\ spillTried'[Len(spillTried) + 1].rec = Record(p)
      BY <1>3, RegisterTried
    <3> QED
      BY <3>1
  <2>2. spillOp[p].pc = "lock" /\ Record(p).ino = spillOp[p].file.ino /\ spillMade' = spillMade
    BY <1>3 DEF RegisterSpill, Record
  <2>3. /\ spillOp'[p].pc = "delete"
        /\ \A q \in SpillProcs \ {p} : spillOp'[q] = spillOp[q]
    <3>1. PICK records \in ReadSpillRegistry :
            spillOp' = [spillOp EXCEPT ![p] = [pc |-> "delete", rec |-> Record(p), records |-> Cut(Kept(p, records)),
                                               gone |-> Forgotten(p, records)]]
      BY <1>3 DEF RegisterSpill
    <3> QED
      BY <3>1 DEF SpillTypes
  <2>4. /\ spillOp[p].file.ino <= spillMade
        /\ \A i \in DOMAIN spillTried : spillTried[i].rec.ino # spillOp[p].file.ino
        /\ \A q \in SpillProcs \ {p} : spillOp[q].pc = "lock" => spillOp[q].file.ino # spillOp[p].file.ino
    BY <2>2 DEF NumbersInv
  <2>5. \A i \in DOMAIN spillTried' : spillTried'[i].rec.ino <= spillMade'
    BY <2>1, <2>2, <2>4 DEF NumbersInv
  <2>6. \A i, j \in DOMAIN spillTried' : spillTried'[i].rec.ino = spillTried'[j].rec.ino => i = j
    BY <2>1, <2>2, <2>4 DEF NumbersInv
  <2>7. ASSUME NEW q \in SpillProcs, spillOp'[q].pc = "lock"
        PROVE  /\ spillOp'[q].file.ino <= spillMade'
               /\ \A i \in DOMAIN spillTried' : spillTried'[i].rec.ino # spillOp'[q].file.ino
    <3>1. q # p /\ spillOp'[q] = spillOp[q] /\ spillOp[q].pc = "lock"
      BY <2>3, <2>7
    <3>2. spillOp[q].file.ino <= spillMade /\ \A i \in DOMAIN spillTried : spillTried[i].rec.ino # spillOp[q].file.ino
      BY <3>1 DEF NumbersInv
    <3> QED
      BY <2>1, <2>2, <2>4, <3>1, <3>2
  <2>8. \A q1, q2 \in SpillProcs :
          spillOp'[q1].pc = "lock" /\ spillOp'[q2].pc = "lock" /\ spillOp'[q1].file.ino = spillOp'[q2].file.ino => q1 = q2
    BY <2>3 DEF NumbersInv
  <2> QED
    BY <2>5, <2>6, <2>7, <2>8 DEF NumbersInv
<1>4. ASSUME NEW p \in SpillProcs, DeleteRecordedSpill(p) PROVE NumbersInv'
  <2>1. PICK r \in spillOp[p].gone : spillOp' = [spillOp EXCEPT ![p].gone = @ \ {r}]
    BY <1>4 DEF DeleteRecordedSpill
  <2>2. spillOp[p].pc = "delete" /\ UNCHANGED <<spillTried, spillMade>>
    BY <1>4 DEF DeleteRecordedSpill
  <2>3. \A q \in SpillProcs : spillOp'[q] = spillOp[q] \/ spillOp'[q].pc # "lock"
    BY <2>1, <2>2 DEF SpillTypes
  <2>4. Same
    BY <2>2, <2>3
  <2> QED
    BY <1>s, <2>4
<1>5. ASSUME NEW p \in SpillProcs, WriteRegistry(p) PROVE NumbersInv'
  <2>1. \A q \in SpillProcs : spillOp'[q] = spillOp[q] \/ spillOp'[q].pc # "lock"
    BY <1>5 DEF WriteRegistry, SpillTypes, Resting
  <2>2. Same
    BY <1>5, <2>1, WriteTried DEF WriteRegistry
  <2> QED
    BY <1>s, <2>2
<1>6. ASSUME NEW p \in SpillProcs, Aside(p) PROVE NumbersInv'
  <2>1. \A q \in SpillProcs : spillOp'[q] = spillOp[q] \/ spillOp'[q].pc # "lock"
    BY <1>6, AsideOps
  <2>2. Same
    BY <1>6, <2>1 DEF Aside
  <2> QED
    BY <1>s, <2>2
<1>7. ASSUME NEW path \in SpillPaths, OthersTouch(path) PROVE NumbersInv'
  <2>1. Same
    BY <1>7 DEF OthersTouch
  <2> QED
    BY <1>s, <2>1
<1>8. CASE SpillTick
  <2>1. Same
    BY <1>8 DEF SpillTick
  <2> QED
    BY <1>s, <2>1
<1> QED
  BY <1>1, <1>2, <1>3, <1>4, <1>5, <1>6, <1>7, <1>8, StepsAside DEF SpillNext

\* The file of this name is this one, as it was.
Intact(files, path, ino, version) ==
    path \in DOMAIN files /\ files[path].ino = ino /\ files[path].version = version

\* A file changes only if somebody else touches it or it is deleted by its number.
LEMMA FilesStay ==
  ASSUME SpillTypes, [SpillNext]_spillVars, NEW path, NEW ino, NEW version, Intact(spillFiles, path, ino, version)
  PROVE  \/ Intact(spillFiles', path, ino, version) \/ ino \in spillTaken'
         \/ \E p \in SpillProcs : spillOp[p].pc = "delete" /\ \E r \in spillOp[p].gone : r.ino = ino
<1>1. CASE UNCHANGED spillFiles
  BY <1>1 DEF Intact
<1>2. ASSUME NEW p \in SpillProcs, Spill(p) PROVE Intact(spillFiles', path, ino, version)
  <2>1. PICK x \in SpillPaths \ DOMAIN spillFiles : \E file : spillFiles' = Put(spillFiles, x, file)
    BY <1>2 DEF Spill
  <2> QED
    BY <2>1 DEF Put, Intact
<1>3. ASSUME NEW p \in SpillProcs, DeleteRecordedSpill(p)
      PROVE  \/ Intact(spillFiles', path, ino, version)
             \/ spillOp[p].pc = "delete" /\ \E r \in spillOp[p].gone : r.ino = ino
  <2>1. PICK r \in spillOp[p].gone :
          spillFiles' = IF Recorded(r) THEN Drop(spillFiles, r.path) ELSE spillFiles
    BY <1>3 DEF DeleteRecordedSpill
  <2>2. CASE Recorded(r) /\ r.path = path
    BY <1>3, <2>2 DEF DeleteRecordedSpill, Recorded, Intact
  <2>3. CASE ~(Recorded(r) /\ r.path = path)
    BY <2>1, <2>3 DEF Intact, Drop
  <2> QED
    BY <2>2, <2>3
<1>4. ASSUME NEW x \in SpillPaths, OthersTouch(x) PROVE Intact(spillFiles', path, ino, version) \/ ino \in spillTaken'
  <2>1. CASE x = path
    BY <1>4, <2>1 DEF OthersTouch, Intact
  <2>2. CASE x # path
    BY <1>4, <2>2 DEF OthersTouch, Intact, Drop
  <2> QED
    BY <2>1, <2>2
<1>5. ASSUME NEW p \in SpillProcs, RegisterSpill(p) \/ WriteRegistry(p) \/ Aside(p) PROVE UNCHANGED spillFiles
  BY <1>5 DEF RegisterSpill, WriteRegistry, Aside
<1>6. ASSUME SpillTick \/ UNCHANGED spillVars PROVE UNCHANGED spillFiles
  BY <1>6 DEF SpillTick, spillVars
<1> QED
  BY <1>1, <1>2, <1>3, <1>4, <1>5, <1>6, StepsAside DEF SpillNext

\* Which spills are about to be registered after a step, and which are tried.
LEMMA LocksStep ==
  ASSUME SpillTypes, [SpillNext]_spillVars, NEW q \in SpillProcs, spillOp'[q].pc = "lock"
  PROVE  \/ spillOp'[q] = spillOp[q]
         \/ Intact(spillFiles', spillOp'[q].path, spillOp'[q].file.ino, spillOp'[q].file.version)
<1>1. ASSUME NEW p \in SpillProcs, Spill(p)
      PROVE  spillOp'[q] = spillOp[q] \/ Intact(spillFiles', spillOp'[q].path, spillOp'[q].file.ino, spillOp'[q].file.version)
  <2>1. PICK path \in SpillPaths \ DOMAIN spillFiles :
          LET file == [ino |-> spillMade + 1, version |-> 0] IN
          /\ spillFiles' = Put(spillFiles, path, file)
          /\ spillOp' = [spillOp EXCEPT ![p] = [pc |-> "lock", path |-> path, file |-> file]]
    BY <1>1 DEF Spill
  <2>2. CASE q = p
    BY <2>1, <2>2 DEF SpillTypes, Put, Intact
  <2>3. CASE q # p
    BY <2>1, <2>3 DEF SpillTypes
  <2> QED
    BY <2>2, <2>3
<1>2. ASSUME NEW p \in SpillProcs, RegisterSpill(p) \/ WriteRegistry(p) PROVE spillOp'[q] = spillOp[q]
  <2>1. CASE RegisterSpill(p)
    <3>1. PICK records \in ReadSpillRegistry :
            spillOp' = [spillOp EXCEPT ![p] = [pc |-> "delete", rec |-> Record(p), records |-> Cut(Kept(p, records)),
                                               gone |-> Forgotten(p, records)]]
      BY <2>1 DEF RegisterSpill
    <3> QED
      BY <3>1 DEF SpillTypes
  <2>2. CASE WriteRegistry(p)
    BY <2>2 DEF WriteRegistry, Resting, SpillTypes
  <2> QED
    BY <1>2, <2>1, <2>2
<1>3. ASSUME NEW p \in SpillProcs, DeleteRecordedSpill(p) PROVE spillOp'[q] = spillOp[q]
  <2>1. PICK r \in spillOp[p].gone : spillOp' = [spillOp EXCEPT ![p].gone = @ \ {r}]
    BY <1>3 DEF DeleteRecordedSpill
  <2>2. spillOp[p].pc = "delete"
    BY <1>3 DEF DeleteRecordedSpill
  <2> QED
    BY <2>1, <2>2 DEF SpillTypes
<1>4. ASSUME NEW p \in SpillProcs, Aside(p) PROVE spillOp'[q] = spillOp[q]
  BY <1>4, AsideOps
<1>5. ASSUME (\E x \in SpillPaths : OthersTouch(x)) \/ SpillTick \/ UNCHANGED spillVars PROVE spillOp'[q] = spillOp[q]
  BY <1>5 DEF OthersTouch, SpillTick, spillVars
<1> QED
  BY <1>1, <1>2, <1>3, <1>4, <1>5, StepsAside DEF SpillNext

LEMMA TriedStep ==
  ASSUME SpillTypes, [SpillNext]_spillVars
  PROVE  \/ DOMAIN spillTried' = DOMAIN spillTried
         \/ \E p \in SpillProcs : RegisterSpill(p)
<1>1. ASSUME NEW p \in SpillProcs, WriteRegistry(p) PROVE DOMAIN spillTried' = DOMAIN spillTried
  BY <1>1, WriteTried
<1>2. ASSUME NEW p \in SpillProcs, Spill(p) \/ DeleteRecordedSpill(p) \/ Aside(p)
      PROVE  DOMAIN spillTried' = DOMAIN spillTried
  BY <1>2 DEF Spill, DeleteRecordedSpill, Aside
<1>3. ASSUME (\E x \in SpillPaths : OthersTouch(x)) \/ SpillTick \/ UNCHANGED spillVars
      PROVE  DOMAIN spillTried' = DOMAIN spillTried
  BY <1>3 DEF OthersTouch, SpillTick, spillVars
<1> QED
  BY <1>1, <1>2, <1>3, StepsAside DEF SpillNext

LEMMA FilesStep ==
  ASSUME SpillTypes, SpillTypes', NumbersInv, FilesInv, DeletingInv, [SpillNext]_spillVars
  PROVE  FilesInv'
<1>g. Grows
  BY StepGrows
<1>1. ASSUME NEW i \in DOMAIN spillTried, NEW r, r = spillTried[i].rec
      PROVE  Gone(i)' \/ Intact(spillFiles', r.path, r.ino, r.version)
  <2>1. CASE Gone(i)
    BY <1>g, <2>1, StillGone
  <2>2. CASE Intact(spillFiles, r.path, r.ino, r.version)
    <3>1. CASE Intact(spillFiles', r.path, r.ino, r.version)
      BY <3>1
    <3>2. CASE r.ino \in spillTaken'
      <4>1. i \in DOMAIN spillTried' /\ spillTried'[i].rec = r
        BY <1>1, <1>g DEF Grows
      <4> QED
        BY <3>2, <4>1 DEF Gone
    <3>3. ASSUME NEW p \in SpillProcs, spillOp[p].pc = "delete", NEW x \in spillOp[p].gone, x.ino = r.ino
          PROVE  Gone(i)'
      <4>1. GoneRec(x)
        BY <3>3 DEF DeletingInv, Deleting
      <4>2. PICK j \in DOMAIN spillTried : spillTried[j].rec = x /\ Gone(j)
        BY <4>1 DEF GoneRec
      <4>3. j = i
        BY <1>1, <3>3, <4>2 DEF NumbersInv
      <4> QED
        BY <1>g, <4>2, <4>3, StillGone
    <3> QED
      BY <2>2, <3>1, <3>2, <3>3, FilesStay
  <2>3. Gone(i) \/ Intact(spillFiles, r.path, r.ino, r.version)
    BY <1>1 DEF FilesInv, Unchanged, Recorded, Intact
  <2> QED
    BY <2>1, <2>2, <2>3
<1>2. ASSUME NEW i \in DOMAIN spillTried' PROVE Gone(i)' \/ Unchanged(spillTried[i].rec)'
  <2>1. CASE i \in DOMAIN spillTried
    <3>1. spillTried'[i].rec = spillTried[i].rec
      BY <1>g, <2>1 DEF Grows
    <3>2. Gone(i)' \/ Intact(spillFiles', spillTried[i].rec.path, spillTried[i].rec.ino, spillTried[i].rec.version)
      BY <1>1, <2>1
    <3> QED
      BY <3>1, <3>2 DEF Unchanged, Recorded, Intact
  <2>2. CASE i \notin DOMAIN spillTried
    <3>1. PICK p \in SpillProcs : RegisterSpill(p)
      BY <2>2, TriedStep
    <3>2. spillTried'[i].rec = Record(p)
      <4>1. /\ i = Len(spillTried) + 1
            /\ spillTried'[Len(spillTried) + 1].rec = Record(p)
        BY <2>2, <3>1, RegisterTried
      <4> QED
        BY <4>1
    <3>3. spillOp[p].pc = "lock" /\ UNCHANGED <<spillFiles, spillTaken>>
      BY <3>1 DEF RegisterSpill
    <3>4. CASE spillOp[p].file.ino \in spillTaken
      BY <3>2, <3>3, <3>4 DEF Gone, Record
    <3>5. CASE spillOp[p].file.ino \notin spillTaken
      <4>1. /\ spillOp[p].path \in DOMAIN spillFiles
            /\ spillFiles[spillOp[p].path].ino = spillOp[p].file.ino
            /\ spillFiles[spillOp[p].path].version = spillOp[p].file.version
        BY <3>3, <3>5 DEF FilesInv
      <4> QED
        BY <3>2, <3>3, <4>1 DEF Unchanged, Recorded, Record
    <3> QED
      BY <3>4, <3>5
  <2> QED
    BY <2>1, <2>2
<1>3. ASSUME NEW q \in SpillProcs, spillOp'[q].pc = "lock"
      PROVE  \/ spillOp'[q].file.ino \in spillTaken'
             \/ /\ spillOp'[q].path \in DOMAIN spillFiles'
                /\ spillFiles'[spillOp'[q].path].ino = spillOp'[q].file.ino
                /\ spillFiles'[spillOp'[q].path].version = spillOp'[q].file.version
  <2>1. CASE Intact(spillFiles', spillOp'[q].path, spillOp'[q].file.ino, spillOp'[q].file.version)
    BY <2>1 DEF Intact
  <2>2. CASE spillOp'[q] = spillOp[q]
    <3> DEFINE n == spillOp[q].file.ino
    <3>1. n \in spillTaken \/ Intact(spillFiles, spillOp[q].path, n, spillOp[q].file.version)
      BY <1>3, <2>2 DEF FilesInv, Intact
    <3>2. CASE n \in spillTaken
      BY <1>g, <2>2, <3>2 DEF Grows
    <3>3. ASSUME NEW p \in SpillProcs, spillOp[p].pc = "delete", NEW x \in spillOp[p].gone, x.ino = n
          PROVE  FALSE
      <4>1. GoneRec(x)
        BY <3>3 DEF DeletingInv, Deleting
      <4>2. PICK j \in DOMAIN spillTried : spillTried[j].rec = x
        BY <4>1 DEF GoneRec
      <4> QED
        BY <1>3, <2>2, <3>3, <4>2 DEF NumbersInv
    <3>4. CASE Intact(spillFiles, spillOp[q].path, n, spillOp[q].file.version)
      <4>1. \/ Intact(spillFiles', spillOp[q].path, n, spillOp[q].file.version) \/ n \in spillTaken'
            \/ \E p \in SpillProcs : spillOp[p].pc = "delete" /\ \E r \in spillOp[p].gone : r.ino = n
        BY <3>4, FilesStay
      <4> QED
        BY <2>2, <3>3, <4>1 DEF Intact
    <3> QED
      BY <3>1, <3>2, <3>4, <2>2
  <2> QED
    BY <1>3, <2>1, <2>2, LocksStep
<1> QED
  BY <1>2, <1>3 DEF FilesInv

-----------------------------------------------------------------------------
\* What was to leave still is, as long as no other registration is tried.
LEMMA StillLeavingRec ==
  ASSUME SpillTypes, SpillTypes', Grows, UNCHANGED spillTried, NEW r, LeavingRec(r)
  PROVE  LeavingRec(r)'
<1>1. PICK i \in DOMAIN spillTried : spillTried[i].rec = r /\ Leaving(i)
  BY DEF LeavingRec
<1>2. LaterWritten(i)' = LaterWritten(i)
  BY DEF LaterWritten, Later
<1>3. CASE TooOld(spillTried[i].rec)
  <2>1. TooOld(spillTried[i].rec)'
    BY <1>3, StillTooOld
  <2> QED
    BY <1>1, <2>1 DEF Leaving, LeavingRec
<1>4. CASE ~TooOld(spillTried[i].rec)
  BY <1>1, <1>2, <1>4 DEF Leaving, LeavingRec
<1> QED
  BY <1>3, <1>4

-----------------------------------------------------------------------------
\* What a registration keeps.
-----------------------------------------------------------------------------
\* c is the end of seq, all of it or as much as the registry holds.
EndOf(T, seq, c) ==
    /\ c \in Seq(T) /\ Len(c) \in 1 .. SpillMaxEntries /\ c[Len(c)] = seq[Len(seq)]
    /\ \E d \in Nat : /\ Len(seq) = d + Len(c)
                      /\ \A k \in 1 .. Len(c) : c[k] = seq[d + k]
                      /\ d > 0 => Len(c) = SpillMaxEntries

LEMMA CutLeaves ==
  ASSUME NEW T, NEW seq \in Seq(T), Len(seq) > 0
  PROVE  EndOf(T, seq, Cut(seq))
<1>1. SpillMaxEntries \in Nat /\ SpillMaxEntries > 0 /\ Len(seq) \in Nat
  BY SpillAssumption
<1>2. CASE Len(seq) > SpillMaxEntries
  <2> DEFINE d == Len(seq) - SpillMaxEntries
             c == SubSeq(seq, d + 1, Len(seq))
  <2>1. d \in Nat /\ d > 0 /\ Len(seq) = d + SpillMaxEntries /\ Len(seq) - (d + 1) + 1 = SpillMaxEntries
    BY <1>1, <1>2
  <2>2. Cut(seq) = c
    BY <1>2 DEF Cut
  <2>3. /\ c \in Seq(T) /\ Len(c) = SpillMaxEntries
        /\ \A k \in 1 .. SpillMaxEntries : c[k] = seq[d + k]
    <3> HIDE DEF d
    <3>1. d + 1 \in 1 .. Len(seq) + 1 /\ Len(seq) \in d .. Len(seq)
      BY <1>1, <2>1
    <3>2. c \in Seq(T) /\ Len(c) = Len(seq) - (d + 1) + 1
      BY <1>1, <2>1, <3>1
    <3>3. \A k \in 1 .. SpillMaxEntries : c[k] = seq[(d + 1) + k - 1]
      BY <1>1, <2>1, <3>1
    <3>4. \A k \in 1 .. SpillMaxEntries : (d + 1) + k - 1 = d + k
      BY <2>1
    <3> QED
      BY <2>1, <3>2, <3>3, <3>4
  <2> HIDE DEF c, d
  <2>4. c[SpillMaxEntries] = seq[Len(seq)]
    BY <1>1, <2>1, <2>3
  <2> QED
    <3>1. c \in Seq(T) /\ Len(c) \in 1 .. SpillMaxEntries /\ c[Len(c)] = seq[Len(seq)]
      BY <1>1, <2>3, <2>4
    <3>2. /\ Len(seq) = d + Len(c) /\ (d > 0 => Len(c) = SpillMaxEntries)
          /\ \A k \in 1 .. Len(c) : c[k] = seq[d + k]
      BY <2>1, <2>3
    <3> QED
      BY <2>1, <2>2, <3>1, <3>2 DEF EndOf
<1>3. CASE ~(Len(seq) > SpillMaxEntries)
  <2>1. Cut(seq) = seq
    BY <1>3 DEF Cut
  <2>2. \A k \in 1 .. Len(seq) : 0 + k = k
    OBVIOUS
  <2>3. Len(seq) = 0 + Len(seq) /\ 0 \in Nat /\ ~(0 > 0) /\ Len(seq) \in 1 .. SpillMaxEntries
    BY <1>1, <1>3
  <2> QED
    BY <2>1, <2>2, <2>3 DEF EndOf
<1> QED
  BY <1>2, <1>3

\* Whoever is cut off the front of a list of records in order, all but the last of
\* them written, has been followed by as many as the registry holds, less one.
LEMMA ManyLater ==
  ASSUME SpillTypes, NumbersInv, NEW seq \in Seq(SpillRec), InOrder(seq),
         \A m \in 1 .. Len(seq) - 1 : Listed(seq[m]),
         NEW d \in Nat, NEW k \in 1 .. d, d + SpillMaxEntries <= Len(seq),
         NEW i \in DOMAIN spillTried, spillTried[i].rec = seq[k]
  PROVE  Cardinality(LaterWritten(i)) >= SpillMaxEntries - 1
<1> DEFINE M == 1 .. SpillMaxEntries - 1
           B == LaterWritten(i)
<1>1. /\ SpillMaxEntries \in Nat /\ SpillMaxEntries > 0 /\ Len(seq) \in Nat /\ k \in 1 .. Len(seq)
      /\ \A m \in M : d + m \in 1 .. Len(seq) /\ k < d + m /\ d + m \in 1 .. Len(seq) - 1
  BY SpillAssumption
<1>3. ASSUME NEW m \in M PROVE \E j \in B : spillTried[j].rec = seq[d + m]
  <2>1. PICK a, j \in DOMAIN spillTried : a < j /\ spillTried[a].rec = seq[k] /\ spillTried[j].rec = seq[d + m]
    BY <1>1 DEF InOrder
  <2>2. a = i
    BY <2>1 DEF NumbersInv
  <2>3. DOMAIN spillTried \subseteq Nat
    BY DEF SpillTypes
  <2>4. PICK l \in DOMAIN spillTried : spillTried[l].rec = seq[d + m] /\ spillTried[l].written
    BY <1>1 DEF Listed
  <2>5. l = j
    BY <2>1, <2>4 DEF NumbersInv
  <2> QED
    BY <2>1, <2>2, <2>3, <2>4, <2>5 DEF LaterWritten, Later
<1> DEFINE f == [m \in M |-> CHOOSE j \in B : spillTried[j].rec = seq[d + m]]
<1>4. ASSUME NEW m \in M PROVE f[m] \in B /\ spillTried[f[m]].rec = seq[d + m]
  BY <1>3
<1>5. f \in [M -> B]
  BY <1>4
<1>6. ASSUME NEW m \in M, NEW n \in M, f[m] = f[n] PROVE m = n
  <2>1. seq[d + m] = seq[d + n]
    BY <1>4, <1>6
  <2>2. /\ d + m \in 1 .. Len(seq) /\ d + n \in 1 .. Len(seq) /\ m \in Nat /\ n \in Nat
        /\ m < n => d + m < d + n
        /\ n < m => d + n < d + m
    BY <1>1
  <2>3. \A a, b \in 1 .. Len(seq) : a < b => seq[a].path # seq[b].path
    BY DEF InOrder
  <2>4. ~(m < n) /\ ~(n < m)
    BY <2>1, <2>2, <2>3
  <2> QED
    BY <2>2, <2>4
<1>7. IsFiniteSet(B) /\ IsFiniteSet(M) /\ Cardinality(M) = SpillMaxEntries - 1
  <2>1. IsFiniteSet(B)
    BY LaterFinite
  <2>2. IsFiniteSet(M) /\ Cardinality(M) = SpillMaxEntries - 1
    <3> DEFINE e == SpillMaxEntries - 1
    <3>1. e \in Nat
      BY <1>1
    <3>2. IsFiniteSet(1 .. e) /\ Cardinality(1 .. e) = IF 1 > e THEN 0 ELSE e - 1 + 1
      <4> HIDE DEF e
      <4>1. 1 \in Int /\ e \in Int
        BY <3>1
      <4> QED
        BY <4>1, FS_Interval, Zenon
    <3>3. Cardinality(1 .. e) = e
      <4> HIDE DEF e
      <4>1. (IF 1 > e THEN 0 ELSE e - 1 + 1) = e
        BY <3>1
      <4> QED
        BY <3>2, <4>1
    <3> QED
      BY <3>2, <3>3
  <2> QED
    BY <2>1, <2>2
<1> HIDE DEF f, M, B
<1>8. f \in Injection(M, B)
  BY <1>5, <1>6 DEF Injection, IsInjective
<1>9. Cardinality(M) <= Cardinality(B) /\ Cardinality(B) \in Nat
  BY <1>7, <1>8, FS_Injection, FS_CardinalityType
<1>10. Cardinality(B) >= SpillMaxEntries - 1
  BY <1>1, <1>7, <1>9
<1> QED
  BY <1>10 DEF B

\* The same, of the state after a step.
ManyFollow ==
    \A seq \in Seq(SpillRec) : InOrder(seq) /\ (\A m \in 1 .. Len(seq) - 1 : Listed(seq[m])) =>
        \A d \in Nat : \A k \in 1 .. d : \A i \in DOMAIN spillTried :
            d + SpillMaxEntries <= Len(seq) /\ spillTried[i].rec = seq[k] =>
                Cardinality(LaterWritten(i)) >= SpillMaxEntries - 1

LEMMA ManyLaterNext == SpillTypes' /\ NumbersInv' => ManyFollow'
<1>1. SpillTypes /\ NumbersInv => ManyFollow
  BY ManyLater DEF ManyFollow
<1> QED
  BY <1>1, PTL

\* What a registration leaves, with the records it could read.
LEMMA RegistrationKeeps ==
  ASSUME SpillTypes, SpillTypes', NumbersInv', RecordsInv, NEW p \in SpillProcs, RegisterSpill(p),
         NEW records \in ReadSpillRegistry,
         spillTried'[Len(spillTried) + 1].blind = (records # spillRecords),
         NEW cut, cut = Cut(Kept(p, records))
  PROVE  /\ Holds(cut)' /\ Record(p) \in Range(cut)
         /\ \A r \in Range(cut) : r = Record(p) \/ Listed(r)'
         /\ \A r \in Range(spillRecords) : r \in Range(cut) \/ LeavingRec(r)'
         /\ \A r \in Forgotten(p, records) : GoneRec(r)'
<1> DEFINE valid == {r \in Range(records) : r.path # spillOp[p].path /\ ~TooOld(r)}
           n == Len(spillTried)
<1>g. Grows
  BY StepGrows DEF SpillNext
<1>1. PICK o : o = Only(records, valid)
  OBVIOUS
<1>2. PICK rec : rec = Record(p)
  OBVIOUS
<1>3. PICK kept : kept = Append(o, rec)
  OBVIOUS
<1>4. cut = Cut(kept)
  BY <1>1, <1>2, <1>3 DEF Kept
<1>5. /\ records \in Seq(SpillRec) /\ InOrder(records) /\ Len(records) \in Nat
      /\ Range(records) \subseteq Range(spillRecords)
  <2>1. CASE records = spillRecords
    BY <2>1 DEF RecordsInv, Holds
  <2>2. CASE records = <<>>
    BY <2>2 DEF InOrder, Range
  <2> QED
    BY <2>1, <2>2 DEF ReadSpillRegistry
<1>6. o \in Seq(SpillRec) /\ Selected(records, valid, Len(records), o)
  BY <1>1, <1>5, OnlySelects
<1>7. rec \in SpillRec /\ rec.path = spillOp[p].path
  BY <1>2, RegisterTried DEF Record
<1>8. /\ kept \in Seq(SpillRec) /\ Len(o) \in Nat /\ Len(kept) = Len(o) + 1
      /\ kept[Len(o) + 1] = rec /\ \A k \in 1 .. Len(o) : kept[k] = o[k]
  BY <1>3, <1>6, <1>7
<1>9. /\ n \in Nat /\ DOMAIN spillTried = 1 .. n
      /\ \A i \in DOMAIN spillTried : i \in DOMAIN spillTried' /\ i < n + 1 /\ spillTried'[i].rec = spillTried[i].rec
      /\ n + 1 \in DOMAIN spillTried' /\ spillTried'[n + 1].rec = rec
  <2>1. /\ n \in Nat /\ DOMAIN spillTried = 1 .. n /\ DOMAIN spillTried' = 1 .. n + 1
        /\ \A i \in DOMAIN spillTried : spillTried'[i] = spillTried[i]
        /\ spillTried'[n + 1].rec = Record(p)
    BY RegisterTried
  <2> HIDE DEF n
  <2>2. \A i \in 1 .. n : i \in 1 .. n + 1 /\ i < n + 1
    BY <2>1
  <2>3. n + 1 \in 1 .. n + 1
    BY <2>1
  <2> QED
    BY <1>2, <2>1, <2>2, <2>3
<1> HIDE DEF n, valid
<1>10. ASSUME NEW k \in 1 .. Len(o)
       PROVE  o[k] \in valid /\ Listed(o[k])' /\ \E i \in DOMAIN spillTried : spillTried[i].rec = o[k]
  <2>1. PICK a \in 1 .. Len(records) : records[a] = o[k]
    BY <1>6 DEF Selected
  <2>2. o[k] \in valid
    BY <1>6, Zenon DEF Selected
  <2>3. o[k] \in Range(spillRecords)
    BY <1>5, <2>2 DEF valid
  <2>4. PICK r : r = o[k]
    OBVIOUS
  <2>5. Listed(r)
    BY <2>3, <2>4 DEF RecordsInv
  <2>6. Listed(r)'
    BY <1>g, <2>5, StillListed
  <2>7. Listed(o[k])'
    BY <2>4, <2>6 DEF Listed
  <2> QED
    BY <1>5, <2>1, <2>2, <2>7 DEF InOrder
<1>11. ASSUME NEW k \in 1 .. Len(kept)
       PROVE  \E i \in DOMAIN spillTried' : spillTried'[i].rec = kept[k]
  <2>1. CASE k = Len(o) + 1
    BY <1>8, <1>9, <2>1
  <2>2. CASE k # Len(o) + 1
    <3>1. k \in 1 .. Len(o) /\ kept[k] = o[k]
      BY <1>8, <2>2
    <3>2. PICK i \in DOMAIN spillTried : spillTried[i].rec = o[k]
      BY <1>10, <3>1
    <3> QED
      BY <1>9, <3>1, <3>2
  <2> QED
    BY <2>1, <2>2
<1>12. ASSUME NEW k \in 1 .. Len(kept), NEW l \in 1 .. Len(kept), k < l
       PROVE  /\ kept[k].path # kept[l].path
              /\ \E i, j \in DOMAIN spillTried' : i < j /\ spillTried'[i].rec = kept[k] /\ spillTried'[j].rec = kept[l]
  <2>1. k \in 1 .. Len(o) /\ (l \in 1 .. Len(o) \/ l = Len(o) + 1) /\ kept[k] = o[k]
    BY <1>8, <1>12
  <2>2. CASE l = Len(o) + 1
    <3>1. PICK i \in DOMAIN spillTried : spillTried[i].rec = o[k]
      BY <1>10, <2>1
    <3>2. o[k].path # rec.path
      BY <1>7, <1>10, <2>1 DEF valid
    <3> QED
      BY <1>8, <1>9, <2>1, <2>2, <3>1, <3>2
  <2>3. CASE l \in 1 .. Len(o)
    <3>1. PICK a, b \in 1 .. Len(records) : a < b /\ records[a] = o[k] /\ records[b] = o[l]
      BY <1>6, <1>12, <2>1, <2>3 DEF Selected
    <3>2. o[k].path # o[l].path
      BY <1>5, <3>1 DEF InOrder
    <3>3. PICK i, j \in DOMAIN spillTried : i < j /\ spillTried[i].rec = o[k] /\ spillTried[j].rec = o[l]
      BY <1>5, <3>1 DEF InOrder
    <3> QED
      BY <1>8, <1>9, <2>1, <2>3, <3>2, <3>3
  <2> QED
    BY <2>1, <2>2, <2>3
<1>13. InOrder(kept)'
  BY <1>11, <1>12 DEF InOrder
<1>14. /\ cut \in Seq(SpillRec) /\ Len(cut) \in 1 .. SpillMaxEntries /\ cut[Len(cut)] = kept[Len(kept)]
       /\ \E d \in Nat : /\ Len(kept) = d + Len(cut)
                         /\ \A k \in 1 .. Len(cut) : cut[k] = kept[d + k]
                         /\ d > 0 => Len(cut) = SpillMaxEntries
  <2>1. Len(kept) > 0
    BY <1>8
  <2>2. EndOf(SpillRec, kept, cut)
    BY <1>4, <1>8, <2>1, CutLeaves
  <2> QED
    BY <2>2 DEF EndOf
<1>15. PICK d \in Nat : /\ Len(kept) = d + Len(cut)
                        /\ \A k \in 1 .. Len(cut) : cut[k] = kept[d + k]
                        /\ d > 0 => Len(cut) = SpillMaxEntries
  BY <1>14
<1>16. Holds(cut)'
  <2>1. /\ SpillMaxEntries \in Nat /\ Len(cut) <= SpillMaxEntries
        /\ \A k \in 1 .. Len(cut) : d + k \in 1 .. Len(kept) /\ \A l \in 1 .. Len(cut) : k < l => d + k < d + l
    BY <1>8, <1>14, <1>15, SpillAssumption
  <2>2. ASSUME NEW k \in 1 .. Len(cut)
        PROVE  \E i \in DOMAIN spillTried' : spillTried'[i].rec = cut[k]
    BY <1>11, <1>15, <2>1
  <2>3. ASSUME NEW k \in 1 .. Len(cut), NEW l \in 1 .. Len(cut), k < l
        PROVE  /\ cut[k].path # cut[l].path
               /\ \E i, j \in DOMAIN spillTried' : i < j /\ spillTried'[i].rec = cut[k] /\ spillTried'[j].rec = cut[l]
    <3>1. d + k \in 1 .. Len(kept) /\ d + l \in 1 .. Len(kept) /\ d + k < d + l
      BY <2>1, <2>3
    <3>2. cut[k] = kept[d + k] /\ cut[l] = kept[d + l]
      BY <1>15
    <3> QED
      BY <1>12, <3>1, <3>2
  <2> QED
    BY <1>14, <2>1, <2>2, <2>3 DEF Holds, InOrder
<1>17. Record(p) \in Range(cut)
  <2>1. Len(cut) \in DOMAIN cut /\ cut[Len(cut)] = rec
    BY <1>8, <1>14
  <2> QED
    BY <1>2, <2>1 DEF Range
<1>18. ASSUME NEW r \in Range(cut) PROVE r = Record(p) \/ Listed(r)'
  <2>1. PICK k \in 1 .. Len(cut) : cut[k] = r
    BY <1>14 DEF Range
  <2>2. d + k \in 1 .. Len(kept) /\ kept[d + k] = r
    BY <1>8, <1>14, <1>15, <2>1
  <2>3. CASE d + k = Len(o) + 1
    BY <1>2, <1>8, <2>2, <2>3
  <2>4. CASE d + k # Len(o) + 1
    <3>1. PICK l \in 1 .. Len(o) : l = d + k
      BY <1>8, <2>2, <2>4
    <3>2. o[l] = r
      BY <1>8, <2>2, <3>1
    <3>3. Listed(o[l])'
      BY <1>10
    <3> QED
      BY <3>2, <3>3 DEF Listed
  <2> QED
    BY <2>3, <2>4
\* Where a record that was read stands, and why it may not be kept.
<1>19. ASSUME NEW r \in Range(records), NEW i \in DOMAIN spillTried, spillTried[i].rec = r,
              r.path # spillOp[p].path, ~TooOld(r), r \notin Range(cut)
       PROVE  Cardinality(LaterWritten(i)') >= SpillMaxEntries - 1
  <2>1. r \in valid
    BY <1>19 DEF valid
  <2>2. PICK a \in 1 .. Len(records) : records[a] = r
    BY <1>5 DEF Range
  <2>3. PICK k \in 1 .. Len(o) : o[k] = r
    BY <1>6, <2>1, <2>2 DEF Selected
  <2>4. k \in 1 .. Len(kept) /\ kept[k] = r /\ k \in Nat /\ k > 0
    BY <1>8, <2>3
  <2>5. CASE k <= d
    <3>1. d > 0 /\ k \in 1 .. d
      BY <2>4, <2>5
    <3>2. Len(cut) = SpillMaxEntries
      BY <1>15, <3>1
    <3>3. Len(kept) \in Nat /\ d + SpillMaxEntries <= Len(kept)
      BY <1>8, <1>15, <3>2
    <3>4. \A m \in 1 .. Len(kept) - 1 : Listed(kept[m])'
      <4>1. \A m \in 1 .. Len(kept) - 1 : m \in 1 .. Len(o) /\ kept[m] = o[m]
        BY <1>8
      <4> QED
        BY <1>10, <4>1 DEF Listed
    <3>5. i \in DOMAIN spillTried' /\ spillTried'[i].rec = kept[k]
      BY <1>9, <1>19, <2>4
    <3>6. PICK s : s = kept
      OBVIOUS
    <3>7. s \in Seq(SpillRec) /\ InOrder(s)'
      <4>1. \A m \in 1 .. Len(s) : \E j \in DOMAIN spillTried' : spillTried'[j].rec = s[m]
        BY <1>11, <3>6
      <4>2. \A m \in 1 .. Len(s), l \in 1 .. Len(s) : m < l =>
              /\ s[m].path # s[l].path
              /\ \E j, h \in DOMAIN spillTried' : j < h /\ spillTried'[j].rec = s[m] /\ spillTried'[h].rec = s[l]
        BY <1>12, <3>6
      <4> QED
        BY <1>8, <3>6, <4>1, <4>2 DEF InOrder
    <3>8. \A m \in 1 .. Len(s) - 1 : Listed(s[m])'
      BY <3>4, <3>6 DEF Listed
    <3>9. ManyFollow'
      BY ManyLaterNext
    <3>10. d \in Nat /\ k \in 1 .. d /\ d + SpillMaxEntries <= Len(s) /\ spillTried'[i].rec = s[k]
      BY <3>1, <3>3, <3>5, <3>6
    <3> QED
      BY <3>5, <3>7, <3>8, <3>9, <3>10 DEF ManyFollow
  <2>6. CASE k > d
    <3>1. k - d \in 1 .. Len(cut) /\ d + (k - d) = k /\ k - d \in DOMAIN cut
      BY <1>8, <1>14, <1>15, <2>4, <2>6
    <3>2. cut[k - d] = r
      BY <1>15, <2>4, <3>1
    <3>3. r \in Range(cut)
      BY <3>1, <3>2 DEF Range
    <3> QED
      BY <1>19, <3>3
  <2> QED
    BY <2>4, <2>5, <2>6
<1>20. Len(spillTried') = n + 1 /\ spillTried'[n + 1].blind = (records # spillRecords)
  BY RegisterTried DEF n
<1>21. ASSUME NEW i \in DOMAIN spillTried
       PROVE  i < Len(spillTried') /\ n + 1 \in Later(i)' /\ (TooOld(spillTried[i].rec) => TooOld(spillTried[i].rec)')
  <2>1. i < n + 1 /\ n + 1 > i
    <3>1. i \in Nat /\ n + 1 \in Nat /\ i < n + 1
      BY <1>9
    <3> QED
      BY <3>1
  <2>2. n + 1 \in Later(i)'
    BY <1>9, <2>1 DEF Later
  <2>3. TooOld(spillTried[i].rec) => TooOld(spillTried[i].rec)'
    BY <1>g, StillTooOld
  <2> QED
    BY <1>20, <2>1, <2>2, <2>3
<1>22. ASSUME NEW r \in Range(spillRecords) PROVE r \in Range(cut) \/ LeavingRec(r)'
  <2> SUFFICES ASSUME r \notin Range(cut) PROVE LeavingRec(r)'
    OBVIOUS
  <2>1. PICK i \in DOMAIN spillTried : spillTried[i].rec = r
    BY DEF RecordsInv, Listed
  <2>2. i \in DOMAIN spillTried' /\ spillTried'[i].rec = r
    BY <1>9, <2>1
  <2>3. \/ TooOld(spillTried[i].rec)'
        \/ Cardinality(LaterWritten(i)') >= SpillMaxEntries - 1
        \/ spillTried'[Len(spillTried')].rec.path = spillTried'[i].rec.path
        \/ spillTried'[Len(spillTried')].blind
    <3>1. CASE records # spillRecords
      BY <1>20, <3>1
    <3>2. CASE r.path = spillOp[p].path
      BY <1>7, <1>9, <1>20, <2>2, <3>2
    <3>3. CASE TooOld(r)
      BY <1>21, <2>1, <3>3
    <3>4. CASE records = spillRecords /\ r.path # spillOp[p].path /\ ~TooOld(r)
      BY <1>19, <2>1, <3>4
    <3> QED
      BY <3>1, <3>2, <3>3, <3>4
  <2>4. Leaving(i)'
    BY <1>21, <2>3 DEF Leaving
  <2> QED
    BY <2>2, <2>4 DEF LeavingRec
<1>23. ASSUME NEW r \in Forgotten(p, records) PROVE GoneRec(r)'
  <2>1. r \in Range(records) /\ r.path # spillOp[p].path /\ r \notin Range(cut)
    BY DEF Forgotten
  <2>2. PICK i \in DOMAIN spillTried : spillTried[i].rec = r
    BY <1>5, <2>1 DEF RecordsInv, Listed
  <2>3. i \in DOMAIN spillTried' /\ spillTried'[i].rec = r
    BY <1>9, <2>2
  <2>4. CASE TooOld(r)
    BY <1>21, <2>2, <2>3, <2>4 DEF Gone, GoneRec
  <2>5. CASE ~TooOld(r)
    <3>1. Cardinality(LaterWritten(i)') >= SpillMaxEntries - 1
      BY <1>19, <2>1, <2>2, <2>5
    <3>2. Later(i)' # {}
      BY <1>21
    <3> QED
      BY <2>3, <3>1, <3>2 DEF Gone, GoneRec
  <2> QED
    BY <2>4, <2>5
<1> QED
  BY <1>16, <1>17, <1>18, <1>22, <1>23

LEMMA RecordsStep ==
  ASSUME SpillTypes, SpillTypes', NumbersInv, RecordsInv, DeletingInv, [SpillNext]_spillVars
  PROVE  RecordsInv'
<1>g. Grows
  BY StepGrows
<1>h. Holds(spillRecords)
  BY DEF RecordsInv
<1>s. ASSUME UNCHANGED spillRecords,
             \A i \in DOMAIN spillTried' : spillTried'[i].written => i \in DOMAIN spillTried /\ spillTried[i].written
      PROVE  RecordsInv'
  <2>1. PICK seq : seq = spillRecords
    OBVIOUS
  <2>2. Holds(seq)'
    BY <1>g, <1>h, <2>1, StillHolds
  <2>3. Holds(spillRecords)'
    BY <1>s, <2>1, <2>2 DEF Holds, InOrder
  <2>4. ASSUME NEW i \in DOMAIN spillTried', spillTried'[i].written
        PROVE  Dropped(i)' \/ spillTried'[i].rec \in Range(spillRecords')
    <3>1. i \in DOMAIN spillTried /\ spillTried[i].written /\ spillTried'[i].rec = spillTried[i].rec
      BY <1>g, <1>s, <2>4 DEF Grows
    <3>2. Dropped(i) \/ spillTried[i].rec \in Range(spillRecords)
      BY <3>1 DEF RecordsInv
    <3> QED
      BY <1>g, <1>s, <3>1, <3>2, StillDropped
  <2>5. ASSUME NEW r \in Range(spillRecords') PROVE Listed(r)'
    <3>1. Listed(r)
      BY <1>s, <2>5 DEF RecordsInv
    <3> QED
      BY <1>g, <3>1, StillListed
  <2>6. (\A r \in Range(spillRecords) : Listed(r))'
    BY <2>5 DEF Listed
  <2> QED
    BY <2>3, <2>4, <2>6 DEF RecordsInv
<1>1. ASSUME NEW p \in SpillProcs, RegisterSpill(p) PROVE RecordsInv'
  <2>1. UNCHANGED spillRecords
    BY <1>1 DEF RegisterSpill
  <2>2. ASSUME NEW i \in DOMAIN spillTried', spillTried'[i].written
        PROVE  i \in DOMAIN spillTried /\ spillTried[i].written
    <3>1. /\ i \in DOMAIN spillTried \/ i = Len(spillTried) + 1
          /\ \A j \in DOMAIN spillTried : spillTried'[j] = spillTried[j]
          /\ ~spillTried'[Len(spillTried) + 1].written
      <4>1. /\ Len(spillTried) \in Nat
            /\ DOMAIN spillTried = 1 .. Len(spillTried) /\ DOMAIN spillTried' = 1 .. Len(spillTried) + 1
            /\ \A j \in DOMAIN spillTried : spillTried'[j] = spillTried[j]
            /\ ~spillTried'[Len(spillTried) + 1].written
        BY <1>1, RegisterTried
      <4> QED
        BY <2>2, <4>1
    <3>2. i # Len(spillTried) + 1
      BY <2>2, <3>1
    <3> QED
      BY <2>2, <3>1, <3>2
  <2> QED
    BY <1>s, <2>1, <2>2
<1>2. ASSUME NEW p \in SpillProcs, WriteRegistry(p) PROVE RecordsInv'
  <2>1. /\ DOMAIN spillTried' = DOMAIN spillTried
        /\ \A i \in DOMAIN spillTried : spillTried'[i].rec = spillTried[i].rec
    BY <1>2, WriteTried
  <2>2. CASE UNCHANGED <<spillTried, spillRecords>>
    BY <1>s, <2>2
  <2>3. CASE /\ spillRecords' = spillOp[p].records
             /\ \A i \in DOMAIN spillTried : spillTried'[i].written <=>
                   spillTried[i].written \/ spillTried[i].rec = spillOp[p].rec
    <3>1. PICK seq : seq = spillOp[p].records
      OBVIOUS
    <3>2. /\ Holds(seq) /\ spillOp[p].rec \in Range(seq)
          /\ \A r \in Range(seq) : r = spillOp[p].rec \/ Listed(r)
          /\ \A r \in Range(spillRecords) : r \in Range(seq) \/ LeavingRec(r)
          /\ Len(spillTried) > 0 /\ spillOp[p].rec = spillTried[Len(spillTried)].rec
          /\ ~spillTried[Len(spillTried)].written
      BY <1>2, <3>1 DEF DeletingInv, Deleting, WriteRegistry
    <3>n. Len(spillTried) \in DOMAIN spillTried /\ spillTried'[Len(spillTried)].written
      <4>1. Len(spillTried) \in DOMAIN spillTried
        BY <3>2 DEF SpillTypes
      <4> QED
        BY <2>3, <3>2, <4>1
    <3>3. spillRecords' = seq /\ Holds(seq)'
      BY <1>g, <2>3, <3>1, <3>2, StillHolds
    <3>4. Holds(spillRecords)'
      BY <3>3 DEF Holds, InOrder
    <3>5. ASSUME NEW i \in DOMAIN spillTried', spillTried'[i].written, ~Dropped(i)'
          PROVE  spillTried'[i].rec \in Range(seq)
      <4>1. i \in DOMAIN spillTried /\ spillTried'[i].rec = spillTried[i].rec
        BY <2>1
      <4>2. CASE spillTried[i].rec = spillOp[p].rec
        BY <3>2, <4>1, <4>2
      <4>3. CASE spillTried[i].written
        <5>1. ~Dropped(i)
          BY <1>g, <3>5, <4>1, StillDropped
        <5>2. spillTried[i].rec \in Range(spillRecords)
          BY <4>1, <4>3, <5>1 DEF RecordsInv
        <5>3. CASE LeavingRec(spillTried[i].rec)
          <6>1. PICK r : r = spillTried[i].rec
            OBVIOUS
          <6>2. LeavingRec(r)
            BY <5>3, <6>1
          <6>3. PICK j \in DOMAIN spillTried : spillTried[j].rec = r /\ Leaving(j)
            BY <6>2 DEF LeavingRec
          <6>4. j = i
            BY <4>1, <6>1, <6>3 DEF NumbersInv
          <6>5. Leaving(i)
            BY <6>3, <6>4
          <6> QED
            BY <1>g, <3>2, <3>n, <3>5, <4>1, <6>5, LeavingDrops
        <5> QED
          BY <3>2, <4>1, <5>2, <5>3
      <4> QED
        BY <2>3, <3>5, <4>1, <4>2, <4>3
    <3>6. ASSUME NEW r \in Range(seq) PROVE Listed(r)'
      <4>1. CASE r = spillOp[p].rec
        <5>1. /\ Len(spillTried) \in DOMAIN spillTried' /\ spillTried'[Len(spillTried)].rec = r
              /\ spillTried'[Len(spillTried)].written
          BY <2>1, <3>2, <3>n, <4>1
        <5> QED
          BY <5>1 DEF Listed
      <4>2. CASE Listed(r)
        BY <1>g, <4>2, StillListed
      <4> QED
        BY <3>2, <4>1, <4>2
    <3>7. (\A r \in Range(spillRecords) : Listed(r))'
      BY <3>3, <3>6 DEF Listed
    <3>8. \A i \in DOMAIN spillTried' :
            spillTried'[i].written => Dropped(i)' \/ spillTried'[i].rec \in Range(spillRecords')
      BY <3>3, <3>5
    <3> QED
      BY <3>4, <3>7, <3>8 DEF RecordsInv
  <2> QED
    BY <1>2, <2>2, <2>3, WriteTried
<1>3. ASSUME NEW p \in SpillProcs, Spill(p) \/ DeleteRecordedSpill(p) \/ Aside(p) PROVE RecordsInv'
  BY <1>s, <1>3 DEF Spill, DeleteRecordedSpill, Aside
<1>4. ASSUME (\E x \in SpillPaths : OthersTouch(x)) \/ SpillTick \/ UNCHANGED spillVars PROVE RecordsInv'
  BY <1>s, <1>4 DEF OthersTouch, SpillTick, spillVars
<1> QED
  BY <1>1, <1>2, <1>3, <1>4, StepsAside DEF SpillNext

LEMMA DeletingStep ==
  ASSUME SpillTypes, SpillTypes', NumbersInv', RecordsInv, DeletingInv, [SpillNext]_spillVars
  PROVE  DeletingInv'
<1>g. Grows
  BY StepGrows
<1>s. ASSUME NEW q \in SpillProcs, spillOp[q].pc = "delete",
             spillOp'[q].rec = spillOp[q].rec, spillOp'[q].records = spillOp[q].records,
             spillOp'[q].gone \subseteq spillOp[q].gone,
             UNCHANGED <<spillLock, spillTried, spillRecords>>
      PROVE  Deleting(q)'
  <2>1. Deleting(q)
    BY <1>s DEF DeletingInv
  <2>2. PICK seq : seq = spillOp[q].records
    OBVIOUS
  <2>3. Holds(seq) /\ spillOp'[q].records = seq
    BY <1>s, <2>1, <2>2 DEF Deleting
  <2>4. Holds(seq)'
    BY <1>g, <2>3, StillHolds
  <2>5. Holds(spillOp[q].records)'
    BY <2>3, <2>4 DEF Holds, InOrder
  <2>6. /\ \A r : LeavingRec(r) => LeavingRec(r)'
        /\ \A r : GoneRec(r) => GoneRec(r)'
        /\ \A r : Listed(r) => Listed(r)'
    BY <1>g, <1>s, StillLeavingRec, StillGoneRec, StillListed
  <2>7. /\ spillLock' = q /\ Len(spillTried') > 0 /\ spillOp'[q].rec = spillTried'[Len(spillTried')].rec
        /\ ~spillTried'[Len(spillTried')].written
        /\ spillOp'[q].rec \in Range(spillOp'[q].records)
    BY <1>s, <2>1 DEF Deleting
  <2>8. /\ \A r \in Range(spillRecords') : r \in Range(spillOp'[q].records) \/ LeavingRec(r)'
        /\ \A r \in Range(spillOp'[q].records) : r = spillOp'[q].rec \/ Listed(r)'
    BY <1>s, <2>1, <2>6 DEF Deleting
  <2>9. \A r \in spillOp'[q].gone : GoneRec(r)'
    BY <1>s, <2>1, <2>6 DEF Deleting
  <2> QED
    BY <2>3, <2>5, <2>7, <2>8, <2>9 DEF Deleting
<1>1. ASSUME NEW p \in SpillProcs, RegisterSpill(p), NEW q \in SpillProcs, spillOp'[q].pc = "delete"
      PROVE  Deleting(q)'
  <2>1. spillLock = NoHolder /\ spillLock' = p /\ UNCHANGED spillRecords
    BY <1>1 DEF RegisterSpill, WithFileLock
  <2>a. PICK records \in ReadSpillRegistry :
          /\ spillTried'[Len(spillTried) + 1].blind = (records # spillRecords)
          /\ spillOp' = [spillOp EXCEPT ![p] = [pc |-> "delete", rec |-> Record(p), records |-> Cut(Kept(p, records)),
                                                gone |-> Forgotten(p, records)]]
    BY <1>1, RegisterTried
  <2>2. spillOp' = [spillOp EXCEPT ![p] = [pc |-> "delete", rec |-> Record(p), records |-> Cut(Kept(p, records)),
                                           gone |-> Forgotten(p, records)]]
    BY <2>a
  <2>3. q = p
    <3>1. SUFFICES ASSUME q # p PROVE FALSE
      OBVIOUS
    <3>2. spillOp[q].pc = "delete"
      BY <1>1, <2>2, <3>1 DEF SpillTypes
    <3>3. spillLock = q
      BY <3>2 DEF DeletingInv, Deleting
    <3> QED
      BY <2>1, <3>3, SpillAssumption DEF NoHolder
  <2>4. PICK cut : cut = Cut(Kept(p, records))
    OBVIOUS
  <2>5. /\ Holds(cut)' /\ Record(p) \in Range(cut)
        /\ \A r \in Range(cut) : r = Record(p) \/ Listed(r)'
        /\ \A r \in Range(spillRecords) : r \in Range(cut) \/ LeavingRec(r)'
        /\ \A r \in Forgotten(p, records) : GoneRec(r)'
    BY <1>1, <2>a, <2>4, RegistrationKeeps
  <2>6. /\ spillOp'[p].rec = Record(p) /\ spillOp'[p].records = cut
        /\ spillOp'[p].gone = Forgotten(p, records)
    BY <2>2, <2>4 DEF SpillTypes
  <2>7. /\ Len(spillTried') > 0 /\ spillTried'[Len(spillTried')].rec = Record(p)
        /\ ~spillTried'[Len(spillTried')].written
    <3>1. /\ Len(spillTried) \in Nat /\ Len(spillTried') = Len(spillTried) + 1
          /\ spillTried'[Len(spillTried) + 1].rec = Record(p) /\ ~spillTried'[Len(spillTried) + 1].written
      BY <1>1, RegisterTried
    <3> QED
      BY <3>1
  <2>8. Holds(spillOp[p].records)'
    BY <2>5, <2>6 DEF Holds, InOrder
  <2>10. /\ \A r \in Range(spillRecords') : r \in Range(spillOp'[p].records) \/ LeavingRec(r)'
         /\ \A r \in Range(spillOp'[p].records) : r = spillOp'[p].rec \/ Listed(r)'
         /\ \A r \in spillOp'[p].gone : GoneRec(r)'
    BY <2>1, <2>5, <2>6
  <2> QED
    BY <2>1, <2>3, <2>5, <2>6, <2>7, <2>8, <2>10 DEF Deleting
<1>2. ASSUME NEW p \in SpillProcs, DeleteRecordedSpill(p), NEW q \in SpillProcs, spillOp'[q].pc = "delete"
      PROVE  Deleting(q)'
  <2>1. PICK r \in spillOp[p].gone : spillOp' = [spillOp EXCEPT ![p].gone = @ \ {r}]
    BY <1>2 DEF DeleteRecordedSpill
  <2>2. spillOp[p].pc = "delete" /\ UNCHANGED <<spillLock, spillTried, spillRecords>>
    BY <1>2 DEF DeleteRecordedSpill
  <2>3. /\ spillOp[q].pc = "delete"
        /\ spillOp'[q].rec = spillOp[q].rec /\ spillOp'[q].records = spillOp[q].records
        /\ spillOp'[q].gone \subseteq spillOp[q].gone
    <3>1. CASE q # p
      BY <1>2, <2>1, <3>1 DEF SpillTypes
    <3>2. CASE q = p
      <4> DEFINE op == [spillOp[p] EXCEPT !.gone = @ \ {r}]
      <4>1. spillOp'[p] = op
        BY <2>1 DEF SpillTypes
      <4>2. op.rec = spillOp[p].rec /\ op.records = spillOp[p].records
        OBVIOUS
      <4>3. op.gone \subseteq spillOp[p].gone
        OBVIOUS
      <4> QED
        BY <2>2, <3>2, <4>1, <4>2, <4>3
    <3> QED
      BY <3>1, <3>2
  <2> QED
    BY <1>s, <2>2, <2>3
<1>3. ASSUME NEW p \in SpillProcs, Spill(p) \/ WriteRegistry(p) \/ Aside(p),
             NEW q \in SpillProcs, spillOp'[q].pc = "delete"
      PROVE  Deleting(q)'
  <2>1. q # p /\ spillOp'[q] = spillOp[q]
    <3>1. CASE Aside(p)
      BY <1>3, <3>1, AsideOps
    <3>2. CASE WriteRegistry(p)
      <4>1. spillOp' = [spillOp EXCEPT ![p] = Resting]
        BY <3>2 DEF WriteRegistry
      <4>2. spillOp'[p] = Resting /\ (q # p => spillOp'[q] = spillOp[q])
        BY <4>1 DEF SpillTypes
      <4> QED
        BY <1>3, <4>2 DEF Resting
    <3>3. CASE Spill(p)
      <4>1. PICK x, y : spillOp' = [spillOp EXCEPT ![p] = [pc |-> "lock", path |-> x, file |-> y]]
        BY <3>3 DEF Spill
      <4> QED
        BY <1>3, <4>1 DEF SpillTypes
    <3> QED
      BY <1>3, <3>1, <3>2, <3>3
  <2>2. spillLock = q
    BY <1>3, <2>1 DEF DeletingInv, Deleting
  <2>3. ~WriteRegistry(p)
    <3>1. SUFFICES ASSUME WriteRegistry(p) PROVE FALSE
      OBVIOUS
    <3>2. spillOp[p].pc = "delete"
      BY <3>1 DEF WriteRegistry
    <3>3. spillLock = p
      BY <3>2 DEF DeletingInv, Deleting
    <3> QED
      BY <2>1, <2>2, <3>3
  <2>4. UNCHANGED <<spillLock, spillTried, spillRecords>>
    BY <1>3, <2>1, <2>2, <2>3 DEF Spill, Aside
  <2> QED
    BY <1>3, <1>s, <2>1, <2>4
<1>4. ASSUME (\E x \in SpillPaths : OthersTouch(x)) \/ SpillTick \/ UNCHANGED spillVars,
             NEW q \in SpillProcs, spillOp'[q].pc = "delete"
      PROVE  Deleting(q)'
  <2>1. UNCHANGED <<spillOp, spillLock, spillTried, spillRecords>>
    BY <1>4 DEF OthersTouch, SpillTick, spillVars
  <2> QED
    BY <1>4, <1>s, <2>1
<1>5. ASSUME NEW q \in SpillProcs, spillOp'[q].pc = "delete" PROVE Deleting(q)'
  BY <1>1, <1>2, <1>3, <1>4, <1>5, StepsAside DEF SpillNext
<1> QED
  BY <1>5 DEF DeletingInv

-----------------------------------------------------------------------------
\* The theorem.
-----------------------------------------------------------------------------
LEMMA SpillInitially == SpillInit => SpillInv
<1> SUFFICES ASSUME SpillInit PROVE SpillInv
  OBVIOUS
<1>1. /\ spillTried = <<>> /\ spillRecords = <<>> /\ DOMAIN spillFiles = {} /\ spillMade = 0 /\ spillClock = 0
      /\ DOMAIN spillOp = SpillProcs /\ \A p \in SpillProcs : spillOp[p].pc = "rest"
  BY DEF SpillInit, Resting
<1>2. spillTried \in Seq([rec : SpillRec, written : BOOLEAN, blind : BOOLEAN]) /\ DOMAIN spillTried = {}
  BY <1>1
<1>3. spillRecords \in Seq(SpillRec) /\ Len(spillRecords) = 0
  BY <1>1
<1>4. SpillTypes
  BY <1>1, <1>2 DEF SpillTypes
<1>5. NumbersInv /\ FilesInv /\ DeletingInv
  BY <1>1, <1>2 DEF NumbersInv, FilesInv, DeletingInv
<1>6. RecordsInv
  <2>1. Holds(spillRecords)
    BY <1>3, SpillAssumption DEF Holds, InOrder
  <2>2. Range(spillRecords) = {}
    <3>1. DOMAIN spillRecords = {}
      BY <1>1
    <3> QED
      BY <3>1 DEF Range
  <2> QED
    BY <1>2, <2>1, <2>2 DEF RecordsInv
<1> QED
  BY <1>4, <1>5, <1>6 DEF SpillInv

LEMMA SpillStep == SpillInv /\ [SpillNext]_spillVars => SpillInv'
<1> SUFFICES ASSUME SpillInv, [SpillNext]_spillVars PROVE SpillInv'
  OBVIOUS
<1>1. SpillTypes /\ NumbersInv /\ FilesInv /\ RecordsInv /\ DeletingInv
  BY DEF SpillInv
<1>2. SpillTypes'
  BY <1>1, TypesStep
<1>3. NumbersInv'
  BY <1>1, <1>2, NumbersStep
<1>4. FilesInv'
  BY <1>1, <1>2, FilesStep
<1>5. RecordsInv'
  BY <1>1, <1>2, RecordsStep
<1>6. DeletingInv'
  BY <1>1, <1>2, <1>3, DeletingStep
<1> QED
  BY <1>2, <1>3, <1>4, <1>5, <1>6 DEF SpillInv

LEMMA SpillInvKeeps == SpillInv => SpillsKept
<1> SUFFICES ASSUME SpillInv PROVE SpillsKept
  OBVIOUS
<1>1. SpillTypes /\ FilesInv /\ RecordsInv
  BY DEF SpillInv
<1>2. /\ spillRecords \in Seq(SpillRec) /\ Len(spillRecords) <= SpillMaxEntries
      /\ DOMAIN spillRecords = 1 .. Len(spillRecords) /\ Len(spillRecords) \in Nat
      /\ \A k, l \in 1 .. Len(spillRecords) : k < l => spillRecords[k].path # spillRecords[l].path
  BY <1>1 DEF RecordsInv, Holds, InOrder
<1>3. \A k, l \in DOMAIN spillRecords : spillRecords[k].path = spillRecords[l].path => k = l
  <2> SUFFICES ASSUME NEW k \in 1 .. Len(spillRecords), NEW l \in 1 .. Len(spillRecords),
                      spillRecords[k].path = spillRecords[l].path
               PROVE  k = l
    BY <1>2
  <2>1. ~(k < l) /\ ~(l < k)
    BY <1>2
  <2> QED
    BY <2>1
<1>4. SpillTypeOK
  BY <1>1, <1>2, <1>3 DEF SpillTypeOK, SpillTypes
<1>5. ASSUME NEW i \in DOMAIN spillTried, spillTried[i].written, ~Dropped(i)
      PROVE  Registered(spillTried[i].rec.path, spillTried[i].rec)
  <2>1. PICK rec : rec = spillTried[i].rec
    OBVIOUS
  <2>2. rec \in Range(spillRecords) /\ ~TooOld(rec)
    BY <1>1, <1>5, <2>1 DEF RecordsInv, Dropped
  <2>3. PICK k \in DOMAIN spillRecords : spillRecords[k] = rec
    BY <2>2 DEF Range
  <2>4. \A j \in 1 .. k - 1 : spillRecords[j].path # rec.path
    BY <1>2, <2>3
  <2>6. Registered(rec.path, rec)
    BY <2>2, <2>3, <2>4 DEF Registered
  <2> QED
    BY <2>1, <2>6
<1>6. ASSUME NEW i \in DOMAIN spillTried PROVE Gone(i) \/ Unchanged(spillTried[i].rec)
  BY <1>1 DEF FilesInv
<1> QED
  BY <1>4, <1>5, <1>6 DEF SpillsKept, Dropped, Gone

\* A registration that was written stands until it is too old, as many were written
\* after it as the registry holds, or one written after it has its name or could not
\* read the registry; its file stays until then, less one, or until somebody else
\* touches it - whatever other processes register, delete, fail to write or leave
\* behind when they die (registerShellSpill under its lock, deleteRecordedSpill).
THEOREM RegistrationsAreKept == SpillSpec => []SpillsKept
<1>1. SpillInit => SpillInv
  BY SpillInitially
<1>2. SpillInv /\ [SpillNext]_spillVars => SpillInv'
  BY SpillStep
<1>3. SpillInv => SpillsKept
  BY SpillInvKeeps
<1> QED
  BY <1>1, <1>2, <1>3, PTL DEF SpillSpec
=============================================================================

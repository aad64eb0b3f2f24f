-------------------------------- MODULE ToolProofs --------------------------
(***************************************************************************)
(* Theorems about what single tool calls do with their inputs: the         *)
(* conditions of PlanConditions, for all conditions and results, the pages *)
(* of Paging, for files, documents, batches and limits of every size, the  *)
(* language server session of LspSession, for any call, however many       *)
(* queries it has, and however much the server says unasked, and the edits *)
(* of Edits, for texts of any length and any number of edits and hunks.    *)
(***************************************************************************)
EXTENDS PlanConditions, Paging, LspSession, Edits,
        SequenceTheorems, FiniteSetTheorems, WellFoundedInduction, TLAPS

-----------------------------------------------------------------------------
(* Numbers: induction, from the well-foundedness of <, and functions       *)
(* defined by recursion on them.                                           *)

\* A set of numbers that is not empty has a least one.
LEMMA LeastNat ==
  ASSUME NEW S, S \subseteq Nat, S # {}
  PROVE  \E m \in S : \A k \in S : m <= k
<1> DEFINE R == OpToRel(<, Nat)
<1>1. IsWellFoundedOn(R, Nat)
  BY NatLessThanWellFounded
<1>2. \A x, y \in Nat : y < x => <<y, x>> \in R
  BY DEF OpToRel
<1> HIDE DEF R
<1>3. PICK m \in S : \A k \in S : ~ (<<k, m>> \in R)
  BY <1>1, WFMin
<1>4. ASSUME NEW k \in S PROVE m <= k
  <2>1. ~(<<k, m>> \in R) /\ k \in Nat /\ m \in Nat
    BY <1>3
  <2>2. ~(k < m)
    BY <1>2, <2>1, Zenon
  <2> QED
    BY <2>1, <2>2
<1> QED
  BY <1>4

\* Induction on the natural numbers: a set of them that holds 0 and, with
\* each number, the next one holds them all.
LEMMA NatSetInduction ==
  ASSUME NEW S, 0 \in S, \A n \in Nat : n \in S => n + 1 \in S
  PROVE  Nat \subseteq S
<1> SUFFICES ASSUME Nat \ S # {} PROVE FALSE
  OBVIOUS
<1>1. PICK m \in Nat \ S : \A k \in Nat \ S : m <= k
  BY LeastNat
<1>2. m - 1 \in Nat /\ m - 1 < m
  BY <1>1
<1>3. m - 1 \in S
  BY <1>1, <1>2
<1> QED
  BY <1>1, <1>2, <1>3

\* f starts at v and goes on as F says; there is such a function.
Recursive(f, v, N, F) == f[0] = v /\ \A i \in 1 .. N : f[i] = F[<<i, f[i - 1]>>]
LEMMA RecursionExists ==
  ASSUME NEW V, NEW v \in V, NEW N \in Nat, NEW F \in [(1 .. N) \X V -> V]
  PROVE  \E f \in [0 .. N -> V] : Recursive(f, v, N, F)
<1> DEFINE Steps(f, n) == Recursive(f, v, n, F)
           S == {n \in Nat : n <= N => \E f \in [0 .. n -> V] : Steps(f, n)}
<1>1. 0 \in S
  <2>1. [i \in 0 .. 0 |-> v] \in [0 .. 0 -> V] /\ Steps([i \in 0 .. 0 |-> v], 0)
    BY DEF Recursive
  <2> QED
    BY <2>1
<1>2. ASSUME NEW n \in Nat, n \in S PROVE n + 1 \in S
  <2> SUFFICES ASSUME n + 1 <= N PROVE \E f \in [0 .. n + 1 -> V] : Steps(f, n + 1)
    OBVIOUS
  <2>1. PICK f \in [0 .. n -> V] : Steps(f, n)
    BY <1>2
  <2> DEFINE g == [i \in 0 .. n + 1 |-> IF i <= n THEN f[i] ELSE F[<<n + 1, f[n]>>]]
  <2>2. <<n + 1, f[n]>> \in (1 .. N) \X V
    BY <2>1
  <2>3. F[<<n + 1, f[n]>>] \in V
    BY <2>2
  <2>4. g \in [0 .. n + 1 -> V]
    BY <2>1, <2>3
  <2>5. g[0] = v
    BY <2>1 DEF Recursive
  <2>6. ASSUME NEW i \in 1 .. n + 1 PROVE g[i] = F[<<i, g[i - 1]>>]
    <3>1. CASE i <= n
      <4>1. i \in 1 .. n /\ i \in 0 .. n + 1 /\ i - 1 \in 0 .. n + 1 /\ i - 1 <= n
        BY <3>1
      <4>2. g[i] = f[i] /\ g[i - 1] = f[i - 1]
        BY <3>1, <4>1
      <4> QED
        BY <2>1, <4>1, <4>2 DEF Recursive
    <3>2. CASE ~(i <= n)
      <4>1. i = n + 1 /\ i - 1 = n
        BY <3>2
      <4> QED
        BY <4>1
    <3> QED
      BY <3>1, <3>2
  <2> QED
    BY <2>4, <2>5, <2>6 DEF Recursive
<1>3. N \in S
  BY <1>1, <1>2, NatSetInduction
<1> QED
  BY <1>3

\* A set of numbers between two others has a greatest one.
LEMMA GreatestInt ==
  ASSUME NEW a \in Int, NEW b \in Int, NEW S, S \subseteq a .. b, S # {}
  PROVE  \E m \in S : \A k \in S : k <= m
<1> DEFINE T == {b - k : k \in S}
<1>1. T \subseteq Nat /\ T # {}
  OBVIOUS
<1>2. PICK n \in T : \A k \in T : n <= k
  BY <1>1, LeastNat
<1>3. PICK m \in S : n = b - m
  BY <1>2
<1>4. ASSUME NEW k \in S PROVE k <= m
  <2>1. n <= b - k
    BY <1>2
  <2> QED
    BY <1>3, <2>1
<1> QED
  BY <1>4

\* Of the numbers that fit, the last one before the first that does not.
LEMMA LastFitting ==
  ASSUME NEW lo \in Int, NEW hi \in Int, lo <= hi, NEW F, lo \in F
  PROVE  \E k \in lo .. hi : k \in F /\ (k = hi \/ k + 1 \notin F)
<1> DEFINE S == {n \in Nat : lo + n <= hi /\ (lo + n = hi \/ (lo + n) + 1 \notin F)}
<1>1. hi - lo \in S
  OBVIOUS
<1>2. PICK n \in S : \A k \in S : n <= k
  BY <1>1, LeastNat
<1>3. lo + n \in lo .. hi /\ (lo + n = hi \/ (lo + n) + 1 \notin F)
  BY <1>2
<1>4. lo + n \in F
  <2>1. CASE n = 0
    BY <2>1
  <2>2. CASE n # 0
    <3>1. n - 1 \in Nat /\ n - 1 \notin S
      BY <1>2, <2>2
    <3>2. lo + (n - 1) <= hi /\ lo + (n - 1) # hi /\ (lo + (n - 1)) + 1 = lo + n
      BY <1>2, <2>2
    <3> QED
      BY <3>1, <3>2
  <2> QED
    BY <2>1, <2>2
<1> QED
  BY <1>3, <1>4

-----------------------------------------------------------------------------
(* Patterns.                                                               *)

\* What is left of each beginning of a sequence.
LEMMA LeftSteps ==
  ASSUME NEW S, NEW p \in Seq(S), NEW D
  PROVE  /\ Left(p, D) \in [0 .. Len(p) -> Seq(S)]
         /\ Left(p, D)[0] = <<>>
         /\ \A i \in 1 .. Len(p) :
               Left(p, D)[i] = IF i \in D THEN Left(p, D)[i - 1] ELSE Append(Left(p, D)[i - 1], p[i])
<1> DEFINE N == Len(p)
           Is(f) == f = [i \in 0 .. N |->
                           IF i = 0 THEN <<>> ELSE IF i \in D THEN f[i - 1] ELSE Append(f[i - 1], p[i])]
           F == [a \in (1 .. N) \X Seq(S) |-> IF a[1] \in D THEN a[2] ELSE Append(a[2], p[a[1]])]
           Steps(f) == Recursive(f, <<>>, N, F)
           Good(f) == f[0] = <<>> /\ \A i \in 1 .. N : f[i] = IF i \in D THEN f[i - 1] ELSE Append(f[i - 1], p[i])
<1>1. N \in Nat /\ <<>> \in Seq(S)
  OBVIOUS
<1>2. F \in [(1 .. N) \X Seq(S) -> Seq(S)]
  <2>1. ASSUME NEW a \in (1 .. N) \X Seq(S)
        PROVE  (IF a[1] \in D THEN a[2] ELSE Append(a[2], p[a[1]])) \in Seq(S)
    <3>1. a[1] \in 1 .. N /\ a[2] \in Seq(S) /\ p[a[1]] \in S
      OBVIOUS
    <3>2. Append(a[2], p[a[1]]) \in Seq(S)
      BY <3>1
    <3> QED
      BY <3>1, <3>2
  <2> QED
    BY <2>1
<1>3. \E f \in [0 .. N -> Seq(S)] : Steps(f)
  <2> DEFINE V == Seq(S)
           v == <<>>
  <2>1. v \in V /\ N \in Nat /\ F \in [(1 .. N) \X V -> V]
    BY <1>1, <1>2
  <2> HIDE DEF F, N, V, v
  <2>2. \E f \in [0 .. N -> V] : Recursive(f, v, N, F)
    BY <2>1, RecursionExists
  <2> QED
    BY <2>2, Zenon DEF V, v
<1>4. PICK f \in [0 .. N -> Seq(S)] : Steps(f)
  BY <1>3
<1>5. Is(f)
  <2>1. ASSUME NEW i \in 0 .. N
        PROVE  f[i] = IF i = 0 THEN <<>> ELSE IF i \in D THEN f[i - 1] ELSE Append(f[i - 1], p[i])
    <3>1. CASE i = 0
      BY <1>4, <3>1 DEF Recursive
    <3>2. CASE i # 0
      <4>1. i \in 1 .. N /\ f[i - 1] \in Seq(S)
        BY <3>2, <1>1, <1>4
      <4>2. <<i, f[i - 1]>> \in (1 .. N) \X Seq(S)
        BY <4>1
      <4>3. F[<<i, f[i - 1]>>] = IF i \in D THEN f[i - 1] ELSE Append(f[i - 1], p[i])
        BY <4>2
      <4>4. f[i] = F[<<i, f[i - 1]>>]
        BY <1>4, <4>1 DEF Recursive
      <4> QED
        BY <3>2, <4>3, <4>4
    <3> QED
      BY <3>1, <3>2
  <2> HIDE DEF N
  <2> QED
    BY <2>1, <1>4
<1>6. Left(p, D) = CHOOSE g : Is(g)
  BY DEF Left
<1> DEFINE L == Left(p, D)
<1>7. Is(L)
  <2> HIDE DEF Is
  <2> QED
    BY <1>5, <1>6
<1>8. Good(L)
  <2> DEFINE G == [i \in 0 .. N |->
                     IF i = 0 THEN <<>> ELSE IF i \in D THEN L[i - 1] ELSE Append(L[i - 1], p[i])]
  <2>1. L = G
    BY <1>7, Zenon
  <2>2. G[0] = <<>>
    BY <1>1
  <2>3. ASSUME NEW i \in 1 .. N
        PROVE  G[i] = IF i \in D THEN L[i - 1] ELSE Append(L[i - 1], p[i])
    <3>1. i \in 0 .. N /\ i # 0
      OBVIOUS
    <3> HIDE DEF L, N
    <3> QED
      BY <3>1
  <2>4. L[0] = G[0] /\ \A i \in 1 .. N : L[i] = G[i]
    <3> HIDE DEF L, N, G
    <3> QED
      BY <2>1
  <2> HIDE DEF L, N, G
  <2> QED
    BY <2>2, <2>3, <2>4
<1>9. \A i \in 0 .. N : L[i] \in Seq(S)
  <2> DEFINE T == {i \in Nat : i <= N => L[i] \in Seq(S)}
  <2>1. 0 \in T
    <3> HIDE DEF L
    <3> QED
      BY <1>1, <1>8
  <2>2. ASSUME NEW i \in Nat, i \in T PROVE i + 1 \in T
    <3> SUFFICES ASSUME i + 1 <= N PROVE L[i + 1] \in Seq(S)
      OBVIOUS
    <3>1. i + 1 \in 1 .. N /\ L[i] \in Seq(S) /\ p[i + 1] \in S /\ (i + 1) - 1 = i
      BY <2>2
    <3>2. L[i + 1] = IF i + 1 \in D THEN L[i] ELSE Append(L[i], p[i + 1])
      BY <1>8, <3>1
    <3>3. Append(L[i], p[i + 1]) \in Seq(S)
      BY <3>1
    <3> HIDE DEF L
    <3> QED
      BY <3>1, <3>2, <3>3
  <2>3. Nat \subseteq T
    <3> HIDE DEF T
    <3> QED
      BY <2>1, <2>2, NatSetInduction
  <2> QED
    BY <2>3
<1>10. L = [i \in 0 .. N |-> L[i]]
  <2> HIDE DEF L, N
  <2> QED
    BY <1>7
<1>11. L \in [0 .. N -> Seq(S)]
  <2> HIDE DEF L, N
  <2> QED
    BY <1>9, <1>10
<1> QED
  BY <1>8, <1>11
-----------------------------------------------------------------------------
\* What is left of a beginning begins what is left of the whole.
LEMMA LeftPrefix ==
  ASSUME NEW S, NEW p \in Seq(S), NEW D, NEW i \in 0 .. Len(p)
  PROVE  /\ Len(Left(p, D)[i]) <= Len(Left(p, D)[Len(p)])
         /\ \A k \in 1 .. Len(Left(p, D)[i]) : Left(p, D)[Len(p)][k] = Left(p, D)[i][k]
<1> DEFINE L == Left(p, D)
           Begins(j) == Len(L[i]) <= Len(L[j]) /\ \A k \in 1 .. Len(L[i]) : L[j][k] = L[i][k]
           T == {n \in Nat : i + n <= Len(p) => Begins(i + n)}
<1>1. \A j \in 0 .. Len(p) : L[j] \in Seq(S)
  BY LeftSteps
<1>2. 0 \in T
  <2>1. L[i] \in Seq(S) /\ i + 0 = i /\ Len(L[i]) \in Nat
    BY <1>1
  <2> HIDE DEF L
  <2> QED
    BY <2>1
<1>3. ASSUME NEW n \in Nat, n \in T PROVE n + 1 \in T
  <2> SUFFICES ASSUME i + (n + 1) <= Len(p) PROVE Begins(i + (n + 1))
    OBVIOUS
  <2> DEFINE j == i + n
  <2>1. j + 1 \in 1 .. Len(p) /\ j \in 0 .. Len(p) /\ (j + 1) - 1 = j /\ i + (n + 1) = j + 1
    OBVIOUS
  <2>2. L[j] \in Seq(S) /\ L[i] \in Seq(S)
    BY <1>1, <2>1
  <2>3. Begins(j)
    BY <1>3, <2>1
  <2>4. p[j + 1] \in S
    BY <2>1
  <2>5. L[j + 1] = IF j + 1 \in D THEN L[j] ELSE Append(L[j], p[j + 1])
    BY <2>1, LeftSteps
  <2> HIDE DEF L, j
  <2>6. Begins(j + 1)
    BY <2>2, <2>3, <2>4, <2>5
  <2> QED
    BY <2>1, <2>6
<1>4. Len(p) - i \in T
  <2> HIDE DEF T
  <2>1. Len(p) - i \in Nat
    OBVIOUS
  <2> QED
    BY <1>2, <1>3, <2>1, NatSetInduction
<1>5. i + (Len(p) - i) = Len(p)
  OBVIOUS
<1> QED
  BY <1>4, <1>5

\* A backslash makes the next character literal unless it is literal itself.
LEMMA EscapesStep ==
  ASSUME NEW p, NEW i \in Nat
  PROVE  Escapes(p, i + 1) <=> p[i + 1] = "bs" /\ ~Escapes(p, i)
<1> DEFINE B == Backslashes(p, i)
           C == Backslashes(p, i + 1)
<1>1. IsFiniteSet(B) /\ Cardinality(B) \in Nat
  <2>1. IsFiniteSet(1 .. i)
    BY FS_Interval
  <2>2. B \in SUBSET (1 .. i)
    BY DEF Backslashes
  <2> QED
    BY <2>1, <2>2, FS_Subset, FS_CardinalityType
<1>2. CASE p[i + 1] # "bs"
  <2>1. C = {}
    BY <1>2 DEF Backslashes
  <2>2. Cardinality(C) = 0
    BY <2>1, FS_EmptySet
  <2>3. ~(Cardinality(C) % 2 = 1)
    <3> HIDE DEF C
    <3> QED
      BY <2>2
  <2> QED
    BY <1>2, <2>3 DEF Escapes
<1>3. CASE p[i + 1] = "bs"
  <2>1. C = B \cup {i + 1} /\ i + 1 \notin B
    BY <1>3 DEF Backslashes
  <2>2. Cardinality(C) = Cardinality(B) + 1
    BY <1>1, <2>1, FS_AddElement
  <2> HIDE DEF B, C
  <2>3. Cardinality(C) % 2 = 1 <=> ~(Cardinality(B) % 2 = 1)
    BY <1>1, <2>2
  <2> QED
    BY <1>3, <2>3 DEF Escapes, B, C
<1> QED
  BY <1>2, <1>3

LEMMA EscapesNone == \A p : ~Escapes(p, 0)
<1> SUFFICES ASSUME NEW p PROVE ~Escapes(p, 0)
  OBVIOUS
<1>1. Backslashes(p, 0) = {}
  BY DEF Backslashes
<1> QED
  BY <1>1, FS_EmptySet DEF Escapes

\* The escapes of a pattern, and the backslashes before a delimiter that go.
EscapesOf(p) == {i \in DOMAIN p : Escapes(p, i)}
DelimiterEscapes(p) == {i \in DOMAIN p : Escapes(p, i) /\ i < Len(p) /\ p[i + 1] = "/"}

\* What the first n characters of w say is what the first i of p say, and the
\* next one is literal in both or in neither, unless i is left out of w.
SaysSame(p, i, w, n) ==
  /\ Left(w, EscapesOf(w))[n] = Left(p, EscapesOf(p))[i]
  /\ i \in DelimiterEscapes(p) => ~Escapes(w, n)
  /\ i \notin DelimiterEscapes(p) => (Escapes(w, n) <=> Escapes(p, i))

LEMMA SaysSameStep ==
  ASSUME NEW p \in Pattern, NEW w \in Pattern, NEW i \in Nat, NEW n \in Nat, SaysSame(p, i, w, n),
         i + 1 \in 1 .. Len(p), i + 1 \notin DelimiterEscapes(p),
         n + 1 \in 1 .. Len(w), w[n + 1] = p[i + 1]
  PROVE  SaysSame(p, i + 1, w, n + 1)
<1> DEFINE S == {"-", "/", "bs"}
           L == Left(p, EscapesOf(p))
           M == Left(w, EscapesOf(w))
<1>1. p \in Seq(S) /\ w \in Seq(S) /\ i + 1 \in DOMAIN p /\ n + 1 \in DOMAIN w
  BY DEF Pattern
<1>2. /\ Escapes(w, n + 1) <=> w[n + 1] = "bs" /\ ~Escapes(w, n)
      /\ Escapes(p, i + 1) <=> p[i + 1] = "bs" /\ ~Escapes(p, i)
  BY EscapesStep
<1>3. Escapes(w, n + 1) <=> Escapes(p, i + 1)
  <2>1. CASE i \in DelimiterEscapes(p)
    BY <1>2, <2>1 DEF DelimiterEscapes
  <2>2. CASE i \notin DelimiterEscapes(p)
    BY <1>2, <2>2 DEF SaysSame
  <2> QED
    BY <2>1, <2>2
<1>4. n + 1 \in EscapesOf(w) <=> i + 1 \in EscapesOf(p)
  BY <1>1, <1>3 DEF EscapesOf
<1>5. /\ L[i + 1] = IF i + 1 \in EscapesOf(p) THEN L[(i + 1) - 1] ELSE Append(L[(i + 1) - 1], p[i + 1])
      /\ M[n + 1] = IF n + 1 \in EscapesOf(w) THEN M[(n + 1) - 1] ELSE Append(M[(n + 1) - 1], w[n + 1])
  BY <1>1, LeftSteps
<1>6. (i + 1) - 1 = i /\ (n + 1) - 1 = n /\ M[n] = L[i]
  BY DEF SaysSame
<1>7. M[n + 1] = L[i + 1]
  <2> HIDE DEF M, L
  <2> QED
    BY <1>4, <1>5, <1>6
<1> QED
  BY <1>3, <1>7 DEF SaysSame

LEMMA SaysSameSkip ==
  ASSUME NEW p \in Pattern, NEW w \in Pattern, NEW i \in Nat, NEW n \in Nat, SaysSame(p, i, w, n),
         i + 1 \in DelimiterEscapes(p)
  PROVE  SaysSame(p, i + 1, w, n)
<1> DEFINE L == Left(p, EscapesOf(p))
<1>1. p \in Seq({"-", "/", "bs"}) /\ i + 1 \in 1 .. Len(p) /\ i + 1 \in EscapesOf(p)
  BY DEF Pattern, DelimiterEscapes, EscapesOf
<1>2. p[i + 1] = "bs" /\ ~Escapes(p, i)
  BY EscapesStep DEF DelimiterEscapes
<1>3. L[i + 1] = L[(i + 1) - 1] /\ (i + 1) - 1 = i
  BY <1>1, LeftSteps
<1>4. ~Escapes(w, n)
  BY <1>2 DEF SaysSame, DelimiterEscapes
<1> QED
  BY <1>3, <1>4 DEF SaysSame

\* Taking a backslash off the delimiters changes neither what a pattern matches
\* nor whether it compiles.
LEMMA UnescapeKeepsPattern ==
  ASSUME NEW p \in Pattern
  PROVE  LET w == UnescapeConditionDelimiter(p)
         IN  Literal(w) = Literal(p) /\ (Compiles(w) <=> Compiles(p))
<1> DEFINE S == {"-", "/", "bs"}
           D == DelimiterEscapes(p)
           U == Left(p, D)
           N == Len(p)
           w == U[N]
           T == {i \in Nat : i <= N => SaysSame(p, i, w, Len(U[i]))}
<1>1. p \in Seq(S) /\ N \in Nat
  BY DEF Pattern
<1>2. /\ \A i \in 0 .. N : U[i] \in Seq(S)
      /\ U[0] = <<>>
      /\ \A i \in 1 .. N : U[i] = IF i \in D THEN U[i - 1] ELSE Append(U[i - 1], p[i])
  BY <1>1, LeftSteps
<1>3. w \in Pattern /\ w \in Seq(S)
  BY <1>1, <1>2 DEF Pattern
<1>4. 0 \in T
  <2>1. Left(w, EscapesOf(w))[0] = <<>> /\ Left(p, EscapesOf(p))[0] = <<>>
    BY <1>1, <1>3, LeftSteps
  <2>2. SaysSame(p, 0, w, 0)
    BY <2>1, EscapesNone DEF SaysSame
  <2>3. Len(U[0]) = 0
    BY <1>2
  <2> HIDE DEF U, w
  <2> QED
    BY <2>2, <2>3
<1>5. ASSUME NEW i \in Nat, i \in T PROVE i + 1 \in T
  <2> SUFFICES ASSUME i + 1 <= N PROVE SaysSame(p, i + 1, w, Len(U[i + 1]))
    OBVIOUS
  <2>1. i + 1 \in 1 .. N /\ (i + 1) - 1 = i /\ i \in 0 .. N /\ i + 1 \in 0 .. N
    BY <1>1
  <2>2. SaysSame(p, i, w, Len(U[i])) /\ U[i] \in Seq(S) /\ Len(U[i]) \in Nat
    BY <1>2, <1>5, <2>1
  <2>3. CASE i + 1 \in D
    <3>1. U[i + 1] = U[i]
      BY <1>2, <2>1, <2>3
    <3> QED
      BY <1>3, <2>2, <2>3, <3>1, SaysSameSkip
  <2>4. CASE i + 1 \notin D
    <3> DEFINE n == Len(U[i])
    <3>0. U[i + 1] = IF i + 1 \in D THEN U[(i + 1) - 1] ELSE Append(U[(i + 1) - 1], p[i + 1])
      <4> HIDE DEF U, D, N
      <4> QED
        BY <1>2, <2>1
    <3>1. U[i + 1] = Append(U[i], p[i + 1]) /\ p[i + 1] \in S
      <4>1. p[i + 1] \in S
        BY <1>1, <2>1
      <4> HIDE DEF U, D, S
      <4> QED
        BY <2>1, <2>4, <3>0, <4>1
    <3>2. Len(U[i + 1]) = n + 1 /\ U[i + 1][n + 1] = p[i + 1]
      <4> HIDE DEF U
      <4> QED
        BY <2>2, <3>1
    <3>3. n + 1 <= Len(w) /\ w[n + 1] = U[i + 1][n + 1]
      <4>1. /\ Len(U[i + 1]) <= Len(w)
            /\ \A k \in 1 .. Len(U[i + 1]) : w[k] = U[i + 1][k]
        BY <1>1, <2>1, LeftPrefix
      <4>2. n + 1 \in 1 .. Len(U[i + 1])
        BY <2>2, <3>2
      <4> QED
        BY <3>2, <4>1, <4>2
    <3>4. n + 1 \in 1 .. Len(w)
      BY <1>3, <2>2, <3>3
    <3>5. w[n + 1] = p[i + 1]
      BY <3>2, <3>3
    <3> HIDE DEF w, n, D
    <3>6. SaysSame(p, i + 1, w, n + 1)
      BY <1>3, <2>1, <2>2, <2>4, <3>4, <3>5, SaysSameStep DEF n, D
    <3> QED
      BY <3>2, <3>6
  <2> QED
    BY <2>3, <2>4
<1>6. N \in T
  <2> HIDE DEF T
  <2> QED
    BY <1>1, <1>4, <1>5, NatSetInduction
<1>7. N \notin D /\ UnescapeConditionDelimiter(p) = w
  BY <1>1 DEF DelimiterEscapes, UnescapeConditionDelimiter
<1>8. SaysSame(p, N, w, Len(w))
  BY <1>1, <1>6
<1>9. Literal(w) = Literal(p) /\ (Escapes(w, Len(w)) <=> Escapes(p, N))
  <2> HIDE DEF w, N
  <2> QED
    BY <1>7, <1>8 DEF SaysSame, Literal, EscapesOf, N
<1>10. \A q : q = <<>> => ~Escapes(q, Len(q))
  BY EscapesNone
<1>11. Compiles(w) <=> Compiles(p)
  <2> HIDE DEF w
  <2> QED
    BY <1>9, <1>10 DEF Compiles
<1> QED
  BY <1>7, <1>9, <1>11

-----------------------------------------------------------------------------
(* Comparisons and the conditions that shorthands stand for.               *)

Operators == {"eq", "ne", "lt", "lte", "gt", "gte"}

LEMMA Compares ==
  ASSUME NEW a \in Value, NEW b \in Value, NEW op \in Operators
  PROVE  CompareNumeric(a, b, op) \in BOOLEAN
<1>1. a.n \in Int /\ b.n \in Int
  BY DEF Value
<1>2. CASE NaN \in {a, b}
  BY <1>2 DEF CompareNumeric
<1>3. CASE NaN \notin {a, b}
  <2>1. /\ op = "eq" => CompareNumeric(a, b, op) = (a.n = b.n)
        /\ op = "ne" => CompareNumeric(a, b, op) = (a.n # b.n)
    BY <1>3, Zenon DEF CompareNumeric
  <2>2. /\ op = "lt" => CompareNumeric(a, b, op) = (a.n < b.n)
        /\ op = "lte" => CompareNumeric(a, b, op) = (a.n <= b.n)
    BY <1>3, Zenon DEF CompareNumeric
  <2>3. /\ op = "gt" => CompareNumeric(a, b, op) = (a.n > b.n)
        /\ op = "gte" => CompareNumeric(a, b, op) = (a.n >= b.n)
    BY <1>3, Zenon DEF CompareNumeric
  <2>4. (a.n < b.n) \in BOOLEAN /\ (a.n <= b.n) \in BOOLEAN /\ (a.n > b.n) \in BOOLEAN /\ (a.n >= b.n) \in BOOLEAN
    BY <1>1
  <2>5. (a.n = b.n) \in BOOLEAN /\ (a.n # b.n) \in BOOLEAN
    OBVIOUS
  <2> QED
    BY <2>1, <2>2, <2>3, <2>4, <2>5, Zenon DEF Operators
<1> QED
  BY <1>2, <1>3

LEMMA ComparesOpposite ==
  ASSUME NEW a \in Value, NEW b \in Value, NEW op \in Operators, NaN \notin {a, b}
  PROVE  /\ Opposite[op] \in Operators
         /\ CompareNumeric(a, b, Opposite[op]) <=> ~CompareNumeric(a, b, op)
         /\ Opposite[op] \in {"eq", "ne"} <=> op \in {"eq", "ne"}
         /\ Opposite[op] = "ne" <=> op = "eq"
         /\ Opposite[op] = "eq" <=> op = "ne"
<1>1. a.n \in Int /\ b.n \in Int
  BY DEF Value
<1>2. CASE op = "eq"
  BY <1>1, <1>2 DEF Operators, Opposite, CompareNumeric
<1>3. CASE op = "ne"
  BY <1>1, <1>3 DEF Operators, Opposite, CompareNumeric
<1>4. CASE op = "lt"
  BY <1>1, <1>4 DEF Operators, Opposite, CompareNumeric
<1>5. CASE op = "lte"
  BY <1>1, <1>5 DEF Operators, Opposite, CompareNumeric
<1>6. CASE op = "gt"
  BY <1>1, <1>6 DEF Operators, Opposite, CompareNumeric
<1>7. CASE op = "gte"
  BY <1>1, <1>7 DEF Operators, Opposite, CompareNumeric
<1> QED
  BY <1>2, <1>3, <1>4, <1>5, <1>6, <1>7 DEF Operators

\* The condition a shorthand or a structured condition stands for.
Meant(given) == IF given.form = "structured" THEN given.cond ELSE CoerceCondition(given)
AcceptedCondition(given, form) == ~FormRefused(form) /\ (given.form # "structured" => Recognised(given))
IsCondition(c) == DOMAIN c = DOMAIN Always /\ c.value \in Value /\ c.negate \in BOOLEAN

LEMMA AlwaysFields ==
  /\ IsCondition(Always)
  /\ DOMAIN Always = {"kind", "op", "value", "path", "extract", "regex", "stream", "negate"}
  /\ Always.negate = FALSE /\ Always.op = "" /\ Always.path = "" /\ Always.kind = "always"
BY DEF Always, NoValue, Value, IsCondition

\* The fields of a coerced condition, by the form it was written in.
LEMMA CoercedExit ==
  ASSUME NEW g, g.form = "exit", g.value \in Value
  PROVE  LET c == CoerceCondition(g)
         IN  /\ IsCondition(c)
             /\ c.kind = "exitCode" /\ c.op = g.op /\ c.value = g.value
             /\ c.negate = FALSE /\ Unused(c, Places)
<1> DEFINE c == [Always EXCEPT !.kind = "exitCode", !.op = g.op, !.value = g.value]
<1>1. CoerceCondition(g) = c
  BY DEF CoerceCondition
<1>2. /\ DOMAIN c = DOMAIN Always /\ c.kind = "exitCode" /\ c.op = g.op /\ c.value = g.value
      /\ c.negate = Always.negate
  BY AlwaysFields
<1>3. c.path = Always.path /\ c.extract = Always.extract /\ c.regex = Always.regex /\ c.stream = Always.stream
  BY AlwaysFields
<1> HIDE DEF c
<1>4. Unused(c, Places)
  BY <1>3 DEF Unused, Places
<1> QED
  BY <1>1, <1>2, <1>4, AlwaysFields DEF IsCondition

LEMMA CoercedFile ==
  ASSUME NEW g, g.form = "file"
  PROVE  LET c == CoerceCondition(g)
         IN  /\ IsCondition(c)
             /\ c.kind = "fileExists" /\ c.path = g.path
             /\ c.negate = (g.op = "missing") /\ Unused(c, (Comparison \cup Places) \ {"path"})
<1> DEFINE c == [Always EXCEPT !.kind = "fileExists", !.path = g.path, !.negate = g.op = "missing"]
<1>1. CoerceCondition(g) = c
  BY DEF CoerceCondition
<1>2. /\ DOMAIN c = DOMAIN Always /\ c.kind = "fileExists" /\ c.path = g.path
      /\ c.value = Always.value
  BY AlwaysFields
<1>3. c.negate = (g.op = "missing")
  BY AlwaysFields
<1>4. c.op = Always.op /\ c.extract = Always.extract /\ c.regex = Always.regex /\ c.stream = Always.stream
  BY AlwaysFields
<1>5. (g.op = "missing") \in BOOLEAN
  OBVIOUS
<1> HIDE DEF c
<1>6. Unused(c, (Comparison \cup Places) \ {"path"})
  BY <1>2, <1>4 DEF Unused, Places, Comparison
<1> QED
  BY <1>1, <1>2, <1>3, <1>5, <1>6, AlwaysFields, Zenon DEF IsCondition

LEMMA CoercedStream ==
  ASSUME NEW g, g.form = "stream"
  PROVE  LET c == CoerceCondition(g)
         IN  /\ IsCondition(c)
             /\ c.kind = "match" /\ c.stream = g.stream /\ c.regex = UnescapeConditionDelimiter(g.regex)
             /\ c.negate = (g.op = "!~") /\ Unused(c, (Comparison \cup Places) \ {"regex", "stream"})
<1> DEFINE w == UnescapeConditionDelimiter(g.regex)
           c == [Always EXCEPT !.kind = "match", !.stream = g.stream, !.regex = w, !.negate = g.op = "!~"]
<1>1. CoerceCondition(g) = c
  BY DEF CoerceCondition
<1> HIDE DEF w
<1>2. /\ DOMAIN c = DOMAIN Always /\ c.kind = "match" /\ c.stream = g.stream /\ c.regex = w
      /\ c.value = Always.value
  BY AlwaysFields
<1>3. c.negate = (g.op = "!~")
  BY AlwaysFields
<1>4. c.op = Always.op /\ c.extract = Always.extract /\ c.path = Always.path
  BY AlwaysFields
<1>5. (g.op = "!~") \in BOOLEAN
  OBVIOUS
<1> HIDE DEF c
<1>6. Unused(c, (Comparison \cup Places) \ {"regex", "stream"})
  BY <1>2, <1>4 DEF Unused, Places, Comparison
<1> QED
  BY <1>1, <1>2, <1>3, <1>5, <1>6, AlwaysFields, Zenon DEF IsCondition, w
-----------------------------------------------------------------------------
LEMMA CoercedAlways == ASSUME NEW g, g.form = "always" PROVE CoerceCondition(g) = Always
BY DEF CoerceCondition

\* What CondAssumption says of a condition given.
LEMMA GivenFields ==
  ASSUME NEW g \in CondGiven
  PROVE  /\ g.form = "structured" => IsCondition(g.cond)
         /\ g.form # "structured" =>
               /\ g.form \in {"always", "exit", "stream", "file"}
               /\ g.value \in Value /\ g.regex \in Pattern
               /\ g.form = "exit" => NumericPlanValue(g.value, TRUE)
BY CondAssumption DEF IsCondition, NumericPlanValue

LEMMA MeantIsCondition == \A g \in CondGiven : IsCondition(Meant(g))
<1> SUFFICES ASSUME NEW g \in CondGiven PROVE IsCondition(Meant(g))
  OBVIOUS
<1>1. CASE g.form = "structured"
  BY <1>1, GivenFields DEF Meant
<1>2. CASE g.form # "structured"
  <2>1. IsCondition(CoerceCondition(g))
    BY <1>2, GivenFields, CoercedAlways, CoercedExit, CoercedFile, CoercedStream, AlwaysFields
  <2> QED
    BY <1>2, <2>1 DEF Meant
<1> QED
  BY <1>1, <1>2

\* Every shorthand that is recognised and whose pattern compiles is valid.
LEMMA ShorthandValid ==
  ASSUME NEW g \in CondGiven, Recognised(g), ~ValidCondition(Meant(g))
  PROVE  ~Compiles(g.regex)
<1>1. g.form \in {"always", "exit", "stream", "file"} /\ Meant(g) = CoerceCondition(g)
  BY DEF Recognised, Meant
<1> DEFINE c == CoerceCondition(g)
<1>2. ~ValidCondition(c)
  BY <1>1
<1>3. CASE g.form = "always"
  <2>1. c = Always
    BY <1>3, CoercedAlways
  <2>2. ValidCondition(Always)
    BY AlwaysFields DEF ValidCondition, Unused
  <2> QED
    BY <1>2, <2>1, <2>2
<1>4. CASE g.form = "exit"
  <2>1. /\ c.kind = "exitCode" /\ c.op = g.op /\ c.value = g.value /\ Unused(c, Places)
    BY <1>4, GivenFields, CoercedExit
  <2>2. ValidPlanOperator(g.op) /\ NumericPlanValue(g.value, TRUE)
    BY <1>4, GivenFields DEF Recognised, ValidPlanOperator
  <2> HIDE DEF c
  <2> QED
    BY <1>2, <2>1, <2>2 DEF ValidCondition
<1>5. CASE g.form = "file"
  <2>1. /\ c.kind = "fileExists" /\ c.path = g.path /\ Unused(c, (Comparison \cup Places) \ {"path"})
    BY <1>5, CoercedFile
  <2>2. g.path # ""
    BY <1>5 DEF Recognised
  <2> HIDE DEF c
  <2> QED
    BY <1>2, <2>1, <2>2 DEF ValidCondition
<1>6. CASE g.form = "stream"
  <2>1. /\ c.kind = "match" /\ c.stream = g.stream /\ c.regex = UnescapeConditionDelimiter(g.regex)
        /\ Unused(c, (Comparison \cup Places) \ {"regex", "stream"})
    BY <1>6, CoercedStream
  <2>2. g.stream \in {"stdout", "stderr"}
    BY <1>6 DEF Recognised
  <2>3. Compiles(c.regex) <=> Compiles(g.regex)
    <3>1. g.regex \in Pattern
      BY <1>6, GivenFields
    <3>2. Compiles(UnescapeConditionDelimiter(g.regex)) <=> Compiles(g.regex)
      BY <3>1, UnescapeKeepsPattern
    <3> HIDE DEF c
    <3> QED
      BY <2>1, <3>2
  <2> HIDE DEF c
  <2> QED
    BY <1>2, <2>1, <2>2, <2>3 DEF ValidCondition
<1> QED
  BY <1>1, <1>3, <1>4, <1>5, <1>6

\* When there is nothing in the other stream, the one named is what is searched.
LEMMA StreamNamed ==
  ASSUME NEW last \in CondResults, NEW stream \in {"stdout", "stderr"}, Alone(last, stream)
  PROVE  Stream(last) = Named(last, stream)
<1> DEFINE a == last.stdout.chars
           b == last.stderr.chars
<1>1. a \in Seq({"-", "/", "bs"}) /\ b \in Seq({"-", "/", "bs"})
  BY CondAssumption DEF Pattern
<1>2. \A s \in Seq({"-", "/", "bs"}) : s \o <<>> = s /\ <<>> \o s = s
  OBVIOUS
<1>3. CASE ~HasStreams(last)
  BY <1>3 DEF Stream, Named
<1>4. CASE HasStreams(last) /\ stream = "stdout"
  <2>1. b = <<>> /\ Named(last, stream) = a /\ Stream(last) = a \o b
    BY <1>4 DEF Alone, Stream, Named
  <2> HIDE DEF a, b
  <2> QED
    BY <1>1, <1>2, <2>1
<1>5. CASE HasStreams(last) /\ stream = "stderr"
  <2>1. a = <<>> /\ Named(last, stream) = b /\ Stream(last) = a \o b
    BY <1>5 DEF Alone, Stream, Named
  <2> HIDE DEF a, b
  <2> QED
    BY <1>1, <1>2, <2>1
<1> QED
  BY <1>3, <1>4, <1>5

\* A shorthand says what its text says.
LEMMA ShorthandSays ==
  ASSUME NEW g \in CondGiven, Recognised(g), NEW last \in CondResults, NEW file,
         g.form = "stream" => Alone(last, g.stream)
  PROVE  Evaluated(last, file, Meant(g)) = Says(g, last, file)
<1>1. g.form \in {"always", "exit", "stream", "file"} /\ Meant(g) = CoerceCondition(g)
  BY DEF Recognised, Meant
<1> DEFINE c == CoerceCondition(g)
           H == Holds(last, file, c)
<1>2. c.kind \notin {"numeric", "jsonPath"} => Evaluated(last, file, c) = (H # c.negate)
  <2> HIDE DEF c
  <2> QED
    BY Zenon DEF Evaluated, Unreadable, NegateCondition
<1>3. CASE g.form = "always"
  <2>1. c = Always
    BY <1>3, CoercedAlways
  <2>2. Holds(last, file, Always) = TRUE
    BY AlwaysFields DEF Holds
  <2>3. Says(g, last, file) = TRUE
    BY <1>3 DEF Says
  <2> QED
    BY <1>1, <1>2, <2>1, <2>2, <2>3, AlwaysFields
<1>4. CASE g.form = "exit"
  <2>1. c.kind = "exitCode" /\ c.op = g.op /\ c.value = g.value /\ c.negate = FALSE
    BY <1>4, GivenFields, CoercedExit
  <2>2. Says(g, last, file) = CompareNumeric(last.exit, g.value, g.op)
    BY <1>4 DEF Says
  <2>3. H = CompareNumeric(last.exit, g.value, g.op)
    <3> HIDE DEF c
    <3> QED
      BY <2>1 DEF Holds
  <2>4. CompareNumeric(last.exit, g.value, g.op) \in BOOLEAN
    BY <1>4, GivenFields, CondAssumption, Compares DEF Recognised, Operators
  <2> QED
    BY <1>1, <1>2, <2>1, <2>2, <2>3, <2>4
<1>5. CASE g.form = "file"
  <2>1. c.kind = "fileExists" /\ c.negate = (g.op = "missing")
    BY <1>5, CoercedFile
  <2>2. Says(g, last, file) = ((file = "exists") = (g.op = "exists"))
    BY <1>5 DEF Says
  <2>3. H = (file = "exists")
    <3> HIDE DEF c
    <3> QED
      BY <2>1 DEF Holds
  <2>4. g.op = "exists" <=> ~(g.op = "missing")
    BY <1>5 DEF Recognised
  <2> QED
    BY <1>1, <1>2, <2>1, <2>2, <2>3, <2>4
<1>6. CASE g.form = "stream"
  <2> DEFINE M == MatchesPattern(g.regex, Stream(last))
  <2>0. Stream(last) = Named(last, g.stream)
    BY <1>6, StreamNamed DEF Recognised
  <2>1. c.kind = "match" /\ c.negate = (g.op = "!~") /\ c.regex = UnescapeConditionDelimiter(g.regex)
    BY <1>6, CoercedStream
  <2>2. Says(g, last, file) = (M = (g.op = "=~"))
    BY <1>6, <2>0 DEF Says
  <2>3. Literal(c.regex) = Literal(g.regex)
    BY <1>6, <2>1, GivenFields, UnescapeKeepsPattern
  <2>4. H = M
    <3>1. H = MatchesPattern(c.regex, Stream(last))
      <4> HIDE DEF c
      <4> QED
        BY <2>1 DEF Holds
    <3>2. MatchesPattern(c.regex, Stream(last)) = M
      <4> HIDE DEF c
      <4> QED
        BY <2>3, Zenon DEF MatchesPattern
    <3> QED
      BY <3>1, <3>2
  <2>5. g.op = "=~" <=> ~(g.op = "!~")
    BY <1>6 DEF Recognised
  <2>6. M \in BOOLEAN
    BY DEF MatchesPattern
  <2> HIDE DEF M
  <2> QED
    BY <1>1, <1>2, <2>1, <2>2, <2>4, <2>5, <2>6
<1> QED
  BY <1>1, <1>3, <1>4, <1>5, <1>6
-----------------------------------------------------------------------------
\* Validation lets only known kinds pass, and an evaluation of such a condition
\* fails only on its path.
LEMMA ValidFails ==
  ASSUME NEW c, ValidCondition(c), NEW file, EvaluationFails(file, c)
  PROVE  c.kind = "fileExists" /\ file = "denied"
<1>1. c.kind \in {"always", "exitCode", "fileExists", "match", "numeric", "jsonPath"}
  BY DEF ValidCondition
<1>2. c.kind = "exitCode" => NumericPlanValue(c.value, TRUE)
  BY DEF ValidCondition
<1>3. c.kind = "numeric" => NumericPlanValue(c.value, FALSE)
  BY DEF ValidCondition
<1>4. c.kind = "match" => Compiles(c.regex)
  BY DEF ValidCondition
<1> QED
  BY <1>1, <1>2, <1>3, <1>4, Zenon DEF EvaluationFails

\* What a valid condition with an operator compares, and one without.
LEMMA ValidComparison ==
  ASSUME NEW c, ValidCondition(c)
  PROVE  /\ c.kind \in {"always", "exitCode", "fileExists", "match", "numeric", "jsonPath"}
         /\ ValidPlanOperator(c.op) <=> c.kind \in {"exitCode", "numeric", "jsonPath"}
         /\ c.kind \in {"exitCode", "numeric"} => c.value.type = "number"
         /\ c.kind = "jsonPath" /\ c.op \notin {"eq", "ne"} => c.value.type = "number"
<1>1. c.kind \in {"always", "exitCode", "fileExists", "match", "numeric", "jsonPath"}
  BY DEF ValidCondition
<1>2. CASE c.kind \in {"always", "fileExists", "match"}
  <2>1. /\ c.kind = "always" => Unused(c, Comparison \cup Places)
        /\ c.kind = "fileExists" => Unused(c, (Comparison \cup Places) \ {"path"})
        /\ c.kind = "match" => Unused(c, (Comparison \cup Places) \ {"regex", "stream"})
    BY DEF ValidCondition
  <2>2. c.op = Always.op
    BY <1>2, <2>1 DEF Unused, Comparison, Places
  <2> QED
    BY <1>2, <2>2, AlwaysFields DEF ValidPlanOperator
<1>3. CASE c.kind = "exitCode"
  BY <1>3 DEF ValidCondition, NumericPlanValue
<1>4. CASE c.kind = "numeric"
  BY <1>4 DEF ValidCondition, NumericPlanValue
<1>5. CASE c.kind = "jsonPath"
  BY <1>5 DEF ValidCondition, JsonOperand, NumericPlanValue
<1> QED
  BY <1>1, <1>2, <1>3, <1>4, <1>5

\* The values that are compared are values, and the exit code is a number.
LEMMA OperandType ==
  ASSUME NEW last \in CondResults, NEW c
  PROVE  /\ last.exit \in Value /\ last.exit.type = "number"
         /\ Operand(last, c) \in Value /\ Leaf(last, c) \in Value
<1>1. NoValue \in Value
  BY DEF NoValue, Value
<1>2. Raw(last) \in {last.stdout, last.result}
  BY DEF Raw
<1>3. /\ Raw(last).number \in Value /\ Raw(last).found \in Value
      /\ \A leaf \in DOMAIN Raw(last).json : Raw(last).json[leaf] \in Value
  BY <1>2, CondAssumption, Zenon
<1>4. Operand(last, c) \in Value
  BY <1>3, Zenon DEF Operand
<1>5. Leaf(last, c) \in Value
  BY <1>1, <1>3, Zenon DEF Leaf
<1> QED
  BY <1>4, <1>5, CondAssumption

\* Of two kinds of conditions on JSON one compares numbers.
Numbers(last, c) == Leaf(last, c).type = "number" /\ c.value.type = "number"

LEMMA HoldsBoolean ==
  ASSUME NEW last \in CondResults, NEW file, NEW c, IsCondition(c), ValidCondition(c)
  PROVE  Holds(last, file, c) \in BOOLEAN
<1> DEFINE H == Holds(last, file, c)
<1>1. c.kind \in {"always", "exitCode", "fileExists", "match", "numeric", "jsonPath"}
  BY ValidComparison
<1>2. CASE c.kind = "always"
  BY <1>2 DEF Holds
<1>3. CASE c.kind = "fileExists"
  BY <1>3, Zenon DEF Holds
<1>4. CASE c.kind = "match"
  <2>1. MatchesPattern(c.regex, Stream(last)) \in BOOLEAN
    BY DEF MatchesPattern
  <2>2. H = MatchesPattern(c.regex, Stream(last))
    BY <1>4 DEF Holds
  <2> HIDE DEF H
  <2> QED
    BY <2>1, <2>2 DEF H
<1>5. CASE c.kind \in {"exitCode", "numeric", "jsonPath"}
  <2>1. c.op \in Operators /\ c.value \in Value
    BY <1>5, ValidComparison DEF Operators, ValidPlanOperator, IsCondition
  <2>2. /\ CompareNumeric(last.exit, c.value, c.op) \in BOOLEAN
        /\ CompareNumeric(Operand(last, c), c.value, c.op) \in BOOLEAN
        /\ CompareNumeric(Leaf(last, c), c.value, c.op) \in BOOLEAN
    BY <2>1, OperandType, Compares
  <2>3. ((Leaf(last, c) = c.value) # (c.op = "ne")) \in BOOLEAN
    OBVIOUS
  <2>4. /\ c.kind = "exitCode" => H = CompareNumeric(last.exit, c.value, c.op)
        /\ c.kind = "numeric" => H = CompareNumeric(Operand(last, c), c.value, c.op)
        /\ c.kind = "jsonPath" /\ Numbers(last, c) => H = CompareNumeric(Leaf(last, c), c.value, c.op)
        /\ c.kind = "jsonPath" /\ ~Numbers(last, c) => H = ((Leaf(last, c) = c.value) # (c.op = "ne"))
    <3>1. c.kind = "exitCode" => H = CompareNumeric(last.exit, c.value, c.op)
      BY DEF Holds
    <3>2. c.kind = "numeric" => H = CompareNumeric(Operand(last, c), c.value, c.op)
      BY DEF Holds
    <3>3. c.kind = "jsonPath" /\ Numbers(last, c) => H = CompareNumeric(Leaf(last, c), c.value, c.op)
      BY DEF Holds, Numbers
    <3>4. c.kind = "jsonPath" /\ ~Numbers(last, c) => H = ((Leaf(last, c) = c.value) # (c.op = "ne"))
      BY DEF Holds, Numbers, NegateCondition, JsonValueEqual
    <3> QED
      BY <3>1, <3>2, <3>3, <3>4
  <2> HIDE DEF H
  <2>5. H \in BOOLEAN
    <3>1. CASE c.kind = "exitCode"
      BY <2>2, <2>4, <3>1, Zenon
    <3>2. CASE c.kind = "numeric"
      BY <2>2, <2>4, <3>2, Zenon
    <3>3. CASE c.kind = "jsonPath" /\ Numbers(last, c)
      BY <2>2, <2>4, <3>3, Zenon
    <3>4. CASE c.kind = "jsonPath" /\ ~Numbers(last, c)
      BY <2>3, <2>4, <3>4
    <3> QED
      BY <1>5, <3>1, <3>2, <3>3, <3>4, Zenon
  <2> QED
    BY <2>5 DEF H
<1> QED
  BY <1>1, <1>2, <1>3, <1>4, <1>5

-----------------------------------------------------------------------------
\* A condition and its negation.
LEMMA NegatedFields ==
  ASSUME NEW c, IsCondition(c)
  PROVE  LET d == Negated(c)
         IN  /\ d.negate = ~c.negate
             /\ d.kind = c.kind /\ d.op = c.op /\ d.value = c.value /\ d.path = c.path
             /\ d.extract = c.extract /\ d.regex = c.regex
<1> USE AlwaysFields DEF IsCondition
<1> DEFINE d == [c EXCEPT !.negate = ~@]
<1>1. d.negate = ~c.negate
  OBVIOUS
<1>2. d.kind = c.kind /\ d.op = c.op /\ d.value = c.value
  OBVIOUS
<1>3. d.path = c.path /\ d.extract = c.extract /\ d.regex = c.regex
  OBVIOUS
<1> HIDE DEF d
<1> QED
  BY <1>1, <1>2, <1>3 DEF Negated, d

\* Evaluation looks at a condition by its fields.
LEMMA SameReading ==
  ASSUME NEW last, NEW file, NEW c, NEW d,
         d.kind = c.kind, d.op = c.op, d.value = c.value, d.path = c.path,
         d.extract = c.extract, d.regex = c.regex
  PROVE  /\ Unreadable(last, d) <=> Unreadable(last, c)
         /\ Holds(last, file, d) = Holds(last, file, c)
<1>1. Operand(last, d) = Operand(last, c) /\ Leaf(last, d) = Leaf(last, c)
  BY Zenon DEF Operand, Leaf
<1>2. Unreadable(last, d) <=> Unreadable(last, c)
  BY <1>1, Zenon DEF Unreadable
<1>3. Holds(last, file, d) = Holds(last, file, c)
  BY <1>1, Zenon DEF Holds
<1> QED
  BY <1>2, <1>3

LEMMA NegationDecides ==
  ASSUME NEW last \in CondResults, NEW file, NEW c, IsCondition(c), ValidCondition(c),
         ~Unreadable(last, c)
  PROVE  Evaluated(last, file, c) # Evaluated(last, file, Negated(c))
<1> DEFINE d == Negated(c)
           H == Holds(last, file, c)
<1>1. d.negate = ~c.negate /\ c.negate \in BOOLEAN
  BY NegatedFields DEF IsCondition
<1>2. ~Unreadable(last, d) /\ Holds(last, file, d) = H
  BY NegatedFields, SameReading
<1>3. H \in BOOLEAN
  BY HoldsBoolean
<1> HIDE DEF d, H
<1>4. Evaluated(last, file, c) <=> H # c.negate
  BY Zenon DEF Evaluated, NegateCondition, H
<1>5. Evaluated(last, file, d) <=> H # d.negate
  BY <1>2, Zenon DEF Evaluated, NegateCondition
<1>6. Evaluated(last, file, c) <=> ~Evaluated(last, file, d)
  BY <1>1, <1>3, <1>4, <1>5
<1>7. Evaluated(last, file, c) \in BOOLEAN /\ Evaluated(last, file, d) \in BOOLEAN
  BY Zenon DEF Evaluated
<1> QED
  BY <1>6, <1>7, Zenon DEF d
-----------------------------------------------------------------------------
\* A condition with an operator and the one with the opposite operator.
Turned(c) == [c EXCEPT !.op = Opposite[@]]

LEMMA TurnedFields ==
  ASSUME NEW c, IsCondition(c)
  PROVE  LET d == Turned(c)
         IN  /\ d.op = Opposite[c.op]
             /\ d.kind = c.kind /\ d.negate = c.negate /\ d.value = c.value /\ d.path = c.path
             /\ d.extract = c.extract
<1> USE AlwaysFields DEF IsCondition
<1> DEFINE d == [c EXCEPT !.op = Opposite[@]]
<1>1. d.op = Opposite[c.op]
  OBVIOUS
<1>2. d.kind = c.kind /\ d.negate = c.negate /\ d.value = c.value
  OBVIOUS
<1>3. d.path = c.path /\ d.extract = c.extract
  OBVIOUS
<1> HIDE DEF d
<1> QED
  BY <1>1, <1>2, <1>3 DEF Turned, d

LEMMA HoldsOpposite ==
  ASSUME NEW last \in CondResults, NEW file, NEW c, IsCondition(c), ValidCondition(c),
         ValidPlanOperator(c.op), ~Unreadable(last, c), ~IsNaN(last, c)
  PROVE  /\ ~Unreadable(last, Turned(c))
         /\ Holds(last, file, Turned(c)) <=> ~Holds(last, file, c)
         /\ Holds(last, file, Turned(c)) \in BOOLEAN
<1> DEFINE d == Turned(c)
<1>1. /\ d.op = Opposite[c.op] /\ d.kind = c.kind /\ d.value = c.value
      /\ d.path = c.path /\ d.extract = c.extract
  BY TurnedFields
<1>2. c.op \in Operators /\ c.value \in Value
  BY DEF Operators, ValidPlanOperator, IsCondition
<1>3. c.kind \in {"exitCode", "numeric", "jsonPath"}
  BY ValidComparison
<1> HIDE DEF d
<1>4. Operand(last, d) = Operand(last, c) /\ Leaf(last, d) = Leaf(last, c)
  BY <1>1, Zenon DEF Operand, Leaf
<1>5. Numbers(last, d) <=> Numbers(last, c)
  BY <1>1, <1>4, Zenon DEF Numbers
<1>6. \A a, b \in Value : a.type = "number" /\ b.type = "number" => NaN \notin {a, b}
  BY DEF NaN
<1>7. CASE c.kind = "exitCode"
  <2> DEFINE a == last.exit
  <2>1. a \in Value /\ NaN \notin {a, c.value}
    BY <1>2, <1>6, <1>7, OperandType, ValidComparison
  <2>2. CompareNumeric(a, c.value, d.op) <=> ~CompareNumeric(a, c.value, c.op)
    BY <1>1, <1>2, <2>1, ComparesOpposite
  <2>3. Holds(last, file, c) <=> CompareNumeric(a, c.value, c.op)
    BY <1>7 DEF Holds
  <2>4. Holds(last, file, d) = CompareNumeric(a, c.value, d.op)
    BY <1>1, <1>7 DEF Holds
  <2>5. ~Unreadable(last, d)
    BY <1>1, <1>7 DEF Unreadable
  <2>6. CompareNumeric(a, c.value, d.op) \in BOOLEAN
    BY <1>1, <1>2, <2>1, ComparesOpposite, Compares
  <2>7. Holds(last, file, d) \in BOOLEAN
    BY <2>4, <2>6, Zenon
  <2> QED
    BY <2>2, <2>3, <2>4, <2>5, <2>7 DEF d
<1>8. CASE c.kind = "numeric"
  <2> DEFINE a == Operand(last, c)
  <2>1. a \in Value /\ a # NaN /\ c.value # NaN
    <3>1. a \in Value
      BY OperandType
    <3>2. a # NaN
      BY <1>8 DEF IsNaN
    <3>3. c.value # NaN
      BY <1>8, ValidComparison DEF NaN
    <3> QED
      BY <3>1, <3>2, <3>3
  <2>2. CompareNumeric(a, c.value, d.op) <=> ~CompareNumeric(a, c.value, c.op)
    BY <1>1, <1>2, <2>1, ComparesOpposite
  <2>3. Holds(last, file, c) <=> CompareNumeric(a, c.value, c.op)
    BY <1>8 DEF Holds
  <2>4. Holds(last, file, d) = CompareNumeric(a, c.value, d.op)
    BY <1>1, <1>4, <1>8 DEF Holds
  <2>5. ~Unreadable(last, d)
    BY <1>1, <1>4, <1>8 DEF Unreadable
  <2>6. CompareNumeric(a, c.value, d.op) \in BOOLEAN
    BY <1>1, <1>2, <2>1, ComparesOpposite, Compares
  <2>7. Holds(last, file, d) \in BOOLEAN
    BY <2>4, <2>6, Zenon
  <2> QED
    BY <2>2, <2>3, <2>4, <2>5, <2>7 DEF d
<1>9. CASE c.kind = "jsonPath" /\ Numbers(last, c)
  <2> DEFINE a == Leaf(last, c)
  <2>1. a \in Value /\ NaN \notin {a, c.value}
    BY <1>2, <1>6, <1>9, OperandType DEF Numbers
  <2>2. CompareNumeric(a, c.value, d.op) <=> ~CompareNumeric(a, c.value, c.op)
    BY <1>1, <1>2, <2>1, ComparesOpposite
  <2>3. Holds(last, file, c) <=> CompareNumeric(a, c.value, c.op)
    BY <1>9 DEF Holds, Numbers
  <2>4. Holds(last, file, d) = CompareNumeric(a, c.value, d.op)
    BY <1>1, <1>4, <1>9 DEF Holds, Numbers
  <2>5. ~Unreadable(last, d)
    BY <1>1, <1>4, <1>9 DEF Unreadable, Numbers
  <2>6. CompareNumeric(a, c.value, d.op) \in BOOLEAN
    BY <1>1, <1>2, <2>1, ComparesOpposite, Compares
  <2>7. Holds(last, file, d) \in BOOLEAN
    BY <2>4, <2>6, Zenon
  <2> QED
    BY <2>2, <2>3, <2>4, <2>5, <2>7 DEF d
<1>10. CASE c.kind = "jsonPath" /\ ~Numbers(last, c)
  <2> DEFINE E == Leaf(last, c) = c.value
  <2>1. c.op \in {"eq", "ne"} /\ Leaf(last, c) # NoValue
    BY <1>10 DEF Unreadable, Numbers
  <2>2. d.op \in {"eq", "ne"} /\ (d.op = "ne" <=> ~(c.op = "ne"))
    BY <1>1, <2>1 DEF Opposite
  <2>3. Holds(last, file, c) <=> (E # (c.op = "ne"))
    BY <1>10 DEF Holds, Numbers, NegateCondition, JsonValueEqual
  <2>4. Holds(last, file, d) = (E # (d.op = "ne"))
    BY <1>1, <1>4, <1>5, <1>10 DEF Holds, Numbers, NegateCondition, JsonValueEqual
  <2>5. ~Unreadable(last, d)
    BY <1>1, <1>4, <1>10, <2>1, <2>2 DEF Unreadable
  <2> HIDE DEF E
  <2>6. Holds(last, file, d) <=> ~Holds(last, file, c)
    BY <2>2, <2>3, <2>4 DEF E
  <2>7. Holds(last, file, d) \in BOOLEAN
    BY <2>4, Zenon
  <2> QED
    BY <2>5, <2>6, <2>7 DEF d
<1> QED
  BY <1>3, <1>7, <1>8, <1>9, <1>10

LEMMA OppositeDecides ==
  ASSUME NEW last \in CondResults, NEW file, NEW c, IsCondition(c), ValidCondition(c),
         ValidPlanOperator(c.op), ~Unreadable(last, c), ~IsNaN(last, c)
  PROVE  Evaluated(last, file, c) # Evaluated(last, file, Turned(c))
<1> DEFINE d == Turned(c)
           H == Holds(last, file, c)
           G == Holds(last, file, d)
<1>1. d.negate = c.negate /\ c.negate \in BOOLEAN
  BY TurnedFields DEF IsCondition
<1>2. ~Unreadable(last, d) /\ (G <=> ~H)
  BY HoldsOpposite
<1> HIDE DEF d, H, G
<1>4. Evaluated(last, file, c) <=> H # c.negate
  BY Zenon DEF Evaluated, NegateCondition, H
<1>5. Evaluated(last, file, d) <=> G # d.negate
  BY <1>2, Zenon DEF Evaluated, NegateCondition, G
<1>6. H \in BOOLEAN
  BY HoldsBoolean DEF H
<1>7. G \in BOOLEAN
  BY HoldsOpposite DEF G, d
<1>8. Evaluated(last, file, c) <=> ~Evaluated(last, file, d)
  BY <1>1, <1>2, <1>4, <1>5, <1>6, <1>7
<1>9. Evaluated(last, file, c) \in BOOLEAN /\ Evaluated(last, file, d) \in BOOLEAN
  BY Zenon DEF Evaluated
<1> QED
  BY <1>8, <1>9, Zenon DEF d
-----------------------------------------------------------------------------
\* What is known of a condition that has come so far.
GivenInv ==
  /\ condGiven \in CondGiven
  /\ condPc \in {"given", "coerced", "valid", "refused", "error", "decided"}
  /\ condPc \in {"coerced", "valid", "error", "decided"} =>
        cond = Meant(condGiven) /\ AcceptedCondition(condGiven, condForm)
  /\ condPc = "refused" /\ AcceptedCondition(condGiven, condForm) => ~ValidCondition(Meant(condGiven))
ValidInv ==
  /\ condPc \in {"valid", "error", "decided"} => ValidCondition(cond)
  /\ condPc = "error" => EvaluationFails(condFile, cond)
  /\ condPc = "decided" => condLast \in CondResults /\ condMatched = Evaluated(condLast, condFile, cond)
CondInv == GivenInv /\ ValidInv

LEMMA CondInvStep == CondInv /\ [CondNext]_condVars => CondInv'
<1> SUFFICES ASSUME CondInv, [CondNext]_condVars PROVE CondInv'
  OBVIOUS
<1>1. CASE CoercePlan
  <2>1. condGiven' = condGiven /\ condForm' = condForm /\ condPc = "given"
    BY <1>1 DEF CoercePlan
  <2>2. CASE AcceptedCondition(condGiven, condForm)
    <3>1. condPc' = "coerced" /\ cond' = Meant(condGiven)
      BY <1>1, <2>2 DEF CoercePlan, AcceptedCondition, Meant
    <3> QED
      BY <2>1, <2>2, <3>1 DEF CondInv, GivenInv, ValidInv
  <2>3. CASE ~AcceptedCondition(condGiven, condForm)
    <3>1. condPc' = "refused"
      BY <1>1, <2>3 DEF CoercePlan, AcceptedCondition
    <3> QED
      BY <2>1, <2>3, <3>1 DEF CondInv, GivenInv, ValidInv
  <2> QED
    BY <2>2, <2>3
<1>2. CASE ValidateCondition
  <2>1. condGiven' = condGiven /\ condForm' = condForm /\ cond' = cond /\ condPc = "coerced"
    BY <1>2 DEF ValidateCondition
  <2>2. condPc' = IF ValidCondition(cond) THEN "valid" ELSE "refused"
    BY <1>2 DEF ValidateCondition
  <2>3. CASE ValidCondition(cond)
    BY <2>1, <2>2, <2>3 DEF CondInv, GivenInv, ValidInv
  <2>4. CASE ~ValidCondition(cond)
    BY <2>1, <2>2, <2>4 DEF CondInv, GivenInv, ValidInv
  <2> QED
    BY <2>3, <2>4
<1>3. CASE EvaluateCondition
  <2>1. condGiven' = condGiven /\ condForm' = condForm /\ cond' = cond /\ condPc = "valid" /\ condLast' \in CondResults
    BY <1>3 DEF EvaluateCondition
  <2>2. CASE EvaluationFails(condFile', cond)
    <3>1. condPc' = "error"
      BY <1>3, <2>2 DEF EvaluateCondition
    <3> QED
      BY <2>1, <2>2, <3>1 DEF CondInv, GivenInv, ValidInv
  <2>3. CASE ~EvaluationFails(condFile', cond)
    <3>1. condPc' = "decided" /\ condMatched' = Evaluated(condLast', condFile', cond)
      BY <1>3, <2>3 DEF EvaluateCondition
    <3> QED
      BY <2>1, <3>1 DEF CondInv, GivenInv, ValidInv
  <2> QED
    BY <2>2, <2>3
<1>4. CASE UNCHANGED condVars
  <2>1. /\ condGiven' = condGiven /\ condForm' = condForm /\ cond' = cond /\ condPc' = condPc
        /\ condLast' = condLast /\ condFile' = condFile /\ condMatched' = condMatched
    BY <1>4 DEF condVars
  <2> QED
    BY <2>1 DEF CondInv, GivenInv, ValidInv
<1> QED
  BY <1>1, <1>2, <1>3, <1>4 DEF CondNext

LEMMA CondInvDecides == CondInv => ConditionsDecide
<1> SUFFICES ASSUME CondInv PROVE ConditionsDecide
  OBVIOUS
<1> DEFINE last == condLast
           file == condFile
<1>1. ASSUME condPc = "refused", Recognised(condGiven), ~FormRefused(condForm)
      PROVE  ~Compiles(condGiven.regex)
  <2>1. condGiven \in CondGiven /\ ~ValidCondition(Meant(condGiven))
    BY <1>1 DEF CondInv, GivenInv, AcceptedCondition
  <2> QED
    BY <1>1, <2>1, ShorthandValid
<1>2. ASSUME condPc = "error" PROVE cond.kind = "fileExists" /\ condFile = "denied"
  BY <1>2, ValidFails DEF CondInv, ValidInv
<1>3. ASSUME condPc = "decided"
      PROVE  /\ condGiven.form # "structured" /\ (condGiven.form = "stream" => Alone(last, condGiven.stream)) =>
                   condMatched = Says(condGiven, last, file)
             /\ ~Unreadable(last, cond) => condMatched # Evaluated(last, file, Negated(cond))
             /\ Unreadable(last, cond) =>
                   /\ ~cond.negate => ~condMatched
                   /\ cond.kind = "numeric" => Operand(last, cond).type # "number"
                   /\ cond.kind = "jsonPath" => Leaf(last, cond).type # "number"
             /\ ValidPlanOperator(cond.op) /\ ~Unreadable(last, cond) /\ ~IsNaN(last, cond) =>
                   condMatched # Evaluated(last, file, Turned(cond))
  <2>1. /\ condGiven \in CondGiven /\ cond = Meant(condGiven) /\ AcceptedCondition(condGiven, condForm)
        /\ ValidCondition(cond) /\ last \in CondResults
    BY <1>3 DEF CondInv, GivenInv, ValidInv
  <2>2. condMatched = Evaluated(last, file, cond)
    BY <1>3 DEF CondInv, ValidInv
  <2>3. IsCondition(cond)
    BY <2>1, MeantIsCondition
  <2> HIDE DEF last, file
  <2>4. ASSUME condGiven.form # "structured", condGiven.form = "stream" => Alone(last, condGiven.stream)
        PROVE  condMatched = Says(condGiven, last, file)
    <3>1. Recognised(condGiven)
      BY <2>1, <2>4 DEF AcceptedCondition
    <3>2. Evaluated(last, file, Meant(condGiven)) = Says(condGiven, last, file)
      BY <2>1, <2>4, <3>1, ShorthandSays
    <3> QED
      BY <2>1, <2>2, <3>2
  <2>5. ASSUME ~Unreadable(last, cond) PROVE condMatched # Evaluated(last, file, Negated(cond))
    <3>1. Evaluated(last, file, cond) # Evaluated(last, file, Negated(cond))
      BY <2>1, <2>3, <2>5, NegationDecides
    <3> QED
      BY <2>2, <3>1
  <2>6. ASSUME Unreadable(last, cond)
        PROVE  /\ ~condMatched
               /\ cond.kind = "numeric" => Operand(last, cond).type # "number"
               /\ cond.kind = "jsonPath" => Leaf(last, cond).type # "number"
    <3>1. ~Evaluated(last, file, cond)
      BY <2>6, Zenon DEF Evaluated
    <3>2. ~condMatched
      BY <2>2, <3>1
    <3>3. NoValue.type # "number"
      BY DEF NoValue
    <3>4. cond.kind = "numeric" => Operand(last, cond) = NoValue
      BY <2>6 DEF Unreadable
    <3>5. cond.kind = "jsonPath" =>
             Leaf(last, cond) = NoValue \/ (cond.op \notin {"eq", "ne"} /\ ~Numbers(last, cond))
      BY <2>6, Zenon DEF Unreadable, Numbers
    <3>6. cond.kind = "jsonPath" /\ cond.op \notin {"eq", "ne"} => cond.value.type = "number"
      BY <2>1, ValidComparison
    <3> QED
      BY <3>2, <3>3, <3>4, <3>5, <3>6, Zenon DEF Numbers
  <2>7. ASSUME ValidPlanOperator(cond.op), ~Unreadable(last, cond), ~IsNaN(last, cond)
        PROVE  condMatched # Evaluated(last, file, Turned(cond))
    <3>1. Evaluated(last, file, cond) # Evaluated(last, file, Turned(cond))
      BY <2>1, <2>3, <2>7, OppositeDecides
    <3> QED
      BY <2>2, <3>1
  <2> QED
    BY <2>4, <2>5, <2>6, <2>7
<1> QED
  BY <1>1, <1>2, <1>3, Zenon DEF ConditionsDecide, Turned

\* Whatever conditions are given and whatever results they meet, a condition
\* written short is accepted and means what it says (of a stream, if there is
\* nothing in the other one), and of a condition and its negation, or of a
\* comparison and its opposite, exactly one holds if the data can be read
\* (coerceCondition, validateCondition, evaluateCondition).
THEOREM ConditionsAlwaysDecide == CondSpec => []ConditionsDecide
<1>1. CondInit => CondInv
  BY DEF CondInit, CondInv, GivenInv, ValidInv
<1> QED
  BY <1>1, CondInvStep, CondInvDecides, PTL DEF CondSpec

-----------------------------------------------------------------------------
(* Pages.                                                                  *)

\* The sum of numbers is a number.
LEMMA SumType ==
  ASSUME NEW s \in Seq(Nat)
  PROVE  SumOf(s) \in Nat /\ (Len(s) = 0 => SumOf(s) = 0) /\ (Len(s) = 1 => SumOf(s) = s[1])
<1> DEFINE N == Len(s)
           Body(f) == [i \in 0 .. N |-> IF i = 0 THEN 0 ELSE f[i - 1] + s[i]]
           Is(f) == f = Body(f)
           F == [a \in (1 .. N) \X Nat |-> a[2] + s[a[1]]]
<1>1. N \in Nat /\ \A i \in 1 .. N : s[i] \in Nat
  OBVIOUS
<1>2. F \in [(1 .. N) \X Nat -> Nat]
  BY <1>1
<1>3. PICK f \in [0 .. N -> Nat] : Recursive(f, 0, N, F)
  <2>1. 0 \in Nat
    OBVIOUS
  <2> HIDE DEF F, N
  <2> QED
    BY <1>1, <1>2, <2>1, RecursionExists
<1>4. Is(f)
  <2>1. ASSUME NEW i \in 0 .. N
        PROVE  f[i] = IF i = 0 THEN 0 ELSE f[i - 1] + s[i]
    <3>1. CASE i = 0
      BY <1>3, <3>1 DEF Recursive
    <3>2. CASE i # 0
      <4>1. i \in 1 .. N /\ f[i - 1] \in Nat
        <5>1. i \in 1 .. N /\ i - 1 \in 0 .. N
          BY <3>2, <1>1
        <5> HIDE DEF N
        <5> QED
          BY <5>1, <1>3
      <4>2. <<i, f[i - 1]>> \in (1 .. N) \X Nat
        BY <4>1
      <4>3. F[<<i, f[i - 1]>>] = f[i - 1] + s[i]
        BY <4>2
      <4>4. f[i] = F[<<i, f[i - 1]>>]
        BY <1>3, <4>1 DEF Recursive
      <4> QED
        BY <3>2, <4>3, <4>4
    <3> QED
      BY <3>1, <3>2
  <2> HIDE DEF N
  <2> QED
    BY <2>1, <1>3
<1> DEFINE L == CHOOSE g : Is(g)
<1>5. Is(L)
  <2> HIDE DEF Is
  <2> QED
    BY <1>4
<1>6. SumOf(s) = L[N]
  BY DEF SumOf
<1>7. L = Body(L)
  BY <1>5
<1> HIDE DEF L
<1> DEFINE T == {i \in Nat : i <= N => L[i] \in Nat}
<1>8. L[0] = 0 /\ 0 \in T
  <2>1. Body(L)[0] = 0
    BY <1>1
  <2> HIDE DEF Body
  <2> QED
    BY <1>7, <2>1
<1>9. ASSUME NEW i \in Nat, i \in T PROVE i + 1 \in T
  <2> SUFFICES ASSUME i + 1 <= N PROVE L[i + 1] \in Nat
    OBVIOUS
  <2>1. i + 1 \in 1 .. N /\ i + 1 \in 0 .. N /\ i + 1 # 0 /\ (i + 1) - 1 = i /\ L[i] \in Nat
    BY <1>1, <1>9
  <2>2. Body(L)[i + 1] = L[(i + 1) - 1] + s[i + 1]
    <3> HIDE DEF N
    <3> QED
      BY <2>1
  <2>3. s[i + 1] \in Nat
    BY <1>1, <2>1
  <2>4. L[i + 1] = Body(L)[i + 1]
    <3> HIDE DEF Body
    <3> QED
      BY <1>7
  <2> HIDE DEF Body
  <2> QED
    BY <2>1, <2>2, <2>3, <2>4
<1>10. N \in T
  <2> HIDE DEF T
  <2> QED
    BY <1>1, <1>8, <1>9, NatSetInduction
<1>11. ASSUME N = 1 PROVE L[1] = s[1]
  <2>1. 1 \in 0 .. 1 /\ 1 # 0 /\ 1 - 1 = 0 /\ s[1] \in Nat
    BY <1>1, <1>11
  <2>2. Body(L)[1] = L[0] + s[1]
    <3> HIDE DEF N
    <3> QED
      BY <1>11, <2>1
  <2>3. L[1] = Body(L)[1]
    <3> HIDE DEF Body
    <3> QED
      BY <1>7
  <2> HIDE DEF Body
  <2> QED
    BY <1>8, <2>1, <2>2, <2>3
<1> QED
  BY <1>1, <1>6, <1>8, <1>10, <1>11

-----------------------------------------------------------------------------
(* read_file.                                                              *)

LEMMA SizeType ==
  ASSUME NEW ask, ask.file \in Seq(Nat), NEW first \in 1 .. Len(ask.file),
         NEW last \in first - 1 .. Len(ask.file)
  PROVE  SizeOf(ask, first, last) \in Int
<1> DEFINE m == last - first + 1
           s == [i \in 1 .. m |-> Rendered(ask, first + i - 1)]
<1>1. m \in Nat /\ first \in Nat /\ last \in Int
  OBVIOUS
<1>2. ASSUME NEW i \in 1 .. m PROVE Rendered(ask, first + i - 1) \in Nat
  <2>1. first + i - 1 \in 1 .. Len(ask.file)
    OBVIOUS
  <2>2. ask.file[first + i - 1] \in Nat
    BY <2>1
  <2> DEFINE x == ask.file[first + i - 1]
           y == IF ask.numbered THEN 2 ELSE 0
  <2>3. y \in Nat
    OBVIOUS
  <2>4. Rendered(ask, first + i - 1) = x + y
    BY DEF Rendered
  <2> HIDE DEF x, y
  <2> QED
    BY <2>2, <2>3, <2>4 DEF x
<1>3. s \in Seq(Nat)
  <2> HIDE DEF m
  <2> QED
    BY <1>1, <1>2
<1>4. SumOf(s) \in Nat
  <2> HIDE DEF s
  <2> QED
    BY <1>3, SumType
<1>5. SizeOf(ask, first, last) = SumOf(s) + last - first
  BY DEF SizeOf
<1> HIDE DEF s
<1> QED
  BY <1>1, <1>4, <1>5

\* The size of one line, and of none.
LEMMA SizeSmall ==
  ASSUME NEW ask, ask.file \in Seq(Nat), NEW first \in 1 .. Len(ask.file)
  PROVE  SizeOf(ask, first, first) = Rendered(ask, first) /\ SizeOf(ask, first, first - 1) = -1
<1>1. Rendered(ask, first) \in Nat
  <2> DEFINE x == ask.file[first]
             y == IF ask.numbered THEN 2 ELSE 0
  <2>1. x \in Nat /\ y \in Nat
    OBVIOUS
  <2>2. Rendered(ask, first) = x + y
    BY DEF Rendered
  <2> HIDE DEF x, y
  <2> QED
    BY <2>1, <2>2
<1>2. SizeOf(ask, first, first) = Rendered(ask, first)
  <2> DEFINE s == [i \in 1 .. first - first + 1 |-> Rendered(ask, first + i - 1)]
  <2>1. first - first + 1 = 1 /\ first + 1 - 1 = first
    OBVIOUS
  <2>2. s = [i \in 1 .. 1 |-> Rendered(ask, first + i - 1)] /\ s[1] = Rendered(ask, first)
    BY <2>1
  <2>3. \A i \in 1 .. 1 : Rendered(ask, first + i - 1) = Rendered(ask, first)
    <3>1. ASSUME NEW i \in 1 .. 1 PROVE first + i - 1 = first
      OBVIOUS
    <3> QED
      BY <3>1
  <2>4. s \in Seq(Nat) /\ Len(s) = 1
    BY <1>1, <2>2, <2>3
  <2>5. SizeOf(ask, first, first) = SumOf(s) + first - first
    BY DEF SizeOf
  <2> HIDE DEF s
  <2>6. SumOf(s) = s[1]
    BY <2>4, SumType
  <2> QED
    BY <1>1, <2>2, <2>5, <2>6
<1>3. SizeOf(ask, first, first - 1) = -1
  <2> DEFINE s == [i \in 1 .. (first - 1) - first + 1 |-> Rendered(ask, first + i - 1)]
  <2>1. (first - 1) - first + 1 = 0
    OBVIOUS
  <2>2. s \in Seq(Nat) /\ Len(s) = 0
    BY <2>1
  <2>3. SizeOf(ask, first, first - 1) = SumOf(s) + (first - 1) - first
    BY DEF SizeOf
  <2> HIDE DEF s
  <2>4. SumOf(s) = 0
    BY <2>2, SumType
  <2> QED
    BY <2>3, <2>4
<1> QED
  BY <1>2, <1>3

\* Lines that are empty and would have no numbers.
Blank(ask, first, last) == \A n \in first .. last : ~ask.numbered /\ ask.file[n] = 0

LEMMA RenderedRange ==
  ASSUME NEW ask, ask.file \in Seq(Nat), NEW first \in 1 .. Len(ask.file), NEW end \in first .. Len(ask.file)
  PROVE  /\ LastRendered(ask, first, end) \in first - 1 .. end
         /\ Blank(ask, LastRendered(ask, first, end) + 1, end)
<1> DEFINE full == {n \in first .. end : ask.numbered \/ ask.file[n] > 0}
           last == LastRendered(ask, first, end)
<1>0. /\ first \in Nat /\ end \in Nat /\ full \subseteq first .. end
      /\ \A n \in first .. end : ask.file[n] \in Nat
  OBVIOUS
<1>1. CASE full = {}
  <2>1. last = first - 1
    BY <1>1 DEF LastRendered
  <2>2. ASSUME NEW n \in last + 1 .. end PROVE ~ask.numbered /\ ask.file[n] = 0
    <3>1. n \in first .. end /\ n \notin full
      <4> HIDE DEF full, last
      <4> QED
        BY <1>0, <1>1, <2>1
    <3> QED
      BY <1>0, <3>1
  <2> HIDE DEF last
  <2> QED
    BY <1>0, <2>1, <2>2 DEF last, Blank
<1>2. CASE full # {}
  <2>1. \E n \in full : \A m \in full : m <= n
    <3> HIDE DEF full
    <3>1. first \in Int /\ end \in Int
      BY <1>0
    <3> QED
      BY <1>0, <1>2, <3>1, GreatestInt, Zenon
  <2>2. last = CHOOSE n \in full : \A m \in full : m <= n
    BY <1>2 DEF LastRendered
  <2>3. last \in full /\ \A m \in full : m <= last
    <3> HIDE DEF full, last
    <3> QED
      BY <2>1, <2>2
  <2>4. ASSUME NEW n \in last + 1 .. end PROVE ~ask.numbered /\ ask.file[n] = 0
    <3>1. n \in first .. end /\ n \notin full
      <4> HIDE DEF full, last
      <4> QED
        BY <1>0, <2>3
    <3> QED
      BY <1>0, <3>1
  <2>5. last \in first .. end
    BY <1>0, <2>3
  <2> HIDE DEF last, full
  <2> QED
    BY <1>0, <2>4, <2>5 DEF last, Blank
<1> QED
  BY <1>1, <1>2

LEMMA CutRange ==
  ASSUME NEW ask, NEW first \in Nat, NEW last \in Int, first - 1 <= last
  PROVE  /\ Truncated(ask, first, last) => CutLine(ask, first, last) \in first .. last
         /\ ~Truncated(ask, first, last) => CutLine(ask, first, last) = last
<1> DEFINE limit == Limit(first)
           cuts == {n \in first .. limit : <<first, n>> \in PagCuts}
           cut == CHOOSE n \in cuts : \A m \in cuts : m <= n
<1>1. limit \in Int /\ first <= limit
  BY PagAssumption DEF Limit
<1>2. CASE ~Truncated(ask, first, last)
  BY <1>2 DEF CutLine
<1>3. ASSUME Truncated(ask, first, last) PROVE limit <= last
  <2> HIDE DEF limit
  <2>1. last > limit \/ last >= limit
    BY <1>3 DEF Truncated, limit
  <2> QED
    BY <1>1, <2>1
<1>4. CASE Truncated(ask, first, last) /\ ask.mode = "smart" /\ cuts # {}
  <2>1. cuts \subseteq first .. limit
    OBVIOUS
  <2>2. \E n \in cuts : \A m \in cuts : m <= n
    <3>1. first \in Int
      OBVIOUS
    <3> HIDE DEF cuts, limit
    <3> QED
      BY <1>1, <1>4, <2>1, <3>1, GreatestInt, Zenon
  <2>3. cut \in cuts
    <3> HIDE DEF cuts
    <3> QED
      BY <2>2
  <2>4. CutLine(ask, first, last) = cut
    BY <1>4 DEF CutLine
  <2>5. cut \in first .. limit
    BY <2>1, <2>3
  <2> HIDE DEF cut, cuts, limit
  <2> QED
    BY <1>1, <1>3, <1>4, <2>4, <2>5
<1>5. CASE Truncated(ask, first, last) /\ ~(ask.mode = "smart" /\ cuts # {})
  <2>1. CutLine(ask, first, last) = limit
    BY <1>5 DEF CutLine
  <2> HIDE DEF limit
  <2> QED
    BY <1>1, <1>3, <1>5, <2>1
<1> QED
  BY <1>2, <1>4, <1>5

\* Of the lines kept, as many as fit: at least one, if the first fits.
LEMMA KeptRange ==
  ASSUME NEW ask, ask.file \in Seq(Nat), NEW first \in 1 .. Len(ask.file),
         NEW last \in first - 1 .. Len(ask.file)
  PROVE  /\ BytesKept(ask, first, last) \in 0 .. last - first + 1
         /\ first <= last /\ Rendered(ask, first) + 1 <= PagMaxBytes => BytesKept(ask, first, last) # 0
<1> DEFINE hi == last - first + 1
           Fit(k) == SizeOf(ask, first, first + k - 1) + 1 <= PagMaxBytes \/ k = 0
           F == {k \in Int : Fit(k)}
           Kept(k) == Fit(k) /\ (k = hi \/ SizeOf(ask, first, first + k) + 1 > PagMaxBytes)
<1>1. 0 \in F /\ 0 \in Int /\ hi \in Int /\ 0 <= hi
  OBVIOUS
<1>2. PICK k \in 0 .. hi : k \in F /\ (k = hi \/ k + 1 \notin F)
  <2> HIDE DEF F, hi
  <2> QED
    BY <1>1, LastFitting, Zenon
<1>3. k = hi \/ SizeOf(ask, first, first + k) + 1 > PagMaxBytes
  <2> SUFFICES ASSUME k # hi PROVE SizeOf(ask, first, first + k) + 1 > PagMaxBytes
    OBVIOUS
  <2>1. k + 1 \in Int /\ first + (k + 1) - 1 = first + k /\ k + 1 # 0
    BY <1>1
  <2>2. first + k \in first - 1 .. Len(ask.file)
    BY <1>2
  <2>3. SizeOf(ask, first, first + k) \in Int
    BY <2>2, SizeType
  <2>4. ~Fit(k + 1)
    BY <1>2, <2>1
  <2>5. ~(SizeOf(ask, first, first + k) + 1 <= PagMaxBytes)
    BY <2>1, <2>4
  <2> QED
    BY <2>3, <2>5, PagAssumption
<1>4. Kept(k)
  BY <1>2, <1>3
<1> DEFINE kept == BytesKept(ask, first, last)
<1>5. kept = CHOOSE j \in 0 .. hi : Kept(j)
  BY DEF BytesKept
<1>6. kept \in 0 .. hi /\ Kept(kept)
  <2> HIDE DEF Kept, hi, kept
  <2> QED
    BY <1>4, <1>5
<1>7. ASSUME first <= last, Rendered(ask, first) + 1 <= PagMaxBytes, kept = 0 PROVE FALSE
  <2>1. hi # 0
    BY <1>7
  <2>2. SizeOf(ask, first, first + kept) + 1 > PagMaxBytes
    <3> HIDE DEF hi, kept
    <3> QED
      BY <1>6, <1>7, <2>1
  <2>3. first + kept = first
    <3> HIDE DEF kept
    <3> QED
      BY <1>7
  <2>4. SizeOf(ask, first, first) = Rendered(ask, first) /\ SizeOf(ask, first, first) \in Int
    BY SizeSmall, SizeType
  <2> HIDE DEF kept
  <2> QED
    BY <1>7, <2>2, <2>3, <2>4, PagAssumption
<1> HIDE DEF Kept, kept
<1> QED
  BY <1>6, <1>7 DEF kept

\* A page begins where it was asked for and goes on behind that; what is neither
\* in it nor in the pages that follow is empty.
PageIsWhole(page, ask) ==
  LET upto == IF page.next = EndOfPages THEN Len(ask.file) ELSE page.next - 1
  IN  /\ page.first = ask.from /\ page.last \in Int /\ page.next \in Nat
      /\ ask.from - 1 <= page.last /\ page.last <= upto
      /\ ask.from <= upto /\ upto <= Len(ask.file)
      /\ Blank(ask, page.last + 1, upto)

LEMMA PageGoesOn ==
  ASSUME NEW ask, ask.file \in Seq(Nat), Fits(ask), ask.from \in 1 .. Len(ask.file), ask.to \in Nat
  PROVE  PageIsWhole(ReadPage(ask), ask)
<1> DEFINE first == ask.from
           end == WindowEnd(ask)
           shown == LastRendered(ask, first, end)
           cut == CutLine(ask, first, shown)
           size == SizeOf(ask, first, cut) + (IF Marked(ask, first, shown) THEN PagMarker + 1 ELSE 0)
           kept == BytesKept(ask, first, cut)
           next == IF Truncated(ask, first, shown) THEN cut + 1 ELSE end + 1
           total == Len(ask.file)
           page == ReadPage(ask)
<1>1. total \in Nat /\ first \in 1 .. total /\ first \in Nat
  OBVIOUS
<1>2. end \in first .. total
  BY <1>1, PagAssumption DEF WindowEnd, Lesser
<1>3. shown \in first - 1 .. end /\ Blank(ask, shown + 1, end)
  <2> HIDE DEF first, end
  <2> QED
    BY <1>1, <1>2, RenderedRange DEF total
<1>4. /\ Truncated(ask, first, shown) => cut \in first .. shown
      /\ ~Truncated(ask, first, shown) => cut = shown
  <2> HIDE DEF first, end, shown, total
  <2>1. shown \in Int /\ first - 1 <= shown
    BY <1>1, <1>2, <1>3
  <2> QED
    BY <1>1, <2>1, CutRange DEF cut
<1>5. cut \in first - 1 .. total
  <2> HIDE DEF first, end, shown, cut, total
  <2> QED
    BY <1>1, <1>2, <1>3, <1>4
<1>6. /\ kept \in 0 .. cut - first + 1
      /\ first <= cut => kept # 0
  <2>1. Rendered(ask, first) + 1 <= PagMaxBytes
    BY <1>1 DEF Fits
  <2> HIDE DEF first, cut
  <2> QED
    BY <1>1, <1>5, <2>1, KeptRange
<1>7. ~(ask.file[first] > PagMaxBytes)
  <2> DEFINE x == ask.file[first]
             y == IF ask.numbered THEN 2 ELSE 0
  <2>1. x \in Nat /\ y \in Nat
    BY <1>1
  <2>2. x + y + 1 <= PagMaxBytes
    BY <1>1 DEF Fits, Rendered
  <2> HIDE DEF x, y
  <2> QED
    BY <2>1, <2>2, PagAssumption DEF x
<1>8. page = IF size > PagMaxBytes
             THEN [first |-> first, last |-> first + kept - 1, next |-> first + kept]
             ELSE [first |-> first, last |-> cut, next |-> IF next > total THEN EndOfPages ELSE next]
  BY <1>7 DEF ReadPage
<1>9. ASSUME size > PagMaxBytes PROVE first <= cut
  <2> SUFFICES ASSUME ~(first <= cut) PROVE FALSE
    OBVIOUS
  <2>1. cut = first - 1 /\ ~Truncated(ask, first, shown)
    <3> HIDE DEF first, cut, shown, total
    <3> QED
      BY <1>1, <1>4, <1>5
  <2>2. SizeOf(ask, first, cut) = -1
    <3> HIDE DEF first, cut
    <3> QED
      BY <1>1, <2>1, SizeSmall DEF total
  <2>3. ~Marked(ask, first, shown)
    BY <2>1 DEF Marked
  <2> HIDE DEF first, cut, shown
  <2> QED
    BY <1>9, <2>2, <2>3, PagAssumption
<1> HIDE DEF first, end, shown, cut, kept, page, size
<1>10. CASE size > PagMaxBytes
  <2>1. page.first = first /\ page.last = first + kept - 1 /\ page.next = first + kept
    BY <1>8, <1>10
  <2>2. kept \in Int /\ 1 <= kept /\ first + kept - 1 <= total
    BY <1>1, <1>5, <1>6, <1>9, <1>10
  <2>3. page.next # EndOfPages
    BY <1>1, <2>1, <2>2 DEF EndOfPages
  <2>4. page.next - 1 = page.last /\ Blank(ask, page.last + 1, page.next - 1)
    BY <1>1, <2>1, <2>2 DEF Blank
  <2>5. page.last \in Int /\ page.next \in Nat /\ first - 1 <= page.last /\ first <= page.next - 1 /\ page.next - 1 <= total
    BY <1>1, <2>1, <2>2
  <2> QED
    BY <2>1, <2>3, <2>4, <2>5 DEF PageIsWhole, page, first
<1>11. CASE ~(size > PagMaxBytes)
  <2> DEFINE upto == IF next > total THEN total ELSE next - 1
  <2>1. /\ page.first = first /\ page.last = cut
        /\ page.next = IF next > total THEN EndOfPages ELSE next
    BY <1>8, <1>11
  <2>2. /\ next \in Int /\ first + 1 <= next /\ next <= total + 1 /\ cut <= next - 1
        /\ Blank(ask, cut + 1, next - 1)
    <3>1. CASE Truncated(ask, first, shown)
      <4>1. next = cut + 1 /\ cut \in Int /\ first <= cut /\ cut <= total
        BY <1>1, <1>2, <1>3, <1>4, <3>1
      <4> HIDE DEF next
      <4>2. Blank(ask, cut + 1, next - 1)
        BY <4>1 DEF Blank
      <4> QED
        BY <1>1, <4>1, <4>2
    <3>2. CASE ~Truncated(ask, first, shown)
      <4>1. next = end + 1 /\ cut = shown
        BY <1>4, <3>2
      <4>2. next - 1 = end /\ next \in Int /\ cut <= end /\ first <= end /\ end <= total
        BY <1>1, <1>2, <1>3, <4>1
      <4> HIDE DEF next
      <4>3. Blank(ask, cut + 1, next - 1)
        BY <1>3, <4>1, <4>2
      <4> QED
        BY <1>1, <1>2, <4>2, <4>3
    <3> QED
      BY <3>1, <3>2
  <2> HIDE DEF next, upto
  <2>3. (IF page.next = EndOfPages THEN total ELSE page.next - 1) = next - 1 /\ page.next \in Nat
    <3>1. CASE next > total
      <4>1. page.next = EndOfPages /\ next - 1 = total
        BY <1>1, <2>1, <2>2, <3>1
      <4> QED
        BY <4>1 DEF EndOfPages
    <3>2. CASE ~(next > total)
      <4>1. page.next = next /\ next # 0 /\ next \in Nat
        BY <1>1, <2>1, <2>2, <3>2
      <4> QED
        BY <4>1 DEF EndOfPages
    <3> QED
      BY <3>1, <3>2
  <2>4. page.last \in Int /\ first - 1 <= page.last /\ first <= next - 1 /\ next - 1 <= total
    BY <1>1, <1>5, <2>1, <2>2
  <2> QED
    BY <2>1, <2>2, <2>3, <2>4 DEF PageIsWhole, page, first
<1> QED
  BY <1>10, <1>11

\* The pages of a file, one more.
LinePages == [first : Nat, last : Nat]
LEMMA CoverGoesOn ==
  ASSUME NEW ask, NEW pages \in Seq(LinePages), NEW upto \in Nat, CoverLines(ask, pages, upto),
         NEW last \in Nat, NEW next \in Nat, upto <= last, last <= next, upto + 1 <= next,
         Blank(ask, last + 1, next)
  PROVE  CoverLines(ask, Append(pages, [first |-> upto + 1, last |-> last]), next)
<1> DEFINE page == [first |-> upto + 1, last |-> last]
           more == Append(pages, page)
           k == Len(pages)
<1>1. /\ k \in Nat /\ DOMAIN pages = 1 .. k /\ DOMAIN more = 1 .. k + 1
      /\ more[k + 1] = page /\ \A i \in 1 .. k : more[i] = pages[i]
      /\ page.first = upto + 1 /\ page.last = last
  OBVIOUS
<1>2. \A i \in 1 .. k : pages[i].first \in Nat /\ pages[i].last \in Nat
  <2>1. \A i \in 1 .. k : pages[i] \in LinePages
    OBVIOUS
  <2> QED
    BY <2>1 DEF LinePages
<1> HIDE DEF more, page, k
<1>3. \A i \in 1 .. k : pages[i].first <= upto /\ pages[i].last <= upto
  BY <1>1 DEF CoverLines
<1>4. \A i \in 1 .. k + 1 : more[i].first <= next /\ more[i].last <= next
  <2> SUFFICES ASSUME NEW i \in 1 .. k + 1 PROVE more[i].first <= next /\ more[i].last <= next
    OBVIOUS
  <2>1. CASE i = k + 1
    BY <1>1, <2>1
  <2>2. CASE i # k + 1
    <3>1. i \in 1 .. k
      BY <1>1, <2>2
    <3> QED
      BY <1>1, <1>2, <1>3, <3>1
  <2> QED
    BY <2>1, <2>2
<1>5. ASSUME NEW i \in 1 .. k + 1, NEW j \in 1 .. k + 1, i < j
      PROVE  more[i].first < more[j].first /\ more[i].last < more[j].first
  <2>1. i \in 1 .. k
    BY <1>1, <1>5
  <2>2. CASE j = k + 1
    <3>1. more[j].first = upto + 1 /\ more[i] = pages[i]
      BY <1>1, <2>1, <2>2
    <3> QED
      BY <1>2, <1>3, <2>1, <3>1
  <2>3. CASE j # k + 1
    <3>1. j \in 1 .. k
      BY <1>1, <2>3
    <3>2. pages[i].first < pages[j].first /\ pages[i].last < pages[j].first
      BY <1>1, <1>5, <2>1, <3>1 DEF CoverLines
    <3> QED
      BY <1>1, <2>1, <3>1, <3>2
  <2> QED
    BY <2>2, <2>3
<1>6. ASSUME NEW n \in 1 .. next, \A i \in 1 .. k + 1 : n \notin more[i].first .. more[i].last
      PROVE  ~ask.numbered /\ \A m \in n .. next : ask.file[m] = 0 \/ \E i \in 1 .. k + 1 : more[i].first \in n + 1 .. m
  <2>1. k + 1 \in 1 .. k + 1
    BY <1>1
  <2>2. n \notin upto + 1 .. last
    BY <1>1, <1>6, <2>1
  <2>3. CASE n <= upto
    <3>1. n \in 1 .. upto /\ \A i \in 1 .. k : n \notin pages[i].first .. pages[i].last
      <4>1. ASSUME NEW i \in 1 .. k PROVE n \notin pages[i].first .. pages[i].last
        <5>1. i \in 1 .. k + 1
          BY <1>1
        <5> QED
          BY <1>1, <1>6, <5>1
      <4> QED
        BY <2>3, <4>1
    <3>2. ~ask.numbered /\ \A m \in n .. upto : ask.file[m] = 0 \/ \E i \in 1 .. k : pages[i].first \in n + 1 .. m
      BY <1>1, <3>1 DEF CoverLines
    <3>3. ASSUME NEW m \in n .. next PROVE ask.file[m] = 0 \/ \E i \in 1 .. k + 1 : more[i].first \in n + 1 .. m
      <4>1. CASE m <= upto
        <5>1. m \in n .. upto
          BY <4>1
        <5>2. CASE ask.file[m] = 0
          BY <5>2
        <5>3. CASE ask.file[m] # 0
          <6>1. PICK i \in 1 .. k : pages[i].first \in n + 1 .. m
            BY <3>2, <5>1, <5>3
          <6>2. i \in 1 .. k + 1 /\ more[i].first \in n + 1 .. m
            BY <1>1, <6>1
          <6> QED
            BY <6>2
        <5> QED
          BY <5>2, <5>3
      <4>2. CASE ~(m <= upto)
        <5>1. more[k + 1].first \in n + 1 .. m
          BY <1>1, <2>3, <4>2
        <5> QED
          BY <2>1, <5>1
      <4> QED
        BY <4>1, <4>2
    <3> QED
      BY <3>2, <3>3
  <2>4. CASE ~(n <= upto)
    <3>1. ASSUME NEW m \in n .. next PROVE ~ask.numbered /\ ask.file[m] = 0
      <4>1. m \in last + 1 .. next
        BY <2>2, <2>4
      <4> QED
        BY <4>1 DEF Blank
    <3>2. n \in n .. next
      OBVIOUS
    <3> QED
      BY <3>1, <3>2
  <2> QED
    BY <2>3, <2>4
<1>7. DOMAIN more = 1 .. k + 1
  BY <1>1
<1> HIDE DEF k
<1>8. CoverLines(ask, more, next)
  BY <1>4, <1>5, <1>6, <1>7 DEF CoverLines
<1> QED
  BY <1>8 DEF more, page

-----------------------------------------------------------------------------
(* web_fetch.                                                              *)

LEMMA SubSeqFacts ==
  ASSUME NEW S, NEW s \in Seq(S), NEW a \in 0 .. Len(s), NEW b \in a .. Len(s)
  PROVE  /\ SubSeq(s, a + 1, b) \in Seq(S)
         /\ Len(SubSeq(s, a + 1, b)) = b - a
         /\ \A i \in 1 .. b - a : SubSeq(s, a + 1, b)[i] = s[a + i]
<1>1. a + 1 \in Int /\ b \in Int /\ \A i \in a + 1 .. b : s[i] \in S
  OBVIOUS
<1>2. /\ SubSeq(s, a + 1, b) \in Seq(S)
      /\ Len(SubSeq(s, a + 1, b)) = IF a + 1 <= b THEN b - (a + 1) + 1 ELSE 0
      /\ \A i \in 1 .. b - (a + 1) + 1 : SubSeq(s, a + 1, b)[i] = s[a + 1 + i - 1]
  BY <1>1, SubSeqProperties
<1> DEFINE part == SubSeq(s, a + 1, b)
<1>3. b - (a + 1) + 1 = b - a
  OBVIOUS
<1>4. part \in Seq(S) /\ \A i \in 1 .. b - a : part[i] = s[a + 1 + i - 1]
  BY <1>2, <1>3
<1>5. Len(part) = b - a
  <2>1. CASE a + 1 <= b
    BY <1>2, <1>3, <2>1
  <2>2. CASE ~(a + 1 <= b)
    <3>1. b - a = 0
      BY <2>2
    <3>2. Len(part) = 0
      BY <1>2, <2>2
    <3> QED
      BY <3>1, <3>2
  <2> QED
    BY <2>1, <2>2
<1> HIDE DEF part
<1>6. ASSUME NEW i \in 1 .. b - a PROVE part[i] = s[a + i]
  <2>1. a + 1 + i - 1 = a + i
    OBVIOUS
  <2>2. part[i] = s[a + 1 + i - 1]
    BY <1>4
  <2> QED
    BY <2>1, <2>2
<1> QED
  BY <1>4, <1>5, <1>6 DEF part

\* A beginning of a part is a part that begins there.
LEMMA PartOfPart ==
  ASSUME NEW S, NEW s \in Seq(S), NEW a \in 0 .. Len(s), NEW b \in a .. Len(s), NEW c \in 0 .. b - a
  PROVE  SubSeq(SubSeq(s, a + 1, b), 1, c) = SubSeq(s, a + 1, a + c)
<1>1. CASE c = 0
  <2>1. SubSeq(SubSeq(s, a + 1, b), 1, 0) = <<>> /\ SubSeq(s, a + 1, a) = <<>>
    BY SubSeqEmpty
  <2> QED
    BY <1>1, <2>1
<1>2. CASE c # 0
  <2>1. /\ a + 1 \in 1 .. Len(s) /\ b \in 1 .. Len(s)
        /\ 1 \in 1 .. b - (a + 1) + 1 /\ c \in 1 .. b - (a + 1) + 1
    BY <1>2
  <2>2. SubSeq(SubSeq(s, a + 1, b), 1, c) = SubSeq(s, (a + 1) + 1 - 1, (a + 1) + c - 1)
    BY <2>1, SubSeqOfSubSeq
  <2>3. (a + 1) + 1 - 1 = a + 1 /\ (a + 1) + c - 1 = a + c
    OBVIOUS
  <2> QED
    BY <2>2, <2>3
<1> QED
  BY <1>1, <1>2

\* The line ends among the first n bytes.
BreaksTo(text, n) == {i \in Breaks(text) : i <= n}

LEMMA BreaksFinite ==
  ASSUME NEW S, NEW text \in Seq(S), NEW n
  PROVE  /\ Breaks(text) \subseteq 1 .. Len(text)
         /\ IsFiniteSet(Breaks(text)) /\ Cardinality(Breaks(text)) \in Nat
         /\ IsFiniteSet(BreaksTo(text, n)) /\ Cardinality(BreaksTo(text, n)) \in Nat
         /\ Cardinality(BreaksTo(text, n)) <= Cardinality(Breaks(text))
<1>1. Breaks(text) \in SUBSET (1 .. Len(text)) /\ BreaksTo(text, n) \in SUBSET Breaks(text)
  BY DEF Breaks, BreaksTo
<1>2. IsFiniteSet(1 .. Len(text))
  BY FS_Interval
<1>3. IsFiniteSet(Breaks(text))
  BY <1>1, <1>2, FS_Subset
<1>4. IsFiniteSet(BreaksTo(text, n)) /\ Cardinality(BreaksTo(text, n)) <= Cardinality(Breaks(text))
  BY <1>1, <1>3, FS_Subset
<1> QED
  BY <1>1, <1>3, <1>4, FS_CardinalityType

LEMMA BreaksStep ==
  ASSUME NEW S, NEW text \in Seq(S), NEW n \in Nat
  PROVE  Cardinality(BreaksTo(text, n + 1)) =
            IF n + 1 \in Breaks(text) THEN Cardinality(BreaksTo(text, n)) + 1 ELSE Cardinality(BreaksTo(text, n))
<1>1. Breaks(text) \subseteq Int
  BY DEF Breaks
<1>2. CASE n + 1 \in Breaks(text)
  <2>1. BreaksTo(text, n + 1) = BreaksTo(text, n) \cup {n + 1} /\ n + 1 \notin BreaksTo(text, n)
    BY <1>1, <1>2 DEF BreaksTo
  <2>2. IsFiniteSet(BreaksTo(text, n))
    BY BreaksFinite
  <2> QED
    BY <1>2, <2>1, <2>2, FS_AddElement
<1>3. CASE n + 1 \notin Breaks(text)
  <2>1. BreaksTo(text, n + 1) = BreaksTo(text, n)
    BY <1>1, <1>3 DEF BreaksTo
  <2> QED
    BY <1>3, <2>1
<1> QED
  BY <1>2, <1>3

LEMMA BreaksNone == \A S : \A text \in Seq(S) : Cardinality(BreaksTo(text, 0)) = 0
<1> SUFFICES ASSUME NEW S, NEW text \in Seq(S) PROVE Cardinality(BreaksTo(text, 0)) = 0
  OBVIOUS
<1>1. BreaksTo(text, 0) = {}
  BY DEF BreaksTo, Breaks
<1> QED
  BY <1>1, FS_EmptySet

\* The place behind a line end is found by its number.
LEMMA BehindBreak ==
  ASSUME NEW S, NEW text \in Seq(S), NEW i \in Breaks(text)
  PROVE  Behind(text, Cardinality(BreaksTo(text, i))) = i
<1> DEFINE n == Cardinality(BreaksTo(text, i))
           Is(k) == Cardinality({j \in Breaks(text) : j <= k}) = n
<1>1. Breaks(text) \subseteq Int /\ i \in BreaksTo(text, i)
  BY DEF Breaks, BreaksTo
<1>2. n \in Nat /\ n # 0 /\ ~(Cardinality(Breaks(text)) < n)
  <2>1. IsFiniteSet(BreaksTo(text, i)) /\ BreaksTo(text, i) # {}
    BY <1>1, BreaksFinite
  <2>2. n # 0
    BY <2>1, FS_EmptySet
  <2> QED
    BY <2>2, BreaksFinite
<1>3. Is(i)
  BY DEF BreaksTo
<1>4. ASSUME NEW k \in Breaks(text), Is(k) PROVE k = i
  <2>1. Cardinality(BreaksTo(text, k)) = Cardinality(BreaksTo(text, i))
    BY <1>4 DEF BreaksTo
  <2>2. k \in BreaksTo(text, k) /\ k \in Int /\ i \in Int
    BY <1>1 DEF BreaksTo
  <2>3. IsFiniteSet(BreaksTo(text, k)) /\ IsFiniteSet(BreaksTo(text, i))
    BY BreaksFinite
  <2>4. CASE k < i
    <3>1. BreaksTo(text, k) \in SUBSET BreaksTo(text, i) /\ i \notin BreaksTo(text, k)
      BY <1>1, <2>2, <2>4 DEF BreaksTo
    <3>2. BreaksTo(text, i) = BreaksTo(text, k)
      BY <2>1, <2>3, <3>1, FS_Subset
    <3> QED
      BY <1>1, <3>1, <3>2
  <2>5. CASE i < k
    <3>1. BreaksTo(text, i) \in SUBSET BreaksTo(text, k) /\ k \notin BreaksTo(text, i)
      BY <1>1, <2>2, <2>5 DEF BreaksTo
    <3>2. BreaksTo(text, k) = BreaksTo(text, i)
      BY <2>1, <2>3, <3>1, FS_Subset
    <3> QED
      BY <2>2, <3>1, <3>2
  <2> QED
    BY <2>2, <2>4, <2>5
<1>5. Behind(text, n) = CHOOSE k \in Breaks(text) : Is(k)
  <2> HIDE DEF n
  <2> QED
    BY <1>2 DEF Behind
<1> HIDE DEF Is, n
<1>6. (CHOOSE k \in Breaks(text) : Is(k)) = i
  BY <1>3, <1>4
<1> QED
  BY <1>5, <1>6 DEF n

LEMMA BehindRange ==
  ASSUME NEW S, NEW text \in Seq(S), NEW n \in Nat
  PROVE  Behind(text, n) \in 0 .. Len(text)
<1> DEFINE C(i) == Cardinality(BreaksTo(text, i))
<1>1. CASE n = 0 \/ Cardinality(Breaks(text)) < n
  BY <1>1 DEF Behind
<1>2. CASE n # 0 /\ ~(Cardinality(Breaks(text)) < n)
  <2> DEFINE T == {i \in Nat : C(i) >= n}
  <2>1. Len(text) \in T
    <3>1. BreaksTo(text, Len(text)) = Breaks(text)
      <4>1. \A i \in Breaks(text) : i <= Len(text)
        BY DEF Breaks
      <4> QED
        BY <4>1 DEF BreaksTo
    <3> QED
      BY <1>2, <3>1, BreaksFinite
  <2>2. PICK i \in T : \A k \in T : i <= k
    <3>1. T \subseteq Nat /\ T # {}
      BY <2>1
    <3> HIDE DEF T
    <3> QED
      BY <3>1, LeastNat, Zenon
  <2>3. i # 0
    <3>1. C(0) = 0
      BY BreaksNone
    <3> QED
      BY <1>2, <2>2, <3>1
  <2>4. i - 1 \in Nat /\ (i - 1) + 1 = i /\ C(i - 1) \in Nat /\ C(i) \in Nat
    BY <2>2, <2>3, BreaksFinite
  <2>5. C(i - 1) < n
    BY <2>2, <2>4
  <2>6. C(i) = IF i \in Breaks(text) THEN C(i - 1) + 1 ELSE C(i - 1)
    BY <2>4, BreaksStep
  <2> HIDE DEF C
  <2>7. i \in Breaks(text) /\ C(i) = n
    BY <2>2, <2>4, <2>5, <2>6
  <2>8. Behind(text, n) = i
    BY <2>7, BehindBreak DEF C
  <2> QED
    BY <2>7, <2>8, BreaksFinite
<1> QED
  BY <1>1, <1>2

\* The line ends of a text are those before a place and those in what follows.
LEMMA BreaksAdd ==
  ASSUME NEW S, NEW text \in Seq(S), NEW a \in 0 .. Len(text), NEW c \in 0 .. Len(text) - a
  PROVE  Cardinality(BreaksTo(text, a + c)) =
            Cardinality(BreaksTo(text, a)) + Cardinality(Breaks(SubSeq(text, a + 1, a + c)))
<1> DEFINE In(n) == {i \in 1 .. n : text[a + i] = "nl"}
           C(n) == Cardinality(BreaksTo(text, n))
           T == {n \in Nat : a + n <= Len(text) => C(a + n) = C(a) + Cardinality(In(n))}
<1>1. 0 \in T
  <2>1. In(0) = {}
    OBVIOUS
  <2>2. Cardinality(In(0)) = 0 /\ C(a) \in Nat /\ a + 0 = a
    BY <2>1, FS_EmptySet, BreaksFinite
  <2> HIDE DEF In, C
  <2> QED
    BY <2>2
<1>2. ASSUME NEW n \in Nat, n \in T PROVE n + 1 \in T
  <2> SUFFICES ASSUME a + (n + 1) <= Len(text) PROVE C(a + (n + 1)) = C(a) + Cardinality(In(n + 1))
    OBVIOUS
  <2>1. a + (n + 1) = (a + n) + 1 /\ a + n \in Nat /\ (a + n) + 1 \in 1 .. Len(text) /\ a + n <= Len(text)
    OBVIOUS
  <2>2. C((a + n) + 1) = IF (a + n) + 1 \in Breaks(text) THEN C(a + n) + 1 ELSE C(a + n)
    BY <2>1, BreaksStep
  <2>3. C(a + n) = C(a) + Cardinality(In(n)) /\ C(a) \in Nat
    BY <1>2, <2>1, BreaksFinite
  <2>4. IsFiniteSet(In(n)) /\ Cardinality(In(n)) \in Nat
    <3>1. IsFiniteSet(1 .. n)
      BY FS_Interval
    <3>2. In(n) \in SUBSET (1 .. n)
      OBVIOUS
    <3> QED
      BY <3>1, <3>2, FS_Subset, FS_CardinalityType
  <2>5. (a + n) + 1 \in Breaks(text) <=> text[a + (n + 1)] = "nl"
    BY <2>1 DEF Breaks
  <2>6. CASE text[a + (n + 1)] = "nl"
    <3>1. In(n + 1) = In(n) \cup {n + 1} /\ n + 1 \notin In(n)
      BY <2>6
    <3>2. Cardinality(In(n + 1)) = Cardinality(In(n)) + 1
      <4> HIDE DEF In
      <4> QED
        BY <2>4, <3>1, FS_AddElement
    <3> HIDE DEF In, C
    <3>3. C((a + n) + 1) = C(a + n) + 1
      BY <2>2, <2>5, <2>6
    <3>4. C((a + n) + 1) = C(a) + Cardinality(In(n + 1))
      BY <2>3, <2>4, <3>2, <3>3
    <3> QED
      BY <2>1, <3>4
  <2>7. CASE text[a + (n + 1)] # "nl"
    <3>1. In(n + 1) = In(n)
      BY <2>7
    <3> HIDE DEF In, C
    <3> QED
      BY <2>1, <2>2, <2>3, <2>5, <2>7, <3>1
  <2> QED
    BY <2>6, <2>7
<1>3. c \in T
  <2> HIDE DEF T
  <2> QED
    BY <1>1, <1>2, NatSetInduction
<1>4. Breaks(SubSeq(text, a + 1, a + c)) = In(c)
  <2>1. a + c \in a .. Len(text) /\ (a + c) - a = c
    OBVIOUS
  <2> DEFINE s == SubSeq(text, a + 1, a + c)
  <2>2. s \in Seq(S) /\ Len(s) = c /\ \A i \in 1 .. c : s[i] = text[a + i]
    BY <2>1, SubSeqFacts
  <2> HIDE DEF s
  <2>3. DOMAIN s = 1 .. c
    BY <2>2
  <2> QED
    BY <2>2, <2>3 DEF Breaks, s
<1>5. C(a + c) = C(a) + Cardinality(In(c))
  BY <1>3
<1> HIDE DEF In
<1> QED
  BY <1>4, <1>5

LEMMA PrefixOfPrefix ==
  ASSUME NEW S, NEW s \in Seq(S), NEW b \in 0 .. Len(s), NEW c \in 0 .. b
  PROVE  /\ SubSeq(s, 1, b) \in Seq(S) /\ Len(SubSeq(s, 1, b)) = b
         /\ SubSeq(SubSeq(s, 1, b), 1, c) = SubSeq(s, 1, c)
<1>1. 0 \in 0 .. Len(s) /\ b \in 0 .. Len(s) /\ c \in 0 .. b - 0 /\ 0 + 1 = 1 /\ 0 + c = c /\ b - 0 = b
  OBVIOUS
<1>2. SubSeq(SubSeq(s, 0 + 1, b), 1, c) = SubSeq(s, 0 + 1, 0 + c)
  BY <1>1, PartOfPart
<1>3. SubSeq(s, 0 + 1, b) \in Seq(S) /\ Len(SubSeq(s, 0 + 1, b)) = b - 0
  BY <1>1, SubSeqFacts
<1> QED
  BY <1>1, <1>2, <1>3

\* What a projection shows is a beginning of what there is.
LEMMA ProjectionBegins ==
  ASSUME NEW S, NEW text \in Seq(S), NEW limits \in [bytes : Nat, lines : Nat]
  PROVE  \E c \in 0 .. Len(text) : ProjectContent(text, limits) = SubSeq(text, 1, c)
<1> DEFINE Begins(q) == \E c \in 0 .. Len(text) : q = SubSeq(text, 1, c)
           q == PrefixByLines(text, limits.lines)
           n == limits.bytes
<1>0. limits.lines \in Nat /\ n \in Nat
  OBVIOUS
<1>1. text = SubSeq(text, 1, Len(text)) /\ Len(text) \in 0 .. Len(text)
  BY SubSeqFull
<1>2. \E c \in 0 .. Len(text) : q = SubSeq(text, 1, c)
  <2>1. CASE limits.lines = 0 \/ CountLines(text) <= limits.lines
    BY <1>1, <2>1 DEF PrefixByLines
  <2>2. CASE ~(limits.lines = 0 \/ CountLines(text) <= limits.lines)
    <3>1. Behind(text, limits.lines) \in 0 .. Len(text)
      BY <1>0, BehindRange
    <3>2. q = SubSeq(text, 1, Behind(text, limits.lines))
      BY <2>2 DEF PrefixByLines
    <3> QED
      BY <3>1, <3>2
  <2> QED
    BY <2>1, <2>2
<1>3. PICK a \in 0 .. Len(text) : q = SubSeq(text, 1, a)
  BY <1>2
<1>4. q \in Seq(S) /\ Len(q) = a /\ \A c \in 0 .. a : SubSeq(q, 1, c) = SubSeq(text, 1, c)
  BY <1>3, PrefixOfPrefix
<1> HIDE DEF q, n
<1>5. CASE n = 0 \/ Len(q) <= n
  <2>1. PrefixByBytes(q, n) = q
    BY <1>5 DEF PrefixByBytes
  <2> QED
    BY <1>3, <2>1 DEF ProjectContent, q, n
<1>6. CASE ~(n = 0 \/ Len(q) <= n)
  <2> DEFINE cut == SubSeq(q, 1, n)
             m == IF Whole(cut) THEN n ELSE n - 1
             chars == SubSeq(q, 1, m)
             i == CHOOSE k \in Breaks(chars) : \A j \in Breaks(chars) : j <= k
  <2>1. m \in 0 .. a /\ m \in 0 .. Len(q)
    BY <1>0, <1>4, <1>6
  <2>2. chars \in Seq(S) /\ Len(chars) = m
    <3> HIDE DEF m
    <3> QED
      BY <1>4, <2>1, PrefixOfPrefix
  <2>3. PrefixByBytes(q, n) = IF Breaks(chars) = {} THEN chars ELSE SubSeq(chars, 1, i)
    <3>1. CASE Whole(cut)
      BY <1>6, <3>1 DEF PrefixByBytes
    <3>2. CASE ~Whole(cut)
      BY <1>6, <3>2 DEF PrefixByBytes
    <3> QED
      BY <3>1, <3>2
  <2> HIDE DEF m
  <2>4. CASE Breaks(chars) = {}
    <3>1. chars = SubSeq(text, 1, m) /\ m \in 0 .. Len(text)
      BY <1>4, <2>1
    <3> HIDE DEF chars
    <3> QED
      BY <2>3, <2>4, <3>1 DEF ProjectContent, q, n
  <2>5. CASE Breaks(chars) # {}
    <3> HIDE DEF chars
    <3>1. Breaks(chars) \subseteq 1 .. m /\ 1 \in Int /\ m \in Int
      BY <2>1, <2>2 DEF Breaks
    <3>2. \E k \in Breaks(chars) : \A j \in Breaks(chars) : j <= k
      BY <2>5, <3>1, GreatestInt, Zenon
    <3>3. i \in Breaks(chars)
      BY <3>2
    <3> HIDE DEF i
    <3>4. i \in 0 .. m /\ i \in 0 .. a
      BY <2>1, <3>1, <3>3
    <3>5. SubSeq(chars, 1, i) = SubSeq(q, 1, i)
      BY <1>4, <2>1, <3>4, PrefixOfPrefix DEF chars
    <3>6. SubSeq(chars, 1, i) = SubSeq(text, 1, i) /\ i \in 0 .. Len(text)
      BY <1>4, <3>4, <3>5
    <3> QED
      BY <2>3, <2>5, <3>6 DEF ProjectContent, q, n
  <2> QED
    BY <2>4, <2>5
<1> QED
  BY <1>5, <1>6

-----------------------------------------------------------------------------
(* The reader.                                                             *)

\* A cursor of the n-th byte: the lines that end before it, and the bytes from there.
Names(cursor, text, n) ==
  /\ cursor \in [line : Nat, byte : Nat]
  /\ cursor.line = Cardinality(BreaksTo(text, n))
  /\ n = Behind(text, cursor.line) + cursor.byte

\* What the pages so far hold, and where the next one starts, for each of the
\* readers; over: nothing is left to ask for.
Reading(ask, got, over) ==
  /\ ask.kind = "read" /\ DOMAIN ask = {"kind", "file", "mode", "numbered", "from", "to"}
  /\ ask.file \in Seq(Nat)
  /\ Fits(ask) =>
        /\ got \in Seq(LinePages)
        /\ ask.to \in Nat /\ ask.from \in 1 .. Len(ask.file) + 1
        /\ CoverLines(ask, got, IF over THEN Len(ask.file) ELSE ask.from - 1)
Fetching(ask, got, over) ==
  /\ ask.kind = "fetch" /\ DOMAIN ask = {"kind", "text", "limits", "from"}
  /\ ask.text \in Seq({"a", "nl", "L", "C"}) /\ ask.limits \in [bytes : Nat, lines : Nat]
  /\ \E n \in 0 .. Len(ask.text) :
        /\ got = SubSeq(ask.text, 1, n)
        /\ IF over THEN n = Len(ask.text)
           ELSE Names(ask.from, ask.text, n)
Batching(ask, got, over) ==
  /\ ask.kind = "multi" /\ DOMAIN ask = {"kind", "batch", "from"}
  /\ ask.batch \in Seq(Nat)
  /\ \E n \in 0 .. Len(ask.batch) :
        /\ got = UpTo(n)
        /\ IF over THEN n = Len(ask.batch) ELSE ask.from = n + 1
Reader(ask, got, over) == Reading(ask, got, over) \/ Fetching(ask, got, over) \/ Batching(ask, got, over)
PagInv == IF Ended THEN Reader(pagAsk.of, pagGot, TRUE) ELSE Reader(pagAsk, pagGot, FALSE)

\* What a page from first to last adds to what was read.
Lines(first, last) == [i \in 1 .. last - first + 1 |-> first + i - 1]

LEMMA UpToGoesOn ==
  ASSUME NEW n \in Nat, NEW first, first = n + 1, NEW last \in Nat, n <= last
  PROVE  UpTo(n) \o Lines(first, last) = UpTo(last)
<1> DEFINE s == UpTo(n)
           t == [i \in 1 .. last - first + 1 |-> first + i - 1]
           u == UpTo(last)
<1>1. s \in Seq(Nat) /\ Len(s) = n /\ \A i \in 1 .. n : s[i] = i
  BY DEF UpTo
<1>2. last - first + 1 = last - n
  OBVIOUS
<1>3. t \in Seq(Nat) /\ Len(t) = last - n /\ \A i \in 1 .. last - n : t[i] = n + i
  <2>1. t = [i \in 1 .. last - n |-> n + i]
    BY <1>2
  <2> HIDE DEF t
  <2> QED
    BY <2>1
<1>4. u \in Seq(Nat) /\ Len(u) = last /\ \A i \in 1 .. last : u[i] = i
  BY DEF UpTo
<1> HIDE DEF s, t, u
<1>5. s \o t \in Seq(Nat) /\ Len(s \o t) = last
  BY <1>1, <1>3
<1>6. ASSUME NEW i \in 1 .. last PROVE (s \o t)[i] = i
  <2>1. CASE i <= n
    BY <1>1, <1>3, <2>1
  <2>2. CASE ~(i <= n)
    <3>1. (s \o t)[i] = t[i - n] /\ i - n \in 1 .. last - n /\ n + (i - n) = i
      BY <1>1, <1>3, <2>2
    <3> QED
      BY <1>3, <3>1
  <2> QED
    BY <2>1, <2>2
<1>7. s \o t = u
  BY <1>4, <1>5, <1>6
<1> QED
  BY <1>7 DEF s, t, u, Lines

LEMMA AskedAgain ==
  ASSUME pagAsk.kind # "end", {"kind", "from"} \subseteq DOMAIN pagAsk, NEW next, NEW end, AskAgain(next, end)
  PROVE  /\ next = end => Ended' /\ (pagAsk.of)' = pagAsk
         /\ next # end => /\ ~Ended' /\ pagAsk' = [pagAsk EXCEPT !.from = next]
                          /\ DOMAIN pagAsk' = DOMAIN pagAsk
                          /\ pagAsk'.from = next
                          /\ \A f \in DOMAIN pagAsk \ {"from"} : pagAsk'[f] = pagAsk[f]
<1>1. CASE next = end
  BY <1>1 DEF AskAgain, Ended
<1>2. CASE next # end
  <2>1. pagAsk' = [pagAsk EXCEPT !.from = next]
    BY <1>2 DEF AskAgain
  <2>2. DOMAIN pagAsk' = DOMAIN pagAsk /\ pagAsk'["from"] = next
    BY <2>1
  <2>3. \A f \in DOMAIN pagAsk \ {"from"} : pagAsk'[f] = pagAsk[f]
    BY <2>1
  <2>4. pagAsk'["kind"] = pagAsk["kind"]
    BY <2>3
  <2> QED
    BY <1>2, <2>1, <2>2, <2>3, <2>4 DEF Ended
<1> QED
  BY <1>1, <1>2

\* A page more of a file.
LEMMA ReadMore ==
  ASSUME NEW ask, ask.file \in Seq(Nat), NEW got, Reading(ask, got, FALSE), Fits(ask), ask.from <= Len(ask.file),
         NEW page, PageIsWhole(page, ask)
  PROVE  LET more == Append(got, [first |-> page.first, last |-> page.last])
         IN  /\ more \in Seq(LinePages)
             /\ CoverLines(ask, more, IF page.next = EndOfPages THEN Len(ask.file) ELSE page.next - 1)
             /\ page.next # EndOfPages => page.next \in ask.from + 1 .. Len(ask.file) + 1
<1> DEFINE upto == ask.from - 1
           last == page.last
           next == IF page.next = EndOfPages THEN Len(ask.file) ELSE page.next - 1
<1>1. got \in Seq(LinePages) /\ ask.from \in 1 .. Len(ask.file) + 1 /\ CoverLines(ask, got, upto)
  BY DEF Reading
<1>2. /\ page.first = ask.from /\ last \in Int /\ page.next \in Nat
      /\ ask.from - 1 <= last /\ last <= next /\ ask.from <= next /\ next <= Len(ask.file)
      /\ Blank(ask, last + 1, next)
  BY DEF PageIsWhole
<1>3. Len(ask.file) \in Nat
  OBVIOUS
<1>4. next \in Int /\ (page.next # EndOfPages => page.next = next + 1)
  BY <1>2, <1>3
<1> HIDE DEF last, next
<1>5. /\ upto \in Nat /\ last \in Nat /\ next \in Nat /\ upto <= last /\ upto + 1 <= next
      /\ ask.from = upto + 1
  BY <1>1, <1>2, <1>3, <1>4
<1>6. page.next # EndOfPages => page.next \in ask.from + 1 .. Len(ask.file) + 1
  BY <1>1, <1>2, <1>3, <1>4
<1> HIDE DEF upto
<1>7. CoverLines(ask, Append(got, [first |-> upto + 1, last |-> last]), next)
  BY <1>1, <1>2, <1>5, CoverGoesOn
<1>8. [first |-> page.first, last |-> page.last] = [first |-> upto + 1, last |-> last]
  BY <1>2, <1>5 DEF last
<1>9. [first |-> upto + 1, last |-> last] \in LinePages
  BY <1>5 DEF LinePages
<1>10. Append(got, [first |-> upto + 1, last |-> last]) \in Seq(LinePages)
  <2> DEFINE r == [first |-> upto + 1, last |-> last]
  <2> HIDE DEF r
  <2> QED
    BY <1>1, <1>9 DEF r
<1> QED
  BY <1>6, <1>7, <1>8, <1>10 DEF next

LEMMA ReadFileStep == PagInv /\ ReadFile => PagInv'
<1> SUFFICES ASSUME PagInv, ReadFile PROVE PagInv'
  OBVIOUS
<1> DEFINE page == ReadPage(pagAsk)
           file == pagAsk.file
           more == Append(pagGot, [first |-> page.first, last |-> page.last])
<1>1. /\ pagAsk.kind = "read" /\ pagAsk.from <= Len(file) /\ pagGot' = more
      /\ pagAsk' = IF page.next = EndOfPages THEN [kind |-> "end", of |-> pagAsk]
                   ELSE [pagAsk EXCEPT !.from = page.next, !.to = NextEnd(pagAsk, page.next)]
  BY DEF ReadFile
<1>2. Reading(pagAsk, pagGot, FALSE)
  BY <1>1 DEF PagInv, Ended, Reader, Fetching, Batching
<1>3. file \in Seq(Nat) /\ DOMAIN pagAsk = {"kind", "file", "mode", "numbered", "from", "to"}
  BY <1>2 DEF Reading
<1>4. ASSUME Fits(pagAsk)
      PROVE  /\ more \in Seq(LinePages)
             /\ pagAsk.to \in Nat /\ pagAsk.from \in 1 .. Len(file)
             /\ CoverLines(pagAsk, more, IF page.next = EndOfPages THEN Len(file) ELSE page.next - 1)
             /\ page.next # EndOfPages => page.next \in pagAsk.from + 1 .. Len(file) + 1
  <2>1. pagAsk.to \in Nat /\ pagAsk.from \in 1 .. Len(file)
    BY <1>1, <1>2, <1>3, <1>4 DEF Reading
  <2>2. PageIsWhole(page, pagAsk)
    BY <1>3, <1>4, <2>1, PageGoesOn
  <2> HIDE DEF page
  <2>3. /\ more \in Seq(LinePages)
        /\ CoverLines(pagAsk, more, IF page.next = EndOfPages THEN Len(pagAsk.file) ELSE page.next - 1)
        /\ page.next # EndOfPages => page.next \in pagAsk.from + 1 .. Len(pagAsk.file) + 1
    BY <1>1, <1>2, <1>3, <1>4, <2>2, ReadMore
  <2> QED
    BY <2>1, <2>3
<1> HIDE DEF page, more
<1>5. CASE page.next = EndOfPages
  <2>1. Ended' /\ (pagAsk.of)' = pagAsk
    BY <1>1, <1>5 DEF Ended
  <2>2. Reading(pagAsk, pagGot', TRUE)
    <3>1. ASSUME Fits(pagAsk)
          PROVE  /\ pagGot' \in Seq(LinePages) /\ pagAsk.to \in Nat /\ pagAsk.from \in 1 .. Len(file) + 1
                 /\ CoverLines(pagAsk, pagGot', Len(file))
      <4>1. /\ more \in Seq(LinePages) /\ pagAsk.to \in Nat /\ pagAsk.from \in 1 .. Len(file)
            /\ CoverLines(pagAsk, more, Len(file))
        BY <1>4, <1>5, <3>1
      <4>2. pagAsk.from \in 1 .. Len(file) + 1
        BY <1>3, <4>1
      <4> QED
        BY <1>1, <4>1, <4>2
    <3> QED
      BY <1>1, <1>3, <3>1 DEF Reading
  <2> QED
    BY <2>1, <2>2 DEF PagInv, Reader
<1>6. CASE page.next # EndOfPages
  <2> DEFINE to == NextEnd(pagAsk, page.next)
  <2>1. pagAsk' = [pagAsk EXCEPT !.from = page.next, !.to = to]
    BY <1>1, <1>6
  <2> HIDE DEF to
  <2>2. /\ pagAsk'.kind = "read" /\ pagAsk'.file = file /\ pagAsk'.numbered = pagAsk.numbered
        /\ pagAsk'.from = page.next /\ pagAsk'.to = to /\ DOMAIN pagAsk' = DOMAIN pagAsk
    BY <1>1, <1>3, <2>1
  <2>3. Fits(pagAsk') <=> Fits(pagAsk)
    BY <2>2 DEF Fits, Rendered
  <2>4. ASSUME Fits(pagAsk)
        PROVE  /\ more \in Seq(LinePages) /\ to \in Nat /\ page.next \in 1 .. Len(file) + 1
               /\ CoverLines(pagAsk, more, page.next - 1)
    <3>1. /\ pagAsk.to \in Nat /\ pagAsk.from \in 1 .. Len(file) /\ Len(file) \in Nat
          /\ page.next \in pagAsk.from + 1 .. Len(file) + 1
          /\ more \in Seq(LinePages) /\ CoverLines(pagAsk, more, page.next - 1)
      BY <1>3, <1>4, <1>6, <2>4
    <3>2. page.next \in 1 .. Len(file) + 1
      BY <3>1
    <3>3. to \in Nat
      BY <3>1 DEF to, NextEnd
    <3> QED
      BY <3>1, <3>2, <3>3
  <2>5. CoverLines(pagAsk', more, page.next - 1) <=> CoverLines(pagAsk, more, page.next - 1)
    BY <2>2 DEF CoverLines
  <2>6. Reading(pagAsk', pagGot', FALSE)
    BY <1>1, <1>3, <2>2, <2>3, <2>4, <2>5 DEF Reading
  <2>7. ~Ended'
    BY <2>2 DEF Ended
  <2> QED
    BY <2>6, <2>7 DEF PagInv, Reader
<1> QED
  BY <1>5, <1>6

\* The cursor behind a page of web_fetch.
Cursor(from, content) ==
  [line |-> from.line + Cardinality(Breaks(content)), byte |-> NextLineByte(from, content)]

\* It names the place the page ends at, whether the page ends a line or not, and
\* behind a page that is not empty it is not the cursor of an ended document.
LEMMA CursorNames ==
  ASSUME NEW S, NEW text \in Seq(S), NEW n \in 0 .. Len(text), NEW c \in 1 .. Len(text) - n,
         NEW from, Names(from, text, n)
  PROVE  /\ Names(Cursor(from, SubSeq(text, n + 1, n + c)), text, n + c)
         /\ Cursor(from, SubSeq(text, n + 1, n + c)) # [line |-> 0, byte |-> 0]
<1> DEFINE content == SubSeq(text, n + 1, n + c)
           B == Breaks(content)
           line == from.line + Cardinality(B)
           byte == NextLineByte(from, content)
<1>0. /\ from.line \in Nat /\ from.byte \in Nat /\ n \in Nat /\ c \in Nat /\ c # 0
      /\ from.line = Cardinality(BreaksTo(text, n)) /\ n = Behind(text, from.line) + from.byte
  BY DEF Names
<1>1. content \in Seq(S) /\ Len(content) = c /\ \A i \in 1 .. c : content[i] = text[n + i]
  <2>1. n + c \in n .. Len(text) /\ (n + c) - n = c
    OBVIOUS
  <2> QED
    BY <2>1, SubSeqFacts
<1>2. B \subseteq 1 .. c /\ IsFiniteSet(B) /\ Cardinality(B) \in Nat
  <2> HIDE DEF content
  <2> QED
    BY <1>1, BreaksFinite
<1>3. line = Cardinality(BreaksTo(text, n + c))
  <2>1. c \in 0 .. Len(text) - n
    OBVIOUS
  <2> QED
    BY <1>0, <2>1, BreaksAdd
<1>4. /\ byte \in Nat /\ (line = 0 => byte # 0)
      /\ n + c = Behind(text, line) + byte
  <2>1. CASE B = {}
    <3>1. byte = from.byte + c
      <4> HIDE DEF content
      <4> QED
        BY <1>1, <2>1 DEF NextLineByte
    <3>2. Cardinality(B) = 0
      BY <2>1, FS_EmptySet
    <3> HIDE DEF B, byte
    <3>3. line = from.line
      BY <1>0, <3>2
    <3>4. Behind(text, from.line) \in Nat
      BY <1>0, BehindRange
    <3>5. Behind(text, line) = Behind(text, from.line)
      BY <3>3
    <3> DEFINE b == Behind(text, from.line)
               y == from.byte
    <3>6. n = b + y /\ y \in Nat /\ b \in Nat /\ byte = y + c
      BY <1>0, <3>1, <3>4
    <3> HIDE DEF line, b, y
    <3>7. n + c = b + byte /\ byte \in Nat /\ byte # 0
      <4>1. n + c = (b + y) + c
        BY <3>6
      <4>2. (b + y) + c = b + (y + c) /\ y + c \in Nat /\ y + c # 0
        BY <1>0, <3>6
      <4> QED
        BY <3>6, <4>1, <4>2
    <3> QED
      BY <3>5, <3>7 DEF b
  <2>2. CASE B # {}
    <3> DEFINE i == CHOOSE k \in B : \A j \in B : j <= k
    <3>1. byte = c - i
      <4>1. Breaks(content) # {}
        BY <2>2
      <4> HIDE DEF content
      <4> QED
        BY <1>1, <4>1 DEF NextLineByte
    <3>2. \E k \in B : \A j \in B : j <= k
      <4> HIDE DEF B
      <4>1. 1 \in Int /\ c \in Int
        BY <1>0
      <4> QED
        BY <1>2, <2>2, <4>1, GreatestInt, Zenon
    <3> HIDE DEF B, byte
    <3>3. i \in B /\ \A j \in B : j <= i
      BY <3>2
    <3> HIDE DEF i
    <3>4. i \in 1 .. c /\ n + i \in Breaks(text)
      <4>1. i \in 1 .. c
        BY <1>2, <3>3
      <4>2. content[i] = "nl"
        BY <3>3 DEF B, Breaks
      <4>3. text[n + i] = "nl"
        <5> HIDE DEF content
        <5> QED
          BY <1>1, <4>1, <4>2
      <4>4. n + i \in 1 .. Len(text)
        BY <1>0, <4>1
      <4> QED
        BY <4>1, <4>3, <4>4 DEF Breaks
    <3>5. BreaksTo(text, n + c) = BreaksTo(text, n + i)
      <4>1. ASSUME NEW k \in Breaks(text), k <= n + c PROVE k <= n + i
        <5>1. CASE k <= n
          BY <1>0, <3>4, <5>1 DEF Breaks
        <5>2. CASE ~(k <= n)
          <6>1. k \in 1 .. Len(text) /\ text[k] = "nl"
            BY DEF Breaks
          <6>2. k - n \in 1 .. c /\ n + (k - n) = k
            BY <1>0, <4>1, <5>2, <6>1
          <6>3. content[k - n] = "nl" /\ DOMAIN content = 1 .. c
            <7> HIDE DEF content
            <7>1. content[k - n] = text[n + (k - n)] /\ DOMAIN content = 1 .. c
              BY <1>1, <6>2
            <7>2. text[n + (k - n)] = text[k]
              BY <6>2
            <7> QED
              BY <6>1, <7>1, <7>2
          <6>4. k - n \in B
            <7> HIDE DEF content
            <7> QED
              BY <6>2, <6>3 DEF B, Breaks
          <6>5. k - n <= i
            BY <3>3, <6>4
          <6> QED
            BY <1>0, <3>4, <6>1, <6>5
        <5> QED
          BY <5>1, <5>2
      <4>2. ASSUME NEW k \in Breaks(text), k <= n + i PROVE k <= n + c
        BY <1>0, <3>4, <4>2 DEF Breaks
      <4> QED
        BY <4>1, <4>2 DEF BreaksTo
    <3>6. Behind(text, line) = n + i
      BY <1>3, <3>4, <3>5, BehindBreak
    <3>7. line # 0
      <4>1. Cardinality(B) # 0
        BY <1>2, <2>2, FS_EmptySet
      <4> QED
        BY <1>0, <1>2, <4>1
    <3> HIDE DEF line
    <3> QED
      BY <1>0, <3>1, <3>4, <3>6, <3>7
  <2> QED
    BY <2>1, <2>2
<1>5. line \in Nat
  BY <1>0, <1>2
<1> DEFINE to == Cursor(from, content)
<1>6. to = [line |-> line, byte |-> byte]
  BY DEF Cursor
<1> HIDE DEF line, byte, content
<1>7. to.line = line /\ to.byte = byte
  BY <1>6
<1>8. to \in [line : Nat, byte : Nat]
  BY <1>4, <1>5, <1>6
<1>9. to # [line |-> 0, byte |-> 0]
  <2> SUFFICES ASSUME to = [line |-> 0, byte |-> 0] PROVE FALSE
    OBVIOUS
  <2>1. to.line = 0 /\ to.byte = 0
    OBVIOUS
  <2> QED
    BY <1>4, <1>7, <2>1
<1>10. Names(to, text, n + c)
  BY <1>3, <1>4, <1>7, <1>8 DEF Names
<1> HIDE DEF to
<1> QED
  BY <1>9, <1>10 DEF to, content

Bytes == {"a", "nl", "L", "C"}

\* A page of web_fetch holds the c bytes behind the n-th one, and names the
\* cursor behind them.
PageHolds(page, ask, n, c) ==
  /\ page.content = SubSeq(ask.text, n + 1, n + c)
  /\ c = Len(ask.text) - n => page.next = [line |-> 0, byte |-> 0]
  /\ c # Len(ask.text) - n => c # 0 /\ page.next = Cursor(ask.from, SubSeq(ask.text, n + 1, n + c))

LEMMA FetchedPage ==
  ASSUME NEW ask, ask.text \in Seq(Bytes), ask.limits \in [bytes : Nat, lines : Nat],
         NEW n \in 0 .. Len(ask.text), Names(ask.from, ask.text, n), ~FetchPage(ask).error
  PROVE  \E c \in 0 .. Len(ask.text) - n : PageHolds(FetchPage(ask), ask, n, c)
<1> DEFINE text == ask.text
           start == Behind(ask.text, ask.from.line) + ask.from.byte
           rest == SubSeq(text, n + 1, Len(text))
           content == ProjectContent(rest, ask.limits)
           page == FetchPage(ask)
<1>0. text \in Seq(Bytes) /\ Len(text) \in Nat /\ n \in Nat
  OBVIOUS
<1>1. /\ page.content = content
      /\ page.error <=> rest # <<>> /\ content = <<>>
      /\ page.next = IF Len(content) < Len(rest) THEN Cursor(ask.from, content) ELSE [line |-> 0, byte |-> 0]
  <2>1. start = n
    BY DEF Names
  <2>2. rest = SubSeq(ask.text, start + 1, Len(ask.text))
    BY <2>1
  <2> HIDE DEF start, rest
  <2> QED
    BY <2>2 DEF FetchPage, Cursor, start
<1>2. rest \in Seq(Bytes) /\ Len(rest) = Len(text) - n
  <2>1. Len(text) \in n .. Len(text)
    BY <1>0
  <2> HIDE DEF text
  <2> QED
    BY <1>0, <2>1, SubSeqFacts
<1>3. PICK c \in 0 .. Len(rest) : content = SubSeq(rest, 1, c)
  <2> HIDE DEF rest
  <2> QED
    BY <1>2, ProjectionBegins
<1>4. c \in 0 .. Len(text) - n /\ c \in Nat
  BY <1>0, <1>2, <1>3
<1>5. content = SubSeq(text, n + 1, n + c)
  <2>1. n \in 0 .. Len(text) /\ Len(text) \in n .. Len(text)
    BY <1>0
  <2> HIDE DEF text
  <2>2. SubSeq(rest, 1, c) = SubSeq(text, n + 1, n + c)
    BY <1>0, <1>4, <2>1, PartOfPart
  <2> QED
    BY <1>3, <2>2
<1>6. Len(content) = c /\ content \in Seq(Bytes)
  <2>1. n \in 0 .. Len(text) /\ n + c \in n .. Len(text) /\ (n + c) - n = c
    BY <1>0, <1>4
  <2> HIDE DEF content, text
  <2> QED
    BY <1>0, <1>5, <2>1, SubSeqFacts
<1> HIDE DEF rest, content, page, text
<1>7. CASE c = Len(text) - n
  <2>1. page.next = [line |-> 0, byte |-> 0]
    BY <1>1, <1>2, <1>4, <1>6, <1>7
  <2>2. page.content = SubSeq(ask.text, n + 1, n + c) /\ c = Len(ask.text) - n
    BY <1>1, <1>5, <1>7 DEF text
  <2>3. PageHolds(page, ask, n, c)
    BY <2>1, <2>2 DEF PageHolds
  <2> QED
    BY <1>4, <2>3 DEF page, text
<1>8. CASE c # Len(text) - n
  <2>1. c < Len(rest) /\ rest # <<>>
    <3>1. c # Len(rest) /\ Len(rest) \in Nat
      BY <1>2, <1>8
    <3>2. c < Len(rest) /\ Len(rest) # 0
      BY <1>4, <3>1
    <3> QED
      BY <3>2
  <2>2. content # <<>>
    BY <1>1, <2>1 DEF page
  <2>3. c # 0
    BY <1>6, <2>2
  <2>4. page.next = Cursor(ask.from, content)
    BY <1>1, <1>6, <2>1
  <2>5. content = SubSeq(ask.text, n + 1, n + c) /\ page.content = content /\ c # Len(ask.text) - n
    BY <1>1, <1>5, <1>8 DEF text
  <2>6. PageHolds(page, ask, n, c)
    BY <2>3, <2>4, <2>5 DEF PageHolds
  <2> QED
    BY <1>4, <2>6 DEF page, text
<1> QED
  BY <1>7, <1>8

LEMMA WebFetchPageStep == PagInv /\ WebFetchPage => PagInv'
<1> SUFFICES ASSUME PagInv, WebFetchPage PROVE PagInv'
  OBVIOUS
<1> DEFINE page == FetchPage(pagAsk)
           text == pagAsk.text
           zero == [line |-> 0, byte |-> 0]
<1>1. /\ pagAsk.kind = "fetch" /\ ~page.error
      /\ pagGot' = pagGot \o page.content
      /\ AskAgain(page.next, zero)
  BY DEF WebFetchPage
<1>2. Fetching(pagAsk, pagGot, FALSE)
  BY <1>1 DEF PagInv, Ended, Reader, Reading, Batching
<1>3. /\ text \in Seq(Bytes) /\ pagAsk.limits \in [bytes : Nat, lines : Nat]
      /\ DOMAIN pagAsk = {"kind", "text", "limits", "from"}
  BY <1>2 DEF Fetching, Bytes
<1>4. PICK n \in 0 .. Len(text) : pagGot = SubSeq(text, 1, n) /\ Names(pagAsk.from, text, n)
  BY <1>2 DEF Fetching
<1>5. PICK c \in 0 .. Len(text) - n :
         /\ page.content = SubSeq(text, n + 1, n + c)
         /\ c = Len(text) - n => page.next = zero
         /\ c # Len(text) - n => c # 0 /\ page.next = Cursor(pagAsk.from, SubSeq(text, n + 1, n + c))
  <2>1. \E c \in 0 .. Len(text) - n : PageHolds(page, pagAsk, n, c)
    BY <1>1, <1>3, <1>4, FetchedPage, Zenon
  <2> HIDE DEF page
  <2> QED
    BY <2>1 DEF PageHolds
<1> HIDE DEF page
<1>6. pagGot' = SubSeq(text, 1, n + c) /\ n + c \in 0 .. Len(text)
  <2>1. /\ 1 \in 1 .. Len(text) + 1 /\ n \in 1 - 1 .. Len(text) /\ n + c \in n .. Len(text)
        /\ n + c \in 0 .. Len(text)
    BY <1>3
  <2> HIDE DEF text
  <2>2. SubSeq(text, 1, n) \o SubSeq(text, n + 1, n + c) = SubSeq(text, 1, n + c)
    BY <1>3, <2>1, ConcatAdjacentSubSeq
  <2> QED
    BY <1>1, <1>4, <1>5, <2>1, <2>2
<1>7. CASE c = Len(text) - n
  <2>1. Ended' /\ (pagAsk.of)' = pagAsk
    <3>1. page.next = zero /\ pagAsk.kind # "end" /\ {"kind", "from"} \subseteq DOMAIN pagAsk
      BY <1>1, <1>3, <1>5, <1>7
    <3> HIDE DEF zero
    <3> QED
      BY <1>1, <3>1, AskedAgain
  <2>2. n + c = Len(text)
    BY <1>3, <1>7
  <2>3. Fetching(pagAsk, pagGot', TRUE)
    <3>1. \E m \in 0 .. Len(pagAsk.text) : pagGot' = SubSeq(pagAsk.text, 1, m) /\ m = Len(pagAsk.text)
      BY <1>6, <2>2
    <3> QED
      BY <1>1, <1>3, <3>1 DEF Fetching, Bytes
  <2> QED
    BY <2>1, <2>3 DEF PagInv, Reader
<1>8. CASE c # Len(text) - n
  <2> DEFINE to == page.next
  <2>1. Names(to, text, n + c) /\ to # zero
    <3>1. c \in 1 .. Len(text) - n /\ n \in 0 .. Len(text)
      BY <1>3, <1>5, <1>8
    <3>2. to = Cursor(pagAsk.from, SubSeq(text, n + 1, n + c))
      BY <1>5, <1>8
    <3> HIDE DEF text, to
    <3> QED
      BY <1>3, <1>4, <3>1, <3>2, CursorNames, Zenon
  <2>2. /\ ~Ended' /\ DOMAIN pagAsk' = DOMAIN pagAsk /\ pagAsk'.from = to
        /\ \A f \in DOMAIN pagAsk \ {"from"} : pagAsk'[f] = pagAsk[f]
    <3>1. to # zero /\ pagAsk.kind # "end" /\ {"kind", "from"} \subseteq DOMAIN pagAsk
      BY <1>1, <1>3, <2>1
    <3> HIDE DEF zero
    <3> QED
      BY <1>1, <3>1, AskedAgain
  <2>3. pagAsk'.kind = "fetch" /\ pagAsk'.text = text /\ pagAsk'.limits = pagAsk.limits
    BY <1>1, <1>3, <2>2
  <2>4. \E m \in 0 .. Len(pagAsk'.text) :
           pagGot' = SubSeq(pagAsk'.text, 1, m) /\ Names(pagAsk'.from, pagAsk'.text, m)
    BY <1>6, <2>1, <2>2, <2>3
  <2>5. Fetching(pagAsk', pagGot', FALSE)
    BY <1>3, <2>2, <2>3, <2>4 DEF Fetching, Bytes
  <2> QED
    BY <2>2, <2>5 DEF PagInv, Reader
<1> QED
  BY <1>7, <1>8

\* A batch goes on with the first file that did not fit.
LEMMA BatchRange ==
  ASSUME NEW batch \in Seq(Nat), NEW from \in 1 .. Len(batch) + 1
  PROVE  (CHOOSE k \in from - 1 .. Len(batch) :
             /\ MultiFits(batch, from, k)
             /\ k = Len(batch) \/ ~MultiFits(batch, from, k + 1)) \in from - 1 .. Len(batch)
<1> DEFINE lo == from - 1
           hi == Len(batch)
           F == {k \in Int : MultiFits(batch, from, k)}
           LastFit(k) == MultiFits(batch, from, k) /\ (k = hi \/ ~MultiFits(batch, from, k + 1))
<1>1. lo \in Int /\ hi \in Int /\ lo <= hi /\ from \in Int
  OBVIOUS
<1>2. lo \in F
  <2>1. SubSeq(batch, from, from - 1) = <<>>
    BY <1>1, SubSeqEmpty
  <2>2. <<>> \in Seq(Nat) /\ Len(<<>>) = 0
    OBVIOUS
  <2>3. SumOf(<<>>) = 0
    BY <2>2, SumType
  <2>4. SumOf(SubSeq(batch, from, lo)) = 0
    BY <2>1, <2>3
  <2>5. MultiFits(batch, from, lo)
    BY <2>4, PagAssumption DEF MultiFits
  <2> HIDE DEF lo
  <2> QED
    BY <1>1, <2>5
<1>3. PICK k \in lo .. hi : k \in F /\ (k = hi \/ k + 1 \notin F)
  <2> HIDE DEF F, lo, hi
  <2> QED
    BY <1>1, <1>2, LastFitting, Zenon
<1>4. LastFit(k)
  <2>1. k + 1 \in Int
    BY <1>1, <1>3
  <2> QED
    BY <1>3, <2>1
<1> HIDE DEF LastFit, lo
<1>5. (CHOOSE j \in lo .. hi : LastFit(j)) \in lo .. hi
  BY <1>3, <1>4
<1> QED
  BY <1>5 DEF LastFit, lo

LEMMA MultiReadStep == PagInv /\ MultiRead => PagInv'
<1> SUFFICES ASSUME PagInv, MultiRead PROVE PagInv'
  OBVIOUS
<1> DEFINE batch == pagAsk.batch
           from == pagAsk.from
           to == CHOOSE k \in from - 1 .. Len(batch) :
                    /\ MultiFits(batch, from, k)
                    /\ k = Len(batch) \/ ~MultiFits(batch, from, k + 1)
           next == IF to = Len(batch) THEN EndOfPages ELSE to + 1
<1>1. /\ pagAsk.kind = "multi"
      /\ pagGot' = pagGot \o Lines(from, to)
      /\ AskAgain(next, EndOfPages)
  BY DEF MultiRead, Lines
<1>2. Batching(pagAsk, pagGot, FALSE)
  BY <1>1 DEF PagInv, Ended, Reader, Reading, Fetching
<1>3. batch \in Seq(Nat) /\ DOMAIN pagAsk = {"kind", "batch", "from"}
  BY <1>2 DEF Batching
<1>4. PICK n \in 0 .. Len(batch) : pagGot = UpTo(n) /\ from = n + 1
  BY <1>2 DEF Batching
<1>5. to \in n .. Len(batch)
  <2>1. from \in 1 .. Len(batch) + 1 /\ from - 1 = n
    BY <1>3, <1>4
  <2>2. to \in from - 1 .. Len(batch)
    <3> HIDE DEF from, batch
    <3> QED
      BY <1>3, <2>1, BatchRange
  <2> HIDE DEF to, from
  <2> QED
    BY <2>1, <2>2
<1> HIDE DEF to
<1>6. n \in Nat /\ to \in Nat /\ n <= to /\ to \in 0 .. Len(batch) /\ Len(batch) \in 0 .. Len(batch)
  BY <1>3, <1>5
<1>7. pagGot' = UpTo(to)
  <2>1. UpTo(n) \o Lines(from, to) = UpTo(to)
    BY <1>4, <1>6, UpToGoesOn, Zenon
  <2> QED
    BY <1>1, <1>4, <2>1, Zenon
<1>8. CASE to = Len(batch)
  <2>1. Ended' /\ (pagAsk.of)' = pagAsk
    <3>1. next = EndOfPages /\ pagAsk.kind # "end" /\ {"kind", "from"} \subseteq DOMAIN pagAsk
      BY <1>1, <1>3, <1>8
    <3> QED
      BY <1>1, <3>1, AskedAgain
  <2>2. \E m \in 0 .. Len(pagAsk.batch) : pagGot' = UpTo(m) /\ m = Len(pagAsk.batch)
    BY <1>6, <1>7, <1>8
  <2>3. Batching(pagAsk, pagGot', TRUE)
    BY <1>1, <1>3, <2>2 DEF Batching
  <2> QED
    BY <2>1, <2>3 DEF PagInv, Reader
<1>9. CASE to # Len(batch)
  <2>1. /\ ~Ended' /\ DOMAIN pagAsk' = DOMAIN pagAsk /\ pagAsk'.from = to + 1
        /\ \A f \in DOMAIN pagAsk \ {"from"} : pagAsk'[f] = pagAsk[f]
    <3>1. next = to + 1 /\ next # EndOfPages
      BY <1>6, <1>9 DEF EndOfPages
    <3>2. pagAsk.kind # "end" /\ {"kind", "from"} \subseteq DOMAIN pagAsk
      BY <1>1, <1>3
    <3> HIDE DEF next
    <3> QED
      BY <1>1, <3>1, <3>2, AskedAgain
  <2>2. pagAsk'.kind = "multi" /\ pagAsk'.batch = batch
    BY <1>1, <1>3, <2>1
  <2>3. \E m \in 0 .. Len(pagAsk'.batch) : pagGot' = UpTo(m) /\ pagAsk'.from = m + 1
    BY <1>6, <1>7, <2>1, <2>2
  <2>4. Batching(pagAsk', pagGot', FALSE)
    BY <1>3, <2>1, <2>2, <2>3 DEF Batching
  <2> QED
    BY <2>1, <2>4 DEF PagInv, Reader
<1> QED
  BY <1>8, <1>9

LEMMA PagInitial == PagInit => PagInv
<1> SUFFICES ASSUME PagInit PROVE PagInv
  OBVIOUS
<1>0. pagGot = <<>> /\ UpTo(0) = <<>>
  BY DEF PagInit, UpTo
<1>1. ASSUME NEW f \in PagFiles, NEW m \in PagModes, NEW numbered \in BOOLEAN, NEW to \in PagEnds,
             pagAsk = [kind |-> "read", file |-> f, mode |-> m, numbered |-> numbered, from |-> 1, to |-> to]
      PROVE  PagInv
  <2>1. f \in Seq(Nat) /\ to \in Nat
    BY PagAssumption
  <2>2. /\ pagAsk.kind = "read" /\ pagAsk.file = f /\ pagAsk.from = 1 /\ pagAsk.to = to
        /\ DOMAIN pagAsk = {"kind", "file", "mode", "numbered", "from", "to"}
    BY <1>1
  <2>3. 1 \in 1 .. Len(f) + 1 /\ <<>> \in Seq(LinePages)
    BY <2>1
  <2>4. CoverLines(pagAsk, <<>>, 1 - 1)
    <3>1. DOMAIN <<>> = {} /\ 1 .. 1 - 1 = {}
      OBVIOUS
    <3> QED
      BY <3>1 DEF CoverLines
  <2>5. Reading(pagAsk, pagGot, FALSE)
    BY <1>0, <2>1, <2>2, <2>3, <2>4 DEF Reading
  <2> QED
    BY <2>2, <2>5 DEF PagInv, Ended, Reader
<1>2. ASSUME NEW t \in PagTexts, NEW l \in PagLimits,
             pagAsk = [kind |-> "fetch", text |-> t, limits |-> l, from |-> [line |-> 0, byte |-> 0]]
      PROVE  PagInv
  <2>1. t \in Seq(Bytes) /\ l \in [bytes : Nat, lines : Nat]
    BY PagAssumption DEF Bytes
  <2>2. /\ pagAsk.kind = "fetch" /\ pagAsk.text = t /\ pagAsk.limits = l
        /\ pagAsk.from = [line |-> 0, byte |-> 0]
        /\ DOMAIN pagAsk = {"kind", "text", "limits", "from"}
    BY <1>2
  <2>3. pagAsk.from \in [line : Nat, byte : Nat] /\ pagAsk.from.line = 0 /\ pagAsk.from.byte = 0
    BY <2>2
  <2>4. Cardinality(BreaksTo(t, 0)) = 0 /\ Behind(t, 0) = 0
    BY <2>1, BreaksNone DEF Behind
  <2>5. Names(pagAsk.from, t, 0)
    BY <2>3, <2>4 DEF Names
  <2>6. SubSeq(t, 1, 0) = <<>> /\ 0 \in 0 .. Len(t)
    BY <2>1, SubSeqEmpty
  <2>7. \E n \in 0 .. Len(pagAsk.text) : pagGot = SubSeq(pagAsk.text, 1, n) /\ Names(pagAsk.from, pagAsk.text, n)
    BY <1>0, <2>2, <2>5, <2>6
  <2>8. Fetching(pagAsk, pagGot, FALSE)
    BY <2>1, <2>2, <2>7 DEF Fetching, Bytes
  <2> QED
    BY <2>2, <2>8 DEF PagInv, Ended, Reader
<1>3. ASSUME NEW b \in PagBatches, pagAsk = [kind |-> "multi", batch |-> b, from |-> 1] PROVE PagInv
  <2>1. b \in Seq(Nat)
    BY PagAssumption
  <2>2. /\ pagAsk.kind = "multi" /\ pagAsk.batch = b /\ pagAsk.from = 1
        /\ DOMAIN pagAsk = {"kind", "batch", "from"}
    BY <1>3
  <2>3. 0 \in 0 .. Len(b) /\ 1 = 0 + 1
    BY <2>1
  <2>4. \E n \in 0 .. Len(pagAsk.batch) : pagGot = UpTo(n) /\ pagAsk.from = n + 1
    BY <1>0, <2>2, <2>3
  <2>5. Batching(pagAsk, pagGot, FALSE)
    BY <2>1, <2>2, <2>4 DEF Batching
  <2> QED
    BY <2>2, <2>5 DEF PagInv, Ended, Reader
<1> QED
  BY <1>1, <1>2, <1>3 DEF PagInit

LEMMA PagStep == PagInv /\ [PagNext]_pagVars => PagInv'
<1>1. PagInv /\ UNCHANGED pagVars => PagInv'
  BY DEF pagVars, PagInv, Ended, Reader, Reading, Fetching, Batching
<1> QED
  BY <1>1, ReadFileStep, WebFetchPageStep, MultiReadStep DEF PagNext

\* The length of what the pages so far hold.
LEMMA GotLength ==
  ASSUME NEW n \in Nat
  PROVE  Len(UpTo(n)) = n
BY DEF UpTo

LEMMA PagInvCovers == PagInv => PagesCover
<1> SUFFICES ASSUME PagInv PROVE PagesCover
  OBVIOUS
<1> DEFINE ask == IF Ended THEN pagAsk.of ELSE pagAsk
<1>1. Reader(ask, pagGot, Ended) /\ Ended \in BOOLEAN
  BY DEF PagInv, Ended
<1> HIDE DEF ask
<1>2. CASE Fetching(ask, pagGot, Ended)
  <2>1. ask.kind = "fetch" /\ ask.text \in Seq(Bytes)
    BY <1>2 DEF Fetching, Bytes
  <2>2. PICK n \in 0 .. Len(ask.text) :
           /\ pagGot = SubSeq(ask.text, 1, n)
           /\ IF Ended THEN n = Len(ask.text) ELSE Names(ask.from, ask.text, n)
    BY <1>2 DEF Fetching
  <2>3. Len(pagGot) = n
    BY <2>1, <2>2, PrefixOfPrefix
  <2>4. SubSeq(ask.text, 1, Len(ask.text)) = ask.text
    BY <2>1, SubSeqFull
  <2>5. /\ pagGot = SubSeq(ask.text, 1, Len(pagGot))
        /\ ~Ended => Len(pagGot) = Behind(ask.text, ask.from.line) + ask.from.byte
        /\ Ended => pagGot = ask.text
    BY <2>2, <2>3, <2>4 DEF Names
  <2> QED
    BY <2>1, <2>5 DEF PagesCover, ask
<1>3. CASE Batching(ask, pagGot, Ended)
  <2>1. ask.kind = "multi" /\ ask.batch \in Seq(Nat)
    BY <1>3 DEF Batching
  <2>2. PICK n \in 0 .. Len(ask.batch) : pagGot = UpTo(n) /\ (Ended => n = Len(ask.batch))
    BY <1>3 DEF Batching
  <2>3. Len(pagGot) = n
    BY <2>1, <2>2, GotLength
  <2>4. pagGot = UpTo(Len(pagGot)) /\ (Ended => Len(pagGot) = Len(ask.batch))
    BY <2>2, <2>3
  <2> QED
    BY <2>1, <2>4 DEF PagesCover, ask
<1>4. CASE Reading(ask, pagGot, Ended)
  <2>1. ask.kind = "read"
    BY <1>4 DEF Reading
  <2>2. Fits(ask) => CoverLines(ask, pagGot, IF Ended THEN Len(ask.file) ELSE ask.from - 1)
    BY <1>4 DEF Reading
  <2> QED
    BY <2>1, <2>2 DEF PagesCover, ask
<1> QED
  BY <1>1, <1>2, <1>3, <1>4 DEF Reader

\* Whatever is cut where, for files, documents, batches and limits of every
\* size: the pages read one after the other hold every byte and file once and in
\* order, and at the end all of them; and every line but the empty ones that end
\* a page without numbers.
THEOREM PagesAlwaysCover == PagSpec => []PagesCover
<1>1. PagInit => PagInv
  BY PagInitial
<1>2. PagInv /\ [PagNext]_pagVars => PagInv'
  BY PagStep
<1>3. PagInv => PagesCover
  BY PagInvCovers
<1> QED
  BY <1>1, <1>2, <1>3, PTL DEF PagSpec

-----------------------------------------------------------------------------
(* The session with a language server.                                     *)

Asking == {"initialize", "resolve", "query", "shutdown"}
Workers == Asking \cup {"none", "open", "stop", "over"}
Callers == {"idle", "launch", "waiting", "collecting", "returned"}

\* A result that is an answer is one to this query.
Owned(job, item) == item.ok => item.job = job /\ item.what \in {"query", "push"}
LocalInv == DOMAIN lspLocal = Jobs /\ \A job \in Jobs : Owned(job, lspLocal[job])

\* The goroutine stays where it asked until it hears or gives up.
AwaitInv ==
    /\ lspNextId \in Nat
    /\ lspAwait # NoRequest =>
          /\ lspWorker \in Asking
          /\ lspAwait.what = lspWorker /\ lspAwait.job = Job
          /\ lspAwait.id \in Nat /\ lspAwait.id < lspNextId

\* What is on its way in either direction is older than the next request, and
\* is this request's if it has its id.
FitsRequest(m) ==
    /\ m.id \in Nat /\ m.id < lspNextId
    /\ lspAwait # NoRequest /\ m.id = lspAwait.id => m.job = lspAwait.job /\ m.what = lspAwait.what
FramesFit(S) == lspOut \in Seq(S) /\ \A f \in S : f.kind = "reply" => FitsRequest(f)
MailInv == (\A m \in lspInbox : FitsRequest(m)) /\ \E S : FramesFit(S)

\* What the server is asked is reported by nobody else before the caller
\* returns, and not by a goroutine that has more to say.
Asked(job) == ~LspRefused(Query(job)) /\ ~LspDirect(Query(job))
CallerInv ==
    /\ lspWorker \in Workers /\ lspCaller \in Callers
    /\ lspCaller \in {"idle", "launch"} => lspWorker = "none"
    /\ lspCaller \in {"launch", "waiting", "collecting"} =>
          \A job \in Jobs : Asked(job) => lspItems[job] = NoItem
    /\ lspCaller = "returned" /\ lspCall.batch /\ lspWorker # "none" =>
          /\ Delivered
          /\ \A job \in Jobs : Asked(job) /\ lspLocal[job].ok => lspItems[job] = lspLocal[job]

LspInv == LocalInv /\ AwaitInv /\ MailInv /\ CallerInv
-----------------------------------------------------------------------------
(* Kinds of steps.                                                         *)

\* The goroutine has not moved.
LEMMA SameGoroutine ==
  ASSUME LspInv, UNCHANGED <<lspCall, lspWorker, lspClientVars, lspInbox, lspOut>>
  PROVE  LocalInv' /\ AwaitInv' /\ MailInv'
<1>1. Jobs' = Jobs /\ Job' = Job
  BY DEF Jobs, Job, lspClientVars
<1>2. LocalInv'
  BY <1>1 DEF LspInv, LocalInv, lspClientVars
<1>3. AwaitInv'
  BY <1>1 DEF LspInv, AwaitInv, lspClientVars
<1>4. MailInv'
  BY DEF LspInv, MailInv, FramesFit, FitsRequest, lspClientVars
<1> QED
  BY <1>2, <1>3, <1>4

\* Nor has the caller.
LEMMA SameCall ==
  ASSUME LspInv, UNCHANGED <<lspCallerVars, lspWorker, lspClientVars, lspInbox, lspOut>>
  PROVE  LspInv'
<1>1. LocalInv' /\ AwaitInv' /\ MailInv'
  BY SameGoroutine DEF lspCallerVars
<1>2. CallerInv'
  BY DEF LspInv, CallerInv, Delivered, Jobs, Asked, Query, lspCallerVars, lspClientVars
<1> QED
  BY <1>1, <1>2 DEF LspInv

\* The goroutine moves on, and once it has delivered keeps its results.
LEMMA GoroutineMoves ==
  ASSUME LspInv, UNCHANGED lspCallerVars, lspWorker # "none", lspWorker' \in Workers \ {"none"},
         Delivered => lspWorker' \in {"shutdown", "stop", "over"} /\ UNCHANGED lspLocal
  PROVE  CallerInv'
BY DEF LspInv, CallerInv, Delivered, Jobs, Asked, Query, lspCallerVars

\* A query is over with this result.
LEMMA FinishOne ==
  ASSUME LspInv, UNCHANGED lspCall, NEW item, Owned(Job, item), Finish(item)
  PROVE  LocalInv' /\ lspWorker' \in {"shutdown", "open"}
<1>1. Jobs' = Jobs
  BY DEF Jobs
<1>2. lspWorker' \in {"shutdown", "open"} /\ lspLocal' = [lspLocal EXCEPT ![Job] = item]
  BY DEF Finish
<1>3. DOMAIN lspLocal = Jobs /\ \A job \in Jobs : Owned(job, lspLocal[job])
  BY DEF LspInv, LocalInv
<1>4. DOMAIN lspLocal' = Jobs /\ \A job \in Jobs : Owned(job, lspLocal'[job])
  BY <1>2, <1>3
<1> QED
  BY <1>1, <1>2, <1>4 DEF LocalInv

LEMMA FailedIsNobodys == \A why : Owned(Job, Failed(why))
BY DEF Owned, Failed

LEMMA DiagnosedIsOwn ==
  ASSUME NEW item, Owned(Job, item)
  PROVE  Owned(Job, Diagnosed(item))
BY DEF Owned, Diagnosed, Of

\* A request fails where it was made.
LEMMA Fails ==
  ASSUME LspInv, UNCHANGED lspCall, lspWorker \in Asking, RequestFailed
  PROVE  /\ LocalInv' /\ lspAwait' = NoRequest /\ lspWorker' \in Workers \ {"none"}
         /\ Delivered => lspWorker' \in {"shutdown", "stop", "over"} /\ UNCHANGED lspLocal
<1>1. lspAwait' = NoRequest
  BY DEF RequestFailed
<1>2. CASE lspWorker = "initialize"
  <2>1. lspLocal' = [job \in Jobs |-> Failed("error")] /\ lspWorker' = "shutdown" /\ Jobs' = Jobs
    BY <1>2 DEF RequestFailed, Jobs
  <2>2. LocalInv'
    BY <2>1 DEF LocalInv, Owned, Failed
  <2> QED
    BY <1>1, <1>2, <2>1, <2>2 DEF Workers, Asking, Delivered
<1>3. CASE lspWorker = "resolve"
  <2>1. Finish(Failed("error"))
    BY <1>3 DEF RequestFailed
  <2> QED
    BY <1>1, <1>3, <2>1, FailedIsNobodys, FinishOne DEF Workers, Asking, Delivered
<1>4. CASE lspWorker = "query"
  <2>1. Finish(Diagnosed(Failed("error")))
    BY <1>4 DEF RequestFailed
  <2> QED
    BY <1>1, <1>4, <2>1, FailedIsNobodys, DiagnosedIsOwn, FinishOne DEF Workers, Asking, Delivered
<1>5. CASE lspWorker = "shutdown"
  <2>1. lspWorker' = "stop" /\ UNCHANGED <<lspLocal, lspJobs>>
    BY <1>5 DEF RequestFailed
  <2>2. LocalInv'
    BY <2>1 DEF LspInv, LocalInv, Jobs
  <2> QED
    BY <1>1, <2>1, <2>2 DEF Workers, Asking
<1> QED
  BY <1>2, <1>3, <1>4, <1>5 DEF Asking

\* A request is answered by a frame that is its own.
LEMMA Answered ==
  ASSUME LspInv, UNCHANGED lspCall, lspWorker \in Asking,
         NEW frame, frame.job = Job, frame.what = lspWorker, RequestAnswered(frame)
  PROVE  /\ LocalInv' /\ lspAwait' = NoRequest /\ lspWorker' \in Workers \ {"none"}
         /\ Delivered => lspWorker' \in {"shutdown", "stop", "over"} /\ UNCHANGED lspLocal
<1>1. lspAwait' = NoRequest
  BY DEF RequestAnswered
<1>2. ASSUME lspLocal' = lspLocal
      PROVE  LocalInv'
  BY <1>2 DEF LspInv, LocalInv, Jobs
<1>3. CASE lspWorker = "initialize"
  <2>1. lspWorker' = "open" /\ lspLocal' = lspLocal
    BY <1>3 DEF RequestAnswered
  <2> QED
    BY <1>1, <1>2, <1>3, <2>1 DEF Workers, Asking, Delivered
<1>4. CASE lspWorker = "resolve"
  <2>1. CASE lspWorker' = "query" /\ lspLocal' = lspLocal
    BY <1>1, <1>2, <1>4, <2>1 DEF Workers, Asking, Delivered
  <2>2. CASE Finish(Failed("symbol"))
    BY <1>1, <1>4, <2>2, FailedIsNobodys, FinishOne DEF Workers, Asking, Delivered
  <2> QED
    BY <1>4, <2>1, <2>2 DEF RequestAnswered
<1>5. CASE lspWorker = "query"
  <2> DEFINE item == Of(frame.job, frame.what)
  <2>1. Owned(Job, item)
    BY <1>5 DEF Owned, Of
  <2>2. Finish(item) \/ Finish(Diagnosed(item))
    BY <1>5 DEF RequestAnswered
  <2> HIDE DEF item
  <2> QED
    BY <1>1, <1>5, <2>1, <2>2, DiagnosedIsOwn, FinishOne DEF Workers, Asking, Delivered
<1>6. CASE lspWorker = "shutdown"
  <2>1. lspWorker' = "stop" /\ lspLocal' = lspLocal
    BY <1>6 DEF RequestAnswered
  <2> QED
    BY <1>1, <1>2, <2>1 DEF Workers, Asking
<1> QED
  BY <1>3, <1>4, <1>5, <1>6 DEF Asking
-----------------------------------------------------------------------------
(* Mail.                                                                   *)

\* What fits still does once its request is over.
LEMMA StillFits ==
  ASSUME NEW m, FitsRequest(m), UNCHANGED lspNextId, lspAwait' \in {lspAwait, NoRequest}
  PROVE  FitsRequest(m)'
BY DEF FitsRequest

LEMMA FewerFrames ==
  ASSUME LspInv, UNCHANGED <<lspNextId, lspInbox>>, lspAwait' \in {lspAwait, NoRequest},
         lspOut' = lspOut \/ (lspOut # <<>> /\ lspOut' = Tail(lspOut))
  PROVE  MailInv'
<1>1. \A m \in lspInbox' : FitsRequest(m)'
  BY StillFits DEF LspInv, MailInv
<1>2. PICK S : FramesFit(S)
  BY DEF LspInv, MailInv
<1>3. lspOut' \in Seq(S)
  BY <1>2 DEF FramesFit
<1>4. \A f \in S : f.kind = "reply" => FitsRequest(f)'
  BY <1>2, StillFits DEF FramesFit
<1> QED
  BY <1>1, <1>3, <1>4 DEF MailInv, FramesFit

LEMMA OneMoreFrame ==
  ASSUME LspInv, UNCHANGED <<lspNextId, lspAwait>>, lspInbox' \subseteq lspInbox,
         NEW frame, frame.kind = "reply" => FitsRequest(frame), lspOut' = Append(lspOut, frame)
  PROVE  MailInv'
<1>1. \A m : FitsRequest(m) => FitsRequest(m)'
  BY DEF FitsRequest
<1>2. \A m \in lspInbox' : FitsRequest(m)'
  BY <1>1 DEF LspInv, MailInv
<1>3. PICK S : FramesFit(S)
  BY DEF LspInv, MailInv
<1> DEFINE T == S \cup {frame}
<1>4. lspOut \in Seq(T)
  BY <1>3, SeqMonotonic DEF FramesFit
<1>5. \A f \in T : f.kind = "reply" => FitsRequest(f)'
  BY <1>1, <1>3 DEF FramesFit
<1>6. frame \in T
  OBVIOUS
<1> HIDE DEF T
<1>7. lspOut' \in Seq(T)
  BY <1>4, <1>6
<1> QED
  BY <1>2, <1>5, <1>7 DEF MailInv, FramesFit

\* The goroutine hears nothing more of this request, or of none at all.
LEMMA RequestEnds ==
  ASSUME LspInv, UNCHANGED <<lspCallerVars, lspInbox>>, lspNextId' \in {lspNextId, lspNextId + 1},
         lspAwait' = NoRequest, LocalInv',
         lspOut' = lspOut \/ (lspOut # <<>> /\ lspOut' = Tail(lspOut)),
         lspWorker # "none", lspWorker' \in Workers \ {"none"},
         Delivered => lspWorker' \in {"shutdown", "stop", "over"} /\ UNCHANGED lspLocal
  PROVE  LspInv'
<1>1. AwaitInv'
  BY DEF LspInv, AwaitInv
<1>2. \A m : FitsRequest(m) => FitsRequest(m)'
  BY DEF LspInv, AwaitInv, FitsRequest
<1>3. PICK S : FramesFit(S)
  BY DEF LspInv, MailInv
<1>4. lspOut' \in Seq(S)
  BY <1>3 DEF FramesFit
<1>5. MailInv'
  BY <1>2, <1>3, <1>4 DEF LspInv, MailInv, FramesFit
<1>6. CallerInv'
  BY GoroutineMoves
<1> QED
  BY <1>1, <1>5, <1>6 DEF LspInv
-----------------------------------------------------------------------------
(* The goroutine.                                                          *)

LEMMA OpenStep ==
  ASSUME LspInv, DidOpen \/ UnknownAction
  PROVE  LspInv'
<1>1. UNCHANGED <<lspCallerVars, lspAwait, lspNextId, lspInbox, lspOut>> /\ lspCall' = lspCall
  BY DEF DidOpen, UnknownAction, lspServerVars, lspCallerVars
<1>2. lspWorker \in {"open", "query"} /\ lspAwait = NoRequest
  BY DEF DidOpen, UnknownAction, LspInv, AwaitInv, Asking
<1>3. LocalInv' /\ lspWorker' \in {"resolve", "query", "shutdown", "open"}
  <2>1. CASE lspWorker' \in {"resolve", "query"} /\ lspLocal' = lspLocal
    BY <1>1, <2>1 DEF LspInv, LocalInv, Jobs
  <2>2. CASE Finish(Failed("error")) \/ Finish(Failed("refused"))
    BY <1>1, <2>2, FailedIsNobodys, FinishOne
  <2> QED
    BY <2>1, <2>2 DEF DidOpen, UnknownAction
<1>4. lspWorker # "none" /\ lspWorker' \in Workers \ {"none"} /\ ~Delivered
  BY <1>2, <1>3 DEF Workers, Asking, Delivered
<1> QED
  BY <1>1, <1>2, <1>3, <1>4, RequestEnds

LEMMA SendStep ==
  ASSUME LspInv, SendRequest
  PROVE  LspInv'
<1>1. /\ UNCHANGED <<lspCallerVars, lspOut>> /\ lspCall' = lspCall
      /\ lspWorker \in Asking /\ lspNextId' = lspNextId + 1
  BY DEF SendRequest, lspCallerVars, Asking
<1>2. CASE RequestFailed /\ UNCHANGED lspInbox
  BY <1>1, <1>2, Fails, RequestEnds DEF Asking
<1>3. CASE /\ lspAwait' = [id |-> lspNextId, job |-> Job, what |-> lspWorker]
           /\ lspInbox' = lspInbox \cup {lspAwait'}
           /\ UNCHANGED <<lspWorker, lspLocal, lspJobs>>
  <2>1. LocalInv'
    BY <1>1, <1>3 DEF LspInv, LocalInv, Jobs
  <2>2. lspAwait'.id = lspNextId /\ lspAwait'.job = Job /\ lspAwait'.what = lspWorker
    BY <1>3
  <2>3. lspNextId \in Nat /\ Job' = Job
    BY <1>3 DEF LspInv, AwaitInv, Job
  <2>4. AwaitInv'
    BY <1>1, <1>3, <2>2, <2>3 DEF AwaitInv
  <2>5. \A m : FitsRequest(m) => FitsRequest(m)'
    BY <1>1, <2>2, <2>3 DEF FitsRequest
  <2>6. FitsRequest(lspAwait)'
    BY <1>1, <2>2, <2>3 DEF FitsRequest
  <2>7. PICK S : FramesFit(S)
    BY DEF LspInv, MailInv
  <2>8. FramesFit(S)'
    BY <1>1, <2>5, <2>7 DEF FramesFit
  <2>9. MailInv'
    BY <1>3, <2>5, <2>6, <2>8 DEF LspInv, MailInv
  <2>10. CallerInv'
    BY <1>1, <1>3, GoroutineMoves DEF LspInv, CallerInv, Asking, Delivered
  <2> QED
    BY <2>1, <2>4, <2>9, <2>10 DEF LspInv
<1> QED
  BY <1>2, <1>3 DEF SendRequest

\* A reply that is wanted is that to the request at hand.
LEMMA WantedIsOwn ==
  ASSUME LspInv, lspAwait # NoRequest, lspOut # <<>>, Wanted(Head(lspOut))
  PROVE  Head(lspOut).job = Job /\ Head(lspOut).what = lspWorker
<1>1. PICK S : FramesFit(S)
  BY DEF LspInv, MailInv
<1>2. Head(lspOut) \in S
  BY <1>1 DEF FramesFit
<1>3. FitsRequest(Head(lspOut))
  BY <1>1, <1>2 DEF FramesFit, Wanted
<1> QED
  BY <1>3 DEF FitsRequest, Wanted, LspInv, AwaitInv

LEMMA ReadStep ==
  ASSUME LspInv, ReadReply
  PROVE  LspInv'
<1>1. /\ UNCHANGED <<lspCallerVars, lspInbox, lspNextId>> /\ lspCall' = lspCall
      /\ lspAwait # NoRequest /\ lspOut # <<>> /\ lspOut' = Tail(lspOut)
  BY DEF ReadReply, lspCallerVars
<1>2. lspWorker \in Asking /\ lspWorker # "none"
  BY <1>1 DEF LspInv, AwaitInv, Asking
<1>3. CASE Wanted(Head(lspOut)) /\ RequestAnswered(Head(lspOut))
  BY <1>1, <1>2, <1>3, WantedIsOwn, Answered, RequestEnds
<1>4. CASE RequestFailed
  BY <1>1, <1>2, <1>4, Fails, RequestEnds
<1>5. CASE UNCHANGED <<lspWorker, lspLocal, lspJobs, lspAwait>>
  <2>1. LocalInv'
    BY <1>1, <1>5 DEF LspInv, LocalInv, Jobs
  <2>2. AwaitInv'
    BY <1>1, <1>5 DEF LspInv, AwaitInv, Job
  <2>3. MailInv'
    BY <1>1, <1>5, FewerFrames
  <2>4. CallerInv'
    BY <1>1, <1>2, <1>5, GoroutineMoves DEF LspInv, CallerInv, Delivered
  <2> QED
    BY <2>1, <2>2, <2>3, <2>4 DEF LspInv
<1> QED
  BY <1>3, <1>4, <1>5 DEF ReadReply

LEMMA ReadFailsStep ==
  ASSUME LspInv, ReadFails
  PROVE  LspInv'
<1>1. /\ UNCHANGED <<lspCallerVars, lspInbox, lspNextId, lspOut>> /\ lspCall' = lspCall
      /\ lspAwait # NoRequest /\ RequestFailed
  BY DEF ReadFails, lspCallerVars, lspServerVars
<1>2. lspWorker \in Asking /\ lspWorker # "none"
  BY <1>1 DEF LspInv, AwaitInv, Asking
<1> QED
  BY <1>1, <1>2, Fails, RequestEnds

LEMMA StopStep ==
  ASSUME LspInv, StopClient
  PROVE  LspInv'
<1>1. UNCHANGED <<lspCallerVars, lspClientVars, lspInbox, lspOut>> /\ lspCall' = lspCall
  BY DEF StopClient, lspCallerVars
<1>2. lspWorker = "stop" /\ lspWorker' \in {"stop", "over"} /\ lspAwait = NoRequest
  BY DEF StopClient, LspInv, AwaitInv, Asking
<1>3. LocalInv'
  BY <1>1 DEF LspInv, LocalInv, Jobs, lspClientVars
<1>4. lspWorker # "none" /\ lspWorker' \in Workers \ {"none"}
  BY <1>2 DEF Workers
<1> QED
  BY <1>1, <1>2, <1>3, <1>4, RequestEnds DEF lspClientVars
-----------------------------------------------------------------------------
(* The caller and the server.                                              *)

LEMMA CallStep ==
  ASSUME LspInv, LspCall
  PROVE  LspInv'
<1>1. UNCHANGED <<lspCall, lspWorker, lspClientVars, lspInbox, lspOut>> /\ lspCaller = "idle"
  BY DEF LspCall, lspServerVars
<1>2. LocalInv' /\ AwaitInv' /\ MailInv'
  BY <1>1, SameGoroutine
<1>3. lspCaller' \in {"returned", "launch"}
  BY DEF LspCall
<1>4. \A job \in Jobs : Asked(job) => lspItems'[job] = NoItem
  BY DEF LspCall, Asked
<1>5. lspWorker' = "none" /\ Jobs' = Jobs /\ \A job : Asked(job)' = Asked(job)
  BY <1>1 DEF LspInv, CallerInv, Jobs, Asked, Query
<1>6. CallerInv'
  BY <1>3, <1>4, <1>5 DEF CallerInv, Workers, Callers, Asking
<1> QED
  BY <1>2, <1>6 DEF LspInv

LEMMA LaunchStep ==
  ASSUME LspInv, LspLaunch
  PROVE  LspInv'
<1>1. /\ UNCHANGED <<lspCall, lspLocal, lspAwait, lspNextId, lspInbox, lspOut>>
      /\ lspCaller = "launch" /\ lspWorker = "none"
  BY DEF LspLaunch, LspInv, CallerInv
<1>2. Jobs' = Jobs /\ \A job : Asked(job)' = Asked(job)
  BY <1>1 DEF Jobs, Asked, Query
<1>3. lspAwait = NoRequest
  BY <1>1 DEF LspInv, AwaitInv, Asking
<1>4. LocalInv' /\ AwaitInv' /\ MailInv'
  BY <1>1, <1>2, <1>3, FewerFrames DEF LspInv, LocalInv, AwaitInv
<1>5. CASE lspCaller' = "waiting" /\ lspWorker' = "initialize" /\ lspItems' = lspItems
  <2>1. \A job \in Jobs' : Asked(job)' => lspItems'[job] = NoItem
    BY <1>1, <1>2, <1>5 DEF LspInv, CallerInv
  <2> QED
    BY <1>4, <1>5, <2>1 DEF LspInv, CallerInv, Workers, Callers, Asking
<1>6. CASE lspCaller' = "returned" /\ lspWorker' = lspWorker
  BY <1>1, <1>4, <1>6 DEF LspInv, CallerInv, Workers, Callers, Asking
<1> QED
  BY <1>5, <1>6 DEF LspLaunch

\* What the goroutine delivered is what is reported, whoever interrupted it.
LEMMA ReturnStep ==
  ASSUME LspInv, LspReturn
  PROVE  LspInv'
<1>1. /\ UNCHANGED <<lspCall, lspWorker, lspClientVars, lspInbox, lspOut>>
      /\ lspCaller \in {"waiting", "collecting"} /\ lspCaller' = "returned" /\ Delivered
      /\ lspItems' = Merged(lspLocal, lspReason) /\ lspLocal' = lspLocal
  BY DEF LspReturn, lspServerVars, lspClientVars
<1>2. LocalInv' /\ AwaitInv' /\ MailInv'
  BY <1>1, SameGoroutine
<1>3. Jobs' = Jobs /\ \A job : Asked(job)' = Asked(job)
  BY <1>1 DEF Jobs, Asked, Query
<1>4. \A job \in Jobs : Asked(job) /\ lspLocal[job].ok => lspItems'[job] = lspLocal[job]
  <2> SUFFICES ASSUME NEW job \in Jobs, Asked(job), lspLocal[job].ok
               PROVE  lspItems'[job] = lspLocal[job]
    OBVIOUS
  <2>1. job \in Pending
    BY <1>1 DEF Pending, LspInv, CallerInv
  <2> QED
    BY <1>1, <2>1 DEF Merged
<1>5. Delivered' /\ lspWorker' \in Workers /\ lspCaller' \in Callers
  BY <1>1 DEF Delivered, LspInv, CallerInv, Callers
<1>6. CallerInv'
  BY <1>1, <1>3, <1>4, <1>5 DEF CallerInv
<1> QED
  BY <1>2, <1>6 DEF LspInv

LEMMA InterruptStep ==
  ASSUME LspInv, LspExpire \/ LspCancel \/ LspTimedOut
  PROVE  LspInv'
<1>1. UNCHANGED <<lspCall, lspWorker, lspClientVars, lspInbox, lspOut>>
  BY DEF LspExpire, LspCancel, LspTimedOut, lspServerVars
<1>2. LocalInv' /\ AwaitInv' /\ MailInv'
  BY <1>1, SameGoroutine
<1>3. Jobs' = Jobs /\ \A job : Asked(job)' = Asked(job)
  BY <1>1 DEF Jobs, Asked, Query
<1>4. CASE lspCaller = "waiting" /\ lspCaller' = "collecting" /\ lspItems' = lspItems
  <2>1. \A job \in Jobs' : Asked(job)' => lspItems'[job] = NoItem
    BY <1>3, <1>4 DEF LspInv, CallerInv
  <2> QED
    BY <1>1, <1>2, <1>4, <2>1 DEF LspInv, CallerInv, Callers
<1>5. CASE ~lspCall.batch /\ lspCaller' = "returned"
  BY <1>1, <1>2, <1>5 DEF LspInv, CallerInv, Callers
<1> QED
  BY <1>4, <1>5 DEF LspExpire, LspCancel, LspTimedOut

LEMMA AnyFrame ==
  ASSUME LspInv, UNCHANGED <<lspCallerVars, lspWorker, lspClientVars>>, MailInv'
  PROVE  LspInv'
<1>1. LocalInv'
  BY DEF LspInv, LocalInv, Jobs, lspCallerVars, lspClientVars
<1>2. AwaitInv'
  BY DEF LspInv, AwaitInv, Job, lspClientVars
<1>3. CallerInv'
  BY DEF LspInv, CallerInv, Delivered, Jobs, Asked, Query, lspCallerVars, lspClientVars
<1> QED
  BY <1>1, <1>2, <1>3 DEF LspInv

LEMMA AnswerStep ==
  ASSUME LspInv, ServerAnswers
  PROVE  LspInv'
<1>1. PICK m \in lspInbox, body \in {"full", "empty", "error"} :
         /\ lspInbox' = lspInbox \ {m}
         /\ lspOut' = Append(lspOut, [kind |-> "reply", id |-> m.id, job |-> m.job, what |-> m.what,
                                      body |-> body, file |-> "none"])
  BY DEF ServerAnswers
<1> DEFINE frame == [kind |-> "reply", id |-> m.id, job |-> m.job, what |-> m.what, body |-> body, file |-> "none"]
<1>2. FitsRequest(frame)
  BY DEF FitsRequest, LspInv, MailInv
<1>3. lspOut' = Append(lspOut, frame) /\ lspInbox' \subseteq lspInbox
  BY <1>1
<1> HIDE DEF frame
<1>4. UNCHANGED <<lspCallerVars, lspWorker, lspClientVars, lspAwait, lspNextId>>
  BY DEF ServerAnswers, lspClientVars
<1>5. MailInv'
  BY <1>2, <1>3, <1>4, OneMoreFrame
<1> QED
  BY <1>4, <1>5, AnyFrame

LEMMA SpeakStep ==
  ASSUME LspInv, ServerSpeaks
  PROVE  LspInv'
<1>1. PICK kind, frame : /\ kind \in {"push", "request", "garbage"}
                          /\ frame.kind = kind /\ lspOut' = Append(lspOut, frame)
  BY DEF ServerSpeaks
<1>2. UNCHANGED <<lspCallerVars, lspWorker, lspClientVars, lspAwait, lspNextId, lspInbox>>
  BY DEF ServerSpeaks, lspClientVars
<1>3. MailInv'
  BY <1>1, <1>2, OneMoreFrame
<1> QED
  BY <1>2, <1>3, AnyFrame

-----------------------------------------------------------------------------
(* The theorem.                                                            *)

LEMMA LspInitially == LspInit => LspInv
<1> SUFFICES ASSUME LspInit
             PROVE  LspInv
  OBVIOUS
<1>1. LocalInv
  BY DEF LspInit, LocalInv, Owned, NoItem, Failed
<1>2. AwaitInv
  BY DEF LspInit, AwaitInv
<1>3. FramesFit({})
  BY EmptySeq DEF LspInit, FramesFit
<1>4. MailInv
  BY <1>3 DEF LspInit, MailInv
<1>5. CallerInv
  BY DEF LspInit, CallerInv, Workers, Callers, Asking
<1> QED
  BY <1>1, <1>2, <1>4, <1>5 DEF LspInv

LEMMA LspInvStep == LspInv /\ [LspNext]_lspVars => LspInv'
<1> SUFFICES ASSUME LspInv, [LspNext]_lspVars
             PROVE  LspInv'
  OBVIOUS
<1>1. CASE LspCallerStep
  BY <1>1, CallStep, LaunchStep, ReturnStep, InterruptStep DEF LspCallerStep
<1>2. CASE LspExpire \/ LspCancel
  BY <1>2, InterruptStep
<1>3. CASE LspWorkerStep
  BY <1>3, OpenStep, SendStep, ReadStep, ReadFailsStep, StopStep DEF LspWorkerStep
<1>4. CASE ServerAnswers \/ ServerSpeaks
  BY <1>4, AnswerStep, SpeakStep
<1>5. CASE LspKilled \/ LspReap \/ ShutdownExpires \/ ServerForks \/ OrphanEnds \/ UNCHANGED lspVars
  <2>1. UNCHANGED <<lspCallerVars, lspWorker, lspClientVars, lspInbox, lspOut>>
    BY <1>5 DEF LspKilled, LspReap, ShutdownExpires, ServerForks, OrphanEnds, lspVars, lspServerVars
  <2> QED
    BY <2>1, SameCall
<1> QED
  BY <1>1, <1>2, <1>3, <1>4, <1>5 DEF LspNext

\* Whatever the server sends, in whatever order, and however the caller is
\* interrupted: a query reports only the answer to its own request, and a
\* batch that returns reports every query that had succeeded (readReply,
\* markLSPBatchInterrupted).
THEOREM QueriesGetTheirOwn == LspSpec => []AnswersOwn
<1>1. LspInit => LspInv
  BY LspInitially
<1>2. LspInv /\ [LspNext]_lspVars => LspInv'
  BY LspInvStep
<1>3. LspInv => AnswersOwn
  BY DEF LspInv, LocalInv, CallerInv, Owned, Asked, AnswersOwn
<1> QED
  BY <1>1, <1>2, <1>3, PTL DEF LspSpec

\* One text after the other; a name for it keeps the provers from looking at
\* single characters.
Join(x, y) == x \o y

LEMMA Joined == \A S : \A x, y, z \in Seq(S) : Join(Join(x, y), z) = Join(x, Join(y, z))
<1>1. \A S : \A x, y, z \in Seq(S) : (x \o y) \o z = x \o (y \o z)
  BY ConcatAssociative, Zenon
<1> QED
  BY <1>1, Zenon DEF Join

LEMMA JoinType == \A S : \A x, y \in Seq(S) : Join(x, y) \in Seq(S)
  BY ConcatProperties DEF Join

LEMMA JoinNone == \A S : \A x \in Seq(S) : Join(x, <<>>) = x /\ Join(<<>>, x) = x /\ <<>> \in Seq(S)
  BY ConcatEmptySeq DEF Join

LEMMA PartFacts ==
  ASSUME NEW S, NEW s \in Seq(S), NEW a \in 0 .. Len(s), NEW b \in a .. Len(s)
  PROVE  /\ Part(s, a, b) \in Seq(S)
         /\ Len(Part(s, a, b)) = b - a
         /\ \A i \in 1 .. b - a : Part(s, a, b)[i] = s[a + i]
  BY SubSeqFacts DEF Part

LEMMA PartAll == ASSUME NEW S, NEW s \in Seq(S) PROVE Part(s, 0, Len(s)) = s
  BY SubSeqFull DEF Part

LEMMA PartNone == ASSUME NEW s, NEW a \in Int PROVE Part(s, a, a) = <<>>
  BY SubSeqEmpty DEF Part

LEMMA PartSplit ==
  ASSUME NEW S, NEW s \in Seq(S), NEW a \in 0 .. Len(s), NEW b \in a .. Len(s), NEW c \in b .. Len(s)
  PROVE  Join(Part(s, a, b), Part(s, b, c)) = Part(s, a, c)
<1>1. a + 1 \in 1 .. Len(s) + 1 /\ b \in (a + 1) - 1 .. Len(s)
  OBVIOUS
<1> QED
  BY <1>1, ConcatAdjacentSubSeq DEF Part, Join

\* Of three texts in a row: the first, the second and the third.
LEMMA PartsOfThree ==
  ASSUME NEW S, NEW x \in Seq(S), NEW m \in Seq(S), NEW y \in Seq(S)
  PROVE  /\ Len(x) \in Nat /\ Len(m) \in Nat /\ Len(y) \in Nat
         /\ (x \o m) \o y \in Seq(S)
         /\ Len((x \o m) \o y) = Len(x) + Len(m) + Len(y)
         /\ Part((x \o m) \o y, 0, Len(x)) = x
         /\ Part((x \o m) \o y, Len(x), Len(x) + Len(m)) = m
         /\ Part((x \o m) \o y, Len(x) + Len(m), Len((x \o m) \o y)) = y
<1> DEFINE t == (x \o m) \o y  X == Len(x)  M == Len(m)  Y == Len(y)
<1>1. X \in Nat /\ M \in Nat /\ Y \in Nat
  OBVIOUS
<1>2. x \o m \in Seq(S) /\ Len(x \o m) = X + M /\ \A i \in 1 .. X + M : (x \o m)[i] = IF i <= X THEN x[i] ELSE m[i - X]
  BY ConcatProperties
<1>3. t \in Seq(S) /\ Len(t) = (X + M) + Y
      /\ \A i \in 1 .. (X + M) + Y : t[i] = IF i <= X + M THEN (x \o m)[i] ELSE y[i - (X + M)]
  BY <1>2, ConcatProperties
<1>4. /\ \A i \in 1 .. X : x[i] = t[i]
      /\ \A i \in 1 .. M : m[i] = t[X + i]
      /\ \A i \in 1 .. Y : y[i] = t[X + M + i]
  <2> HIDE DEF t, X, M, Y
  <2>1. ASSUME NEW i \in 1 .. X PROVE x[i] = t[i]
    <3>1. i \in 1 .. X + M /\ i \in 1 .. (X + M) + Y /\ i <= X + M /\ i <= X
      BY <1>1
    <3> QED
      BY <3>1, <1>2, <1>3
  <2>2. ASSUME NEW i \in 1 .. M PROVE m[i] = t[X + i]
    <3>1. X + i \in 1 .. X + M /\ X + i \in 1 .. (X + M) + Y /\ X + i <= X + M /\ ~(X + i <= X) /\ (X + i) - X = i
      BY <1>1
    <3>2. t[X + i] = (x \o m)[X + i]
      BY <3>1, <1>3
    <3> QED
      BY <3>1, <3>2, <1>2
  <2>3. ASSUME NEW i \in 1 .. Y PROVE y[i] = t[X + M + i]
    <3>1. X + M + i \in 1 .. (X + M) + Y /\ ~(X + M + i <= X + M) /\ (X + M + i) - (X + M) = i
      BY <1>1
    <3> QED
      BY <3>1, <1>3
  <2> QED
    BY <2>1, <2>2, <2>3
<1>5. x \in Seq(S) /\ m \in Seq(S) /\ y \in Seq(S) /\ X = Len(x) /\ M = Len(m) /\ Y = Len(y)
  OBVIOUS
<1> HIDE DEF t, X, M, Y
<1>6. 0 \in 0 .. Len(t) /\ X \in 0 .. Len(t) /\ X + M \in X .. Len(t) /\ Len(t) \in (X + M) .. Len(t) /\ X + M \in 0 .. Len(t)
  BY <1>1, <1>3
<1>7. Part(t, 0, X) = x
  <2>1. Part(t, 0, X) \in Seq(S) /\ Len(Part(t, 0, X)) = X - 0 /\ \A i \in 1 .. X - 0 : Part(t, 0, X)[i] = t[0 + i]
    BY <1>3, <1>6, PartFacts
  <2>2. X - 0 = X /\ \A i \in 1 .. X : 0 + i = i
    BY <1>1
  <2>3. \A i \in 1 .. X : Part(t, 0, X)[i] = x[i]
    BY <2>1, <2>2, <1>4
  <2> QED
    BY <2>1, <2>2, <2>3, <1>5, SeqEqual
<1>8. Part(t, X, X + M) = m
  <2>1. Part(t, X, X + M) \in Seq(S) /\ Len(Part(t, X, X + M)) = (X + M) - X
        /\ \A i \in 1 .. (X + M) - X : Part(t, X, X + M)[i] = t[X + i]
    BY <1>3, <1>6, PartFacts
  <2>2. (X + M) - X = M
    BY <1>1
  <2>3. \A i \in 1 .. M : Part(t, X, X + M)[i] = m[i]
    BY <2>1, <2>2, <1>4
  <2> QED
    BY <2>1, <2>2, <2>3, <1>5, SeqEqual
<1>9. Part(t, X + M, Len(t)) = y
  <2>1. Part(t, X + M, Len(t)) \in Seq(S) /\ Len(Part(t, X + M, Len(t))) = Len(t) - (X + M)
        /\ \A i \in 1 .. Len(t) - (X + M) : Part(t, X + M, Len(t))[i] = t[(X + M) + i]
    BY <1>3, <1>6, PartFacts
  <2>2. Len(t) - (X + M) = Y
    BY <1>1, <1>3
  <2>3. \A i \in 1 .. Y : Part(t, X + M, Len(t))[i] = y[i]
    BY <2>1, <2>2, <1>4, <1>1
  <2> QED
    BY <2>1, <2>2, <2>3, <1>5, SeqEqual
<1>10. Len(t) = X + M + Y
  BY <1>3, <1>1
<1> QED
  BY <1>1, <1>3, <1>7, <1>8, <1>9, <1>10 DEF t, X, M, Y

\* The second replaced.
LEMMA InsteadOfSecond ==
  ASSUME NEW S, NEW x \in Seq(S), NEW m \in Seq(S), NEW y \in Seq(S), NEW new
  PROVE  /\ Len(Join(Join(x, m), y)) = Len(x) + Len(m) + Len(y)
         /\ Instead(Join(Join(x, m), y), Len(x), Len(x) + Len(m), new) = Join(Join(x, new), y)
         /\ Part(Join(Join(x, m), y), Len(x), Len(x) + Len(m)) = m
<1>1. Len((x \o m) \o y) = Len(x) + Len(m) + Len(y) /\ Part((x \o m) \o y, Len(x), Len(x) + Len(m)) = m
  BY PartsOfThree
<1>2. Instead((x \o m) \o y, Len(x), Len(x) + Len(m), new) = (x \o new) \o y
  <2> DEFINE t == (x \o m) \o y
  <2>1. Part(t, 0, Len(x)) = x /\ Part(t, Len(x) + Len(m), Len(t)) = y
    BY PartsOfThree
  <2> HIDE DEF t
  <2>2. Instead(t, Len(x), Len(x) + Len(m), new) = (Part(t, 0, Len(x)) \o new) \o Part(t, Len(x) + Len(m), Len(t))
    BY Zenon DEF Instead
  <2> QED
    BY <2>1, <2>2, Zenon DEF t
<1>3. Join(Join(x, m), y) = (x \o m) \o y /\ Join(Join(x, new), y) = (x \o new) \o y
  BY Zenon DEF Join
<1> QED
  BY <1>1, <1>2, <1>3, Zenon

LEMMA InsteadType ==
  ASSUME NEW S, NEW s \in Seq(S), NEW a \in 0 .. Len(s), NEW b \in a .. Len(s), NEW new \in Seq(S)
  PROVE  Instead(s, a, b, new) = Join(Join(Part(s, 0, a), new), Part(s, b, Len(s))) /\ Instead(s, a, b, new) \in Seq(S)
<1>1. 0 \in 0 .. Len(s) /\ a \in 0 .. Len(s) /\ b \in 0 .. Len(s) /\ Len(s) \in b .. Len(s)
  OBVIOUS
<1>2. Part(s, 0, a) \in Seq(S) /\ Part(s, b, Len(s)) \in Seq(S)
  BY <1>1, PartFacts
<1>3. Join(Join(Part(s, 0, a), new), Part(s, b, Len(s))) \in Seq(S)
  BY <1>2, JoinType
<1>4. Instead(s, a, b, new) = Join(Join(Part(s, 0, a), new), Part(s, b, Len(s)))
  BY Zenon DEF Instead, Join
<1> QED
  BY <1>3, <1>4

-----------------------------------------------------------------------------
(* Regions of a text and what stands at their places.                      *)

\* Regions from left to right within a text, with new texts of the same sort.
RegionType(S) == [from : Nat, to : Nat, new : Seq(S)]
Within(S, s, R) ==
    /\ R \in Seq(RegionType(S))
    /\ \A k \in 1 .. Len(R) : R[k].from <= R[k].to /\ R[k].to <= Len(s)
    /\ LeftToRight(R)

\* Such regions are intervals of the text, each behind the one before.
LEMMA WithinFacts ==
  ASSUME NEW S, NEW s \in Seq(S), NEW R, Within(S, s, R)
  PROVE  /\ Len(R) \in Nat
         /\ \A k \in 0 .. Len(R) : EndOf(R, k) \in 0 .. Len(s)
         /\ \A k \in 1 .. Len(R) :
              /\ R[k].from \in Nat /\ R[k].to \in Nat /\ R[k].new \in Seq(S)
              /\ EndOf(R, k - 1) <= R[k].from /\ R[k].from <= R[k].to /\ R[k].to <= Len(s) /\ EndOf(R, k) = R[k].to
<1>1. Len(R) \in Nat /\ Len(s) \in Nat /\ DOMAIN R = 1 .. Len(R) /\ \A k \in 1 .. Len(R) : R[k] \in RegionType(S)
  BY DEF Within
<1>2. ASSUME NEW k \in 1 .. Len(R)
      PROVE  R[k].from \in Nat /\ R[k].to \in Nat /\ R[k].new \in Seq(S)
  BY <1>1 DEF RegionType
<1>3. ASSUME NEW k \in 1 .. Len(R) PROVE R[k].from <= R[k].to /\ R[k].to <= Len(s)
  BY DEF Within
<1>4. ASSUME NEW k \in 0 .. Len(R) PROVE EndOf(R, k) \in 0 .. Len(s)
  <2>1. CASE k = 0
    BY <2>1, <1>1 DEF EndOf
  <2>2. CASE k # 0
    <3>1. k \in 1 .. Len(R)
      BY <2>2, <1>1
    <3>2. R[k].to \in 0 .. Len(s)
      BY <3>1, <1>1, <1>2, <1>3
    <3> QED
      BY <2>2, <3>2 DEF EndOf
  <2> QED
    BY <2>1, <2>2
<1>5. ASSUME NEW k \in 1 .. Len(R) PROVE EndOf(R, k - 1) <= R[k].from /\ EndOf(R, k) = R[k].to
  <2>1. EndOf(R, k) = R[k].to
    BY <1>1 DEF EndOf
  <2>2. CASE k = 1
    BY <2>2, <1>2 DEF EndOf
  <2>3. CASE k # 1
    <3>1. k - 1 \in 1 .. Len(R) /\ k - 1 < k /\ k - 1 # 0
      BY <2>3, <1>1
    <3>2. R[k - 1].to <= R[k].from
      BY <3>1, <1>1 DEF Within, LeftToRight
    <3> QED
      BY <2>1, <3>1, <3>2 DEF EndOf
  <2> QED
    BY <2>1, <2>2, <2>3
<1> QED
  BY <1>1, <1>2, <1>3, <1>4, <1>5

\* What Replaced holds behind its first regions.
LEMMA ReplacedSteps ==
  ASSUME NEW S, NEW s \in Seq(S), NEW R, Within(S, s, R)
  PROVE  /\ Replaced(s, R)[0] = <<>>
         /\ \A k \in 0 .. Len(R) : Replaced(s, R)[k] \in Seq(S)
         /\ \A k \in 1 .. Len(R) :
              Replaced(s, R)[k] = Join(Join(Replaced(s, R)[k - 1], Part(s, EndOf(R, k - 1), R[k].from)), R[k].new)
<1> DEFINE N == Len(R)
           V == Seq(S)
           Step(k, d) == Join(Join(d, Part(s, EndOf(R, k - 1), R[k].from)), R[k].new)
           Body(f) == [k \in 0 .. N |-> IF k = 0 THEN <<>> ELSE Step(k, f[k - 1])]
           Is(f) == f = Body(f)
           F == [a \in (1 .. N) \X V |-> Step(a[1], a[2])]
           D == Replaced(s, R)
<1>1. N \in Nat /\ <<>> \in V
  BY WithinFacts
<1>2. ASSUME NEW k \in 1 .. N, NEW d \in V PROVE Step(k, d) \in V
  <2>1. EndOf(R, k - 1) \in 0 .. Len(s) /\ R[k].from \in EndOf(R, k - 1) .. Len(s) /\ R[k].new \in Seq(S)
    <3>1. k - 1 \in 0 .. N
      BY <1>1
    <3>2. EndOf(R, k - 1) \in 0 .. Len(s)
      BY <3>1, WithinFacts
    <3>3. /\ R[k].from \in Nat /\ R[k].to \in Nat /\ R[k].new \in Seq(S)
          /\ EndOf(R, k - 1) <= R[k].from /\ R[k].from <= R[k].to /\ R[k].to <= Len(s)
      BY WithinFacts
    <3> QED
      BY <3>2, <3>3
  <2>2. Part(s, EndOf(R, k - 1), R[k].from) \in Seq(S)
    BY <2>1, PartFacts
  <2>3. Join(d, Part(s, EndOf(R, k - 1), R[k].from)) \in Seq(S)
    BY <2>2, JoinType
  <2> QED
    BY <2>1, <2>3, JoinType
<1>3. F \in [(1 .. N) \X V -> V]
  <2> HIDE DEF Step, V
  <2> QED
    BY <1>2
<1>4. PICK f \in [0 .. N -> V] : Recursive(f, <<>>, N, F)
  <2> HIDE DEF F, N, V
  <2> QED
    BY <1>1, <1>3, RecursionExists
<1>5. Is(f)
  <2> HIDE DEF Step, V
  <2>1. ASSUME NEW k \in 0 .. N
        PROVE  f[k] = IF k = 0 THEN <<>> ELSE Step(k, f[k - 1])
    <3>1. CASE k = 0
      BY <1>4, <3>1 DEF Recursive
    <3>2. CASE k # 0
      <4>1. k \in 1 .. N /\ f[k - 1] \in V
        <5>1. k \in 1 .. N /\ k - 1 \in 0 .. N
          BY <3>2, <1>1
        <5> HIDE DEF N
        <5> QED
          BY <5>1, <1>4
      <4>2. <<k, f[k - 1]>> \in (1 .. N) \X V
        BY <4>1
      <4>3. F[<<k, f[k - 1]>>] = Step(k, f[k - 1])
        BY <4>2
      <4>4. f[k] = F[<<k, f[k - 1]>>]
        BY <4>1, <1>4 DEF Recursive
      <4> QED
        BY <3>2, <4>3, <4>4
    <3> QED
      BY <3>1, <3>2
  <2> QED
    BY <1>4, <2>1
<1>6. D = CHOOSE g : Is(g)
  BY Zenon DEF Replaced, Join
<1>7. Is(D)
  <2> HIDE DEF Is, D
  <2> QED
    BY <1>5, <1>6
<1>8. D[0] = <<>> /\ \A k \in 1 .. N : D[k] = Step(k, D[k - 1])
  <2> HIDE DEF Step, D
  <2>1. D = Body(D)
    BY <1>7
  <2>2. \A k \in 0 .. N : D[k] = IF k = 0 THEN <<>> ELSE Step(k, D[k - 1])
    <3> HIDE DEF N
    <3> QED
      BY <2>1
  <2>3. 0 \in 0 .. N /\ \A k \in 1 .. N : k \in 0 .. N /\ k # 0
    BY <1>1
  <2> QED
    BY <2>2, <2>3
<1>9. \A k \in 0 .. N : D[k] \in V
  <2> DEFINE T == {n \in Nat : n <= N => D[n] \in V}
  <2> HIDE DEF D, Step, V
  <2>1. 0 \in T
    BY <1>1, <1>8
  <2>2. ASSUME NEW n \in Nat, n \in T PROVE n + 1 \in T
    <3> SUFFICES ASSUME n + 1 <= N PROVE D[n + 1] \in V
      OBVIOUS
    <3>1. n + 1 \in 1 .. N /\ n <= N /\ (n + 1) - 1 = n
      BY <1>1
    <3>2. D[n] \in V
      BY <2>2, <3>1
    <3>3. D[n + 1] = Step(n + 1, D[(n + 1) - 1])
      BY <3>1, <1>8
    <3>4. D[(n + 1) - 1] = D[n]
      BY <3>1
    <3>5. Step(n + 1, D[n]) \in V
      BY <3>1, <3>2, <1>2
    <3> QED
      BY <3>3, <3>4, <3>5
  <2>3. Nat \subseteq T
    BY <2>1, <2>2, NatSetInduction
  <2> QED
    BY <2>3, <1>1
<1> QED
  BY <1>8, <1>9, Zenon DEF D, Step, V

LEMMA AtOnceIs == \A s, R : AtOnce(s, R) = Join(Replaced(s, R)[Len(R)], Part(s, EndOf(R, Len(R)), Len(s)))
  BY Zenon DEF AtOnce, Join

\* The result is a text again.
LEMMA AtOnceType ==
  ASSUME NEW S, NEW s \in Seq(S), NEW R, Within(S, s, R)
  PROVE  AtOnce(s, R) \in Seq(S)
<1>1. Len(R) \in 0 .. Len(R) /\ EndOf(R, Len(R)) \in 0 .. Len(s) /\ Len(s) \in EndOf(R, Len(R)) .. Len(s)
  <2>1. Len(R) \in Nat
    BY WithinFacts
  <2>2. Len(R) \in 0 .. Len(R)
    BY <2>1
  <2>3. EndOf(R, Len(R)) \in 0 .. Len(s)
    BY <2>2, WithinFacts
  <2> QED
    BY <2>2, <2>3
<1>2. Part(s, EndOf(R, Len(R)), Len(s)) \in Seq(S)
  BY <1>1, PartFacts
<1>3. Replaced(s, R)[Len(R)] \in Seq(S)
  BY <1>1, ReplacedSteps
<1> QED
  BY <1>2, <1>3, JoinType, AtOnceIs

\* f is what becomes of s when the regions behind the first m are replaced.
DoneBehind(S, s, R, m, f) ==
    \E t \in Seq(S) : f = Join(Part(s, 0, EndOf(R, m)), t) /\ AtOnce(s, R) = Join(Replaced(s, R)[m], t)

LEMMA BehindAll ==
  ASSUME NEW S, NEW s \in Seq(S), NEW R, Within(S, s, R)
  PROVE  DoneBehind(S, s, R, Len(R), s)
<1>1. Len(R) \in 0 .. Len(R) /\ EndOf(R, Len(R)) \in 0 .. Len(s)
  <2>1. Len(R) \in Nat
    BY WithinFacts
  <2>2. Len(R) \in 0 .. Len(R)
    BY <2>1
  <2> QED
    BY <2>2, WithinFacts
<1> DEFINE e == EndOf(R, Len(R))
           t == Part(s, e, Len(s))
<1>2. 0 \in 0 .. Len(s) /\ e \in 0 .. Len(s) /\ Len(s) \in e .. Len(s)
  BY <1>1
<1> HIDE DEF e
<1>3. t \in Seq(S)
  BY <1>2, PartFacts
<1>4. Join(Part(s, 0, e), t) = Part(s, 0, Len(s))
  BY <1>2, PartSplit
<1>5. s = Join(Part(s, 0, e), t)
  BY <1>4, PartAll
<1>6. AtOnce(s, R) = Join(Replaced(s, R)[Len(R)], t)
  BY AtOnceIs DEF e
<1> HIDE DEF t
<1> QED
  BY <1>3, <1>5, <1>6 DEF DoneBehind, e

LEMMA BehindNone ==
  ASSUME NEW S, NEW s \in Seq(S), NEW R, Within(S, s, R), NEW f, DoneBehind(S, s, R, 0, f)
  PROVE  f = AtOnce(s, R)
<1>1. PICK t \in Seq(S) : f = Join(Part(s, 0, EndOf(R, 0)), t) /\ AtOnce(s, R) = Join(Replaced(s, R)[0], t)
  BY DEF DoneBehind
<1>2. EndOf(R, 0) = 0 /\ Part(s, 0, 0) = <<>> /\ Replaced(s, R)[0] = <<>>
  BY PartNone, ReplacedSteps DEF EndOf
<1> QED
  BY <1>1, <1>2

\* The last region not yet replaced can be replaced at its old place.
LEMMA BehindStep ==
  ASSUME NEW S, NEW s \in Seq(S), NEW R, Within(S, s, R), NEW m \in 1 .. Len(R), NEW f, DoneBehind(S, s, R, m, f)
  PROVE  /\ f \in Seq(S) /\ R[m].to <= Len(f)
         /\ DoneBehind(S, s, R, m - 1, Instead(f, R[m].from, R[m].to, R[m].new))
<1> DEFINE a == EndOf(R, m - 1)  from == R[m].from  to == R[m].to  new == R[m].new
<1>1. m - 1 \in 0 .. Len(R) /\ m \in 0 .. Len(R)
  BY WithinFacts
<1>2. /\ from \in Nat /\ to \in Nat /\ new \in Seq(S) /\ a <= from /\ from <= to /\ to <= Len(s)
      /\ EndOf(R, m) = to /\ a \in 0 .. Len(s)
  BY <1>1, WithinFacts
<1>3. PICK t \in Seq(S) : f = Join(Part(s, 0, to), t) /\ AtOnce(s, R) = Join(Replaced(s, R)[m], t)
  BY <1>2 DEF DoneBehind
<1>4. Replaced(s, R)[m] = Join(Join(Replaced(s, R)[m - 1], Part(s, a, from)), new) /\ Replaced(s, R)[m - 1] \in Seq(S)
  BY <1>1, ReplacedSteps
<1> HIDE DEF a, from, to, new
<1>5. /\ 0 \in 0 .. Len(s) /\ a \in 0 .. Len(s) /\ from \in a .. Len(s) /\ from \in 0 .. Len(s)
      /\ to \in from .. Len(s) /\ to \in 0 .. Len(s) /\ a \in 0 .. Len(s)
  BY <1>2
<1> DEFINE p == Part(s, 0, a)  q == Part(s, a, from)  x == Part(s, 0, from)  o == Part(s, from, to)  d == Replaced(s, R)[m - 1]
<1>6. p \in Seq(S) /\ q \in Seq(S) /\ x \in Seq(S) /\ o \in Seq(S)
  BY <1>5, PartFacts
<1>7. Len(x) = from /\ Len(o) = to - from
  <2>1. Len(x) = from - 0 /\ Len(o) = to - from
    BY <1>5, PartFacts
  <2> QED
    BY <2>1, <1>2
<1>8. Join(x, o) = Part(s, 0, to) /\ Join(p, q) = x
  BY <1>5, PartSplit
<1>9. f = Join(Join(x, o), t)
  BY <1>3, <1>8
<1>10. Len(x) + Len(o) = to
  BY <1>7, <1>2
<1>12. d \in Seq(S) /\ t \in Seq(S) /\ new \in Seq(S)
  BY <1>2, <1>4
<1>13. Replaced(s, R)[m] = Join(Join(d, q), new)
  BY <1>4
<1>17. AtOnce(s, R) = Join(Replaced(s, R)[m], t)
  BY <1>3
<1> HIDE DEF p, q, x, o, d
<1>11. Instead(f, from, to, new) = Join(Join(x, new), t)
  <2>1. Instead(Join(Join(x, o), t), Len(x), Len(x) + Len(o), new) = Join(Join(x, new), t)
    BY <1>6, <1>12, InsteadOfSecond
  <2> QED
    BY <2>1, <1>7, <1>9, <1>10
<1> DEFINE u == Join(q, Join(new, t))
<1>14. u \in Seq(S) /\ Join(new, t) \in Seq(S)
  BY <1>6, <1>12, JoinType
<1>15. Join(Join(x, new), t) = Join(p, u)
  <2>1. Join(Join(x, new), t) = Join(x, Join(new, t))
    BY <1>6, <1>12, Joined
  <2>2. Join(Join(p, q), Join(new, t)) = Join(p, Join(q, Join(new, t)))
    BY <1>6, <1>14, Joined
  <2> QED
    BY <2>1, <2>2, <1>8
<1>16. AtOnce(s, R) = Join(d, u)
  <2>1. AtOnce(s, R) = Join(Join(Join(d, q), new), t)
    BY <1>17, <1>13
  <2>2. Join(d, q) \in Seq(S)
    BY <1>6, <1>12, JoinType
  <2>3. Join(Join(Join(d, q), new), t) = Join(Join(d, q), Join(new, t))
    BY <2>2, <1>12, Joined
  <2>4. Join(Join(d, q), Join(new, t)) = Join(d, Join(q, Join(new, t)))
    BY <1>6, <1>12, <1>14, Joined
  <2> QED
    BY <2>1, <2>3, <2>4
<1>18. DoneBehind(S, s, R, m - 1, Join(Join(x, new), t))
  <2> HIDE DEF u
  <2> QED
    BY <1>14, <1>15, <1>16 DEF DoneBehind, p, d, a
<1>19. f \in Seq(S) /\ to <= Len(f)
  <2>1. Join(Join(x, o), t) \in Seq(S)
    BY <1>6, <1>12, JoinType
  <2>2. Len(Join(Join(x, o), t)) = Len(x) + Len(o) + Len(t)
    BY <1>6, <1>12, InsteadOfSecond
  <2>3. Len(t) \in Nat
    OBVIOUS
  <2> QED
    BY <2>1, <2>2, <2>3, <1>9, <1>10, <1>2
<1> QED
  BY <1>11, <1>18, <1>19 DEF from, to, new

\* Two ways to fill the same regions which differ in one of them.
SamePlaces(P, Q) == Len(P) = Len(Q) /\ \A i \in 1 .. Len(P) : P[i].from = Q[i].from /\ P[i].to = Q[i].to
Around(S, s, P, Q, k) ==
    \E x, y \in Seq(S) : AtOnce(s, P) = Join(Join(x, P[k].new), y) /\ AtOnce(s, Q) = Join(Join(x, Q[k].new), y)

\* Around one region the two results are the same text before and behind.
LEMMA SwapOne ==
  ASSUME NEW S, NEW s \in Seq(S), NEW P, NEW Q, Within(S, s, P), Within(S, s, Q), SamePlaces(P, Q),
         NEW k \in 1 .. Len(P), \A i \in 1 .. Len(P) : i # k => P[i].new = Q[i].new
  PROVE  Around(S, s, P, Q, k)
<1> DEFINE N == Len(P)  DP == Replaced(s, P)  DQ == Replaced(s, Q)
           gap(i) == Part(s, EndOf(P, i - 1), P[i].from)
<1>1. N \in Nat /\ Len(Q) = N /\ \A i \in 0 .. N : EndOf(Q, i) = EndOf(P, i) /\ EndOf(P, i) \in 0 .. Len(s)
  <2>1. N \in Nat /\ Len(Q) = N
    BY WithinFacts DEF SamePlaces
  <2>2. ASSUME NEW i \in 0 .. N PROVE EndOf(Q, i) = EndOf(P, i)
    <3>1. i = 0 \/ i \in 1 .. N
      BY <2>1
    <3> QED
      BY <3>1 DEF EndOf, SamePlaces
  <2> QED
    BY <2>1, <2>2, WithinFacts
<1>2. ASSUME NEW i \in 1 .. N
      PROVE  /\ gap(i) \in Seq(S) /\ P[i].new \in Seq(S) /\ Q[i].new \in Seq(S)
             /\ DP[i] = Join(Join(DP[i - 1], gap(i)), P[i].new) /\ DQ[i] = Join(Join(DQ[i - 1], gap(i)), Q[i].new)
  <2>1. i - 1 \in 0 .. N
    BY <1>1
  <2>2. EndOf(P, i - 1) \in 0 .. Len(s) /\ P[i].from \in EndOf(P, i - 1) .. Len(s)
    <3>1. EndOf(P, i - 1) \in 0 .. Len(s)
      BY <2>1, <1>1
    <3>2. P[i].from \in Nat /\ P[i].to \in Nat /\ EndOf(P, i - 1) <= P[i].from /\ P[i].from <= P[i].to /\ P[i].to <= Len(s)
      BY WithinFacts
    <3> QED
      BY <3>1, <3>2
  <2>3. gap(i) \in Seq(S)
    BY <2>2, PartFacts
  <2>4. EndOf(Q, i - 1) = EndOf(P, i - 1) /\ Q[i].from = P[i].from /\ i \in 1 .. Len(Q)
    BY <1>1, <2>1 DEF SamePlaces
  <2>5. DP[i] = Join(Join(DP[i - 1], gap(i)), P[i].new)
    BY ReplacedSteps
  <2>6. DQ[i] = Join(Join(DQ[i - 1], Part(s, EndOf(Q, i - 1), Q[i].from)), Q[i].new)
    BY <2>4, ReplacedSteps
  <2>7. P[i].new \in Seq(S) /\ Q[i].new \in Seq(S)
    BY <2>4, WithinFacts
  <2> QED
    BY <2>3, <2>4, <2>5, <2>6, <2>7
<1>3. DP[0] = <<>> /\ DQ[0] = <<>> /\ \A i \in 0 .. N : DP[i] \in Seq(S) /\ DQ[i] \in Seq(S)
  BY <1>1, ReplacedSteps
<1>4. \A i \in 1 .. N : i # k => P[i].new = Q[i].new
  OBVIOUS
<1>5. k \in 1 .. N /\ k - 1 \in 0 .. N /\ N \in 0 .. N /\ N \in k .. N
  BY <1>1
<1>6. AtOnce(s, P) = Join(DP[N], Part(s, EndOf(P, N), Len(s))) /\ AtOnce(s, Q) = Join(DQ[N], Part(s, EndOf(P, N), Len(s)))
  BY <1>1, <1>5, AtOnceIs
<1> HIDE DEF N, DP, DQ, gap
<1>7. DP[k - 1] = DQ[k - 1]
  <2> DEFINE T == {i \in Nat : i < k => DP[i] = DQ[i]}
  <2>1. 0 \in T
    BY <1>3
  <2>2. ASSUME NEW i \in Nat, i \in T PROVE i + 1 \in T
    <3> SUFFICES ASSUME i + 1 < k PROVE DP[i + 1] = DQ[i + 1]
      OBVIOUS
    <3>1. i + 1 \in 1 .. N /\ i + 1 # k /\ (i + 1) - 1 = i /\ DP[i] = DQ[i]
      BY <1>5, <1>1, <2>2
    <3>2. P[i + 1].new = Q[i + 1].new
      BY <3>1, <1>4
    <3>3. /\ DP[i + 1] = Join(Join(DP[(i + 1) - 1], gap(i + 1)), P[i + 1].new)
          /\ DQ[i + 1] = Join(Join(DQ[(i + 1) - 1], gap(i + 1)), Q[i + 1].new)
      BY <3>1, <1>2
    <3> QED
      BY <3>1, <3>2, <3>3
  <2> HIDE DEF T
  <2>3. Nat \subseteq T
    BY <2>1, <2>2, NatSetInduction
  <2>4. k - 1 \in T /\ k - 1 < k
    BY <2>3, <1>5, <1>1
  <2> QED
    BY <2>4 DEF T
<1> DEFINE x == Join(DP[k - 1], gap(k))  p == Join(x, P[k].new)  q == Join(x, Q[k].new)
           Split(i) == \E w \in Seq(S) : DP[i] = Join(p, w) /\ DQ[i] = Join(q, w)
<1>8. x \in Seq(S) /\ p \in Seq(S) /\ q \in Seq(S) /\ DP[k] = p /\ DQ[k] = q
  <2>1. DP[k - 1] \in Seq(S) /\ gap(k) \in Seq(S) /\ P[k].new \in Seq(S) /\ Q[k].new \in Seq(S)
    BY <1>2, <1>3, <1>5
  <2>2. x \in Seq(S)
    BY <2>1, JoinType
  <2>3. DP[k] = Join(Join(DP[k - 1], gap(k)), P[k].new) /\ DQ[k] = Join(Join(DQ[k - 1], gap(k)), Q[k].new)
    BY <1>5, <1>2
  <2> HIDE DEF x
  <2>4. p \in Seq(S) /\ q \in Seq(S)
    BY <2>1, <2>2, JoinType
  <2> QED
    BY <2>2, <2>3, <2>4, <1>7 DEF x
<1> HIDE DEF p, q
<1>9. Split(k)
  <2>1. <<>> \in Seq(S) /\ Join(p, <<>>) = p /\ Join(q, <<>>) = q
    BY <1>8, JoinNone
  <2> QED
    BY <2>1, <1>8
<1>10. ASSUME NEW i \in k .. N, i + 1 <= N, Split(i) PROVE Split(i + 1)
  <2>1. PICK w \in Seq(S) : DP[i] = Join(p, w) /\ DQ[i] = Join(q, w)
    BY <1>10
  <2>2. i + 1 \in 1 .. N /\ i + 1 # k /\ (i + 1) - 1 = i
    BY <1>10, <1>5, <1>1
  <2> DEFINE g == gap(i + 1)  n == P[i + 1].new  v == Join(Join(w, g), n)
  <2>3. DP[i + 1] = Join(Join(DP[i], g), n) /\ DQ[i + 1] = Join(Join(DQ[i], g), n) /\ g \in Seq(S) /\ n \in Seq(S)
    BY <2>2, <1>2, <1>4
  <2> HIDE DEF g, n
  <2>4. ASSUME NEW z \in Seq(S) PROVE Join(Join(Join(z, w), g), n) = Join(z, v)
    <3>1. Join(Join(z, w), g) = Join(z, Join(w, g)) /\ Join(w, g) \in Seq(S)
      BY <2>3, Joined, JoinType
    <3>2. Join(Join(z, Join(w, g)), n) = Join(z, Join(Join(w, g), n))
      BY <3>1, <2>3, Joined
    <3> QED
      BY <3>1, <3>2
  <2>5. v \in Seq(S)
    <3>1. Join(w, g) \in Seq(S)
      BY <2>3, JoinType
    <3> QED
      BY <3>1, <2>3, JoinType
  <2>6. DP[i + 1] = Join(p, v) /\ DQ[i + 1] = Join(q, v)
    BY <2>1, <2>3, <2>4, <1>8
  <2> HIDE DEF v
  <2> QED
    BY <2>5, <2>6
<1> HIDE DEF Split
<1>11. Split(N)
  <2> DEFINE T == {i \in Nat : k + i <= N => Split(k + i)}
  <2>1. 0 \in T
    BY <1>9, <1>5, <1>1
  <2>2. ASSUME NEW i \in Nat, i \in T PROVE i + 1 \in T
    <3> SUFFICES ASSUME k + (i + 1) <= N PROVE Split(k + (i + 1))
      OBVIOUS
    <3>1. k + i \in k .. N /\ (k + i) + 1 <= N /\ (k + i) + 1 = k + (i + 1)
      BY <1>5, <1>1
    <3>2. Split(k + i)
      BY <3>1, <2>2
    <3> QED
      BY <3>1, <3>2, <1>10
  <2> HIDE DEF T
  <2>3. Nat \subseteq T
    BY <2>1, <2>2, NatSetInduction
  <2>4. N - k \in T /\ k + (N - k) = N /\ N <= N
    BY <2>3, <1>5, <1>1
  <2> QED
    BY <2>4 DEF T
<1>12. PICK w \in Seq(S) : DP[N] = Join(p, w) /\ DQ[N] = Join(q, w)
  BY <1>11 DEF Split
<1> DEFINE r == Part(s, EndOf(P, N), Len(s))  y == Join(w, r)
<1>13. r \in Seq(S)
  <2>1. EndOf(P, N) \in 0 .. Len(s) /\ Len(s) \in EndOf(P, N) .. Len(s)
    BY <1>1, <1>5
  <2> QED
    BY <2>1, PartFacts
<1>14. AtOnce(s, P) = Join(DP[N], r) /\ AtOnce(s, Q) = Join(DQ[N], r)
  BY <1>6
<1> HIDE DEF r
<1>15. y \in Seq(S) /\ Join(Join(p, w), r) = Join(p, y) /\ Join(Join(q, w), r) = Join(q, y)
  BY <1>8, <1>13, Joined, JoinType
<1> HIDE DEF y
<1> QED
  BY <1>8, <1>12, <1>14, <1>15 DEF Around, p, q

\* Regions filled with what stands there already.
LEMMA AllAsTheyWere ==
  ASSUME NEW S, NEW s \in Seq(S), NEW R, Within(S, s, R),
         \A k \in 1 .. Len(R) : R[k].new = Part(s, R[k].from, R[k].to)
  PROVE  AtOnce(s, R) = s
<1> DEFINE N == Len(R)  D == Replaced(s, R)  T == {k \in Nat : k <= N => D[k] = Part(s, 0, EndOf(R, k))}
<1>1. N \in Nat /\ \A k \in 0 .. N : EndOf(R, k) \in 0 .. Len(s)
  BY WithinFacts
<1>2. 0 \in T
  BY ReplacedSteps, PartNone DEF EndOf
<1>3. ASSUME NEW k \in Nat, k \in T PROVE k + 1 \in T
  <2> SUFFICES ASSUME k + 1 <= N PROVE D[k + 1] = Part(s, 0, EndOf(R, k + 1))
    OBVIOUS
  <2>1. k + 1 \in 1 .. N /\ (k + 1) - 1 = k /\ k \in 0 .. N /\ D[k] = Part(s, 0, EndOf(R, k))
    BY <1>1, <1>3
  <2> DEFINE e == EndOf(R, k)  from == R[k + 1].from  to == R[k + 1].to
  <2>2. D[k + 1] = Join(Join(D[k], Part(s, e, from)), R[k + 1].new)
    BY <2>1, ReplacedSteps
  <2>3. R[k + 1].new = Part(s, from, to) /\ EndOf(R, k + 1) = to
    BY <2>1, WithinFacts
  <2>4. e \in 0 .. Len(s) /\ from \in Nat /\ to \in Nat /\ e <= from /\ from <= to /\ to <= Len(s)
    BY <2>1, <1>1, WithinFacts
  <2> HIDE DEF e, from, to
  <2>5. /\ 0 \in 0 .. Len(s) /\ e \in 0 .. Len(s) /\ from \in e .. Len(s) /\ from \in 0 .. Len(s) /\ to \in from .. Len(s)
    BY <2>4
  <2>6. Join(Part(s, 0, e), Part(s, e, from)) = Part(s, 0, from)
    BY <2>5, PartSplit
  <2>7. Join(Part(s, 0, from), Part(s, from, to)) = Part(s, 0, to)
    BY <2>5, PartSplit
  <2> QED
    BY <2>1, <2>2, <2>3, <2>6, <2>7 DEF e
<1> HIDE DEF T
<1>4. N \in T
  BY <1>1, <1>2, <1>3, NatSetInduction
<1>5. D[N] = Part(s, 0, EndOf(R, N))
  BY <1>4, <1>1 DEF T
<1>6. 0 \in 0 .. Len(s) /\ EndOf(R, N) \in 0 .. Len(s) /\ Len(s) \in EndOf(R, N) .. Len(s)
  BY <1>1
<1>7. Join(Part(s, 0, EndOf(R, N)), Part(s, EndOf(R, N), Len(s))) = Part(s, 0, Len(s))
  BY <1>6, PartSplit
<1> QED
  BY <1>5, <1>7, PartAll, AtOnceIs

-----------------------------------------------------------------------------
(* Normal forms.                                                           *)

\* The numbers up to n, in their order.
LEMMA AscendingAll == ASSUME NEW n \in Nat PROVE Ascending(1 .. n) = [k \in 1 .. n |-> k]
<1> DEFINE Rank(x) == Cardinality({y \in 1 .. n : y < x})
<1>1. ASSUME NEW x \in 1 .. n PROVE Rank(x) = x - 1
  <2>1. {y \in 1 .. n : y < x} = 1 .. x - 1
    OBVIOUS
  <2>2. 1 \in Int /\ x - 1 \in Int
    OBVIOUS
  <2>3. Cardinality(1 .. x - 1) = IF 1 > x - 1 THEN 0 ELSE (x - 1) - 1 + 1
    BY <2>2, FS_Interval
  <2>4. (IF 1 > x - 1 THEN 0 ELSE (x - 1) - 1 + 1) = x - 1
    OBVIOUS
  <2> QED
    BY <2>1, <2>3, <2>4
<1>2. Cardinality(1 .. n) = n
  <2>1. 1 \in Int /\ n \in Int
    OBVIOUS
  <2>2. Cardinality(1 .. n) = IF 1 > n THEN 0 ELSE n - 1 + 1
    BY <2>1, FS_Interval
  <2> QED
    BY <2>2
<1> HIDE DEF Rank
<1>3. ASSUME NEW k \in 1 .. n PROVE (CHOOSE x \in 1 .. n : Rank(x) = k - 1) = k
  <2>1. Rank(k) = k - 1 /\ k \in 1 .. n
    BY <1>1
  <2>2. ASSUME NEW x \in 1 .. n, Rank(x) = k - 1 PROVE x = k
    <3>1. x - 1 = k - 1
      BY <1>1, <2>2
    <3> QED
      BY <3>1
  <2> QED
    BY <2>1, <2>2
<1>4. Ascending(1 .. n) = [k \in 1 .. n |-> CHOOSE x \in 1 .. n : Rank(x) = k - 1]
  BY <1>2 DEF Ascending, Rank
<1> QED
  BY <1>3, <1>4

\* Without fuzziness every character has its place, one for one.
LEMMA NormalMap ==
  ASSUME NEW S, NEW s \in Seq(S)
  PROVE  /\ MapNormalizedText(s, FALSE).text = [k \in 1 .. Len(s) |-> NormalizeRune(s[k], FALSE)]
         /\ \A k \in 0 .. Len(s) : MapNormalizedText(s, FALSE).boundaries[k] = k
<1> DEFINE n == Len(s)  kept == {i \in DOMAIN s : ~(FALSE /\ Trailing(s, i))}  all == [k \in 1 .. n |-> k]
<1>1. n \in Nat /\ kept = 1 .. n
  OBVIOUS
<1>2. Ascending(kept) = all
  BY <1>1, AscendingAll
<1>3. DOMAIN all = 1 .. n /\ Len(all) = n /\ \A k \in 1 .. n : all[k] = k
  BY <1>1
<1>4. MapNormalizedText(s, FALSE) = MapKept(s, FALSE, all)
  BY <1>2 DEF MapNormalizedText
<1> HIDE DEF all, n
<1>5. MapKept(s, FALSE, all).text = [k \in 1 .. n |-> NormalizeRune(s[k], FALSE)]
  <2>1. MapKept(s, FALSE, all).text = [k \in DOMAIN all |-> NormalizeRune(s[all[k]], FALSE)]
    BY DEF MapKept
  <2> QED
    BY <2>1, <1>3
<1>6. ASSUME NEW k \in 0 .. n PROVE MapKept(s, FALSE, all).boundaries[k] = k
  <2>1. MapKept(s, FALSE, all).boundaries = [i \in 0 .. Len(all) |-> IF i = Len(all) THEN Len(s) ELSE all[i + 1] - 1]
    BY DEF MapKept
  <2>2. MapKept(s, FALSE, all).boundaries[k] = IF k = n THEN n ELSE all[k + 1] - 1
    BY <2>1, <1>3 DEF n
  <2>3. k # n => all[k + 1] - 1 = k
    <3>1. k # n => k + 1 \in 1 .. n /\ (k + 1) - 1 = k
      BY <1>1
    <3> QED
      BY <3>1, <1>3
  <2>4. CASE k = n
    BY <2>2, <2>4
  <2>5. CASE k # n
    BY <2>2, <2>3, <2>5
  <2> QED
    BY <2>4, <2>5
<1> QED
  BY <1>4, <1>5, <1>6 DEF n

LEMMA RuneLF ==
  \A ch : /\ NormalizeRune(ch, FALSE) = IF ch \in LineEnds THEN "lf" ELSE ch
          /\ ch \in Characters => NormalizeRune(ch, FALSE) \in Characters
          /\ "lf" \in LineEnds /\ NormalizeRune(NormalizeRune(ch, FALSE), FALSE) = NormalizeRune(ch, FALSE)
  BY DEF NormalizeRune, IsLineEnd, LineEnds, Characters

\* Text for text as long as it was, one character for one.
LEMMA NormalText ==
  ASSUME NEW s \in Seq(Characters)
  PROVE  /\ NormalizeToLF(s) \in Seq(Characters) /\ Len(NormalizeToLF(s)) = Len(s)
         /\ \A k \in 1 .. Len(s) : NormalizeToLF(s)[k] = NormalizeRune(s[k], FALSE)
<1> DEFINE n == Len(s)  t == [k \in 1 .. n |-> NormalizeRune(s[k], FALSE)]
<1>1. NormalizeToLF(s) = t
  BY NormalMap DEF NormalizeToLF
<1>2. n \in Nat /\ \A k \in 1 .. n : s[k] \in Characters
  OBVIOUS
<1> HIDE DEF n
<1>3. \A k \in 1 .. n : t[k] = NormalizeRune(s[k], FALSE) /\ t[k] \in Characters
  BY <1>2, RuneLF
<1>4. t \in [1 .. n -> Characters]
  BY <1>2, RuneLF
<1>5. t \in Seq(Characters) /\ Len(t) = n
  <2> HIDE DEF t
  <2> QED
    BY <1>2, <1>4
<1> QED
  BY <1>1, <1>3, <1>5 DEF n

Joins(S, j, x, y) ==
    /\ j \in Seq(S) /\ Len(j) = Len(x) + Len(y)
    /\ \A i \in 1 .. Len(x) : j[i] = x[i]
    /\ \A i \in 1 .. Len(y) : j[Len(x) + i] = y[i]

LEMMA JoinFacts ==
  ASSUME NEW S, NEW x \in Seq(S), NEW y \in Seq(S)
  PROVE  Joins(S, Join(x, y), x, y)
<1>1. Join(x, y) \in Seq(S) /\ Len(Join(x, y)) = Len(x) + Len(y)
      /\ \A i \in 1 .. Len(x) + Len(y) : Join(x, y)[i] = IF i <= Len(x) THEN x[i] ELSE y[i - Len(x)]
  BY ConcatProperties DEF Join
<1>2. Len(x) \in Nat /\ Len(y) \in Nat
  OBVIOUS
<1>3. ASSUME NEW i \in 1 .. Len(x) PROVE Join(x, y)[i] = x[i]
  <2>1. i \in 1 .. Len(x) + Len(y) /\ i <= Len(x)
    BY <1>2
  <2> QED
    BY <2>1, <1>1
<1>4. ASSUME NEW i \in 1 .. Len(y) PROVE Join(x, y)[Len(x) + i] = y[i]
  <2>1. Len(x) + i \in 1 .. Len(x) + Len(y) /\ ~(Len(x) + i <= Len(x)) /\ (Len(x) + i) - Len(x) = i
    BY <1>2
  <2>2. Join(x, y)[Len(x) + i] = y[(Len(x) + i) - Len(x)]
    BY <2>1, <1>1
  <2> QED
    BY <2>1, <2>2
<1> QED
  BY <1>1, <1>3, <1>4 DEF Joins

\* Two texts with the same characters at the same places, in two parts.
LEMMA JoinEqual ==
  ASSUME NEW S, NEW x \in Seq(S), NEW y \in Seq(S), NEW t \in Seq(S), Len(t) = Len(x) + Len(y),
         \A i \in 1 .. Len(x) : t[i] = x[i], \A i \in 1 .. Len(y) : t[Len(x) + i] = y[i]
  PROVE  t = Join(x, y)
<1> DEFINE j == Join(x, y)
<1>2. /\ j \in Seq(S) /\ Len(j) = Len(x) + Len(y)
      /\ \A i \in 1 .. Len(x) : j[i] = x[i]
      /\ \A i \in 1 .. Len(y) : j[Len(x) + i] = y[i]
  <2>1. Joins(S, j, x, y)
    BY JoinFacts
  <2> HIDE DEF j
  <2> QED
    BY <2>1 DEF Joins
<1> HIDE DEF j
<1>1. j \in Seq(S) /\ Len(j) = Len(x) + Len(y) /\ Len(x) \in Nat /\ Len(y) \in Nat
  BY <1>2
<1> HIDE DEF j
<1>3. ASSUME NEW i \in 1 .. Len(t) PROVE t[i] = j[i]
  <2>1. CASE i <= Len(x)
    <3>1. i \in 1 .. Len(x)
      BY <2>1, <1>1
    <3> QED
      BY <3>1, <1>2
  <2>2. CASE ~(i <= Len(x))
    <3>1. i - Len(x) \in 1 .. Len(y) /\ Len(x) + (i - Len(x)) = i
      BY <2>2, <1>1
    <3>2. t[Len(x) + (i - Len(x))] = j[Len(x) + (i - Len(x))]
      BY <3>1, <1>2
    <3> QED
      BY <3>1, <3>2
  <2> QED
    BY <2>1, <2>2
<1>4. Len(t) = Len(j)
  BY <1>1
<1> QED
  BY <1>1, <1>3, <1>4, SeqEqual DEF j

LEMMA NormalJoin ==
  ASSUME NEW x \in Seq(Characters), NEW y \in Seq(Characters)
  PROVE  NormalizeToLF(Join(x, y)) = Join(NormalizeToLF(x), NormalizeToLF(y))
<1> DEFINE j == Join(x, y)  nx == NormalizeToLF(x)  ny == NormalizeToLF(y)  t == NormalizeToLF(j)
<1>2. /\ j \in Seq(Characters) /\ Len(j) = Len(x) + Len(y)
      /\ \A i \in 1 .. Len(x) : j[i] = x[i]
      /\ \A i \in 1 .. Len(y) : j[Len(x) + i] = y[i]
  <2>1. Joins(Characters, j, x, y)
    BY JoinFacts
  <2> HIDE DEF j
  <2> QED
    BY <2>1 DEF Joins
<1> HIDE DEF j
<1>1. j \in Seq(Characters) /\ Len(j) = Len(x) + Len(y) /\ Len(x) \in Nat /\ Len(y) \in Nat
  BY <1>2
<1> HIDE DEF j
<1>3. t \in Seq(Characters) /\ Len(t) = Len(j) /\ \A k \in 1 .. Len(j) : t[k] = NormalizeRune(j[k], FALSE)
  BY <1>1, NormalText
<1>4. nx \in Seq(Characters) /\ Len(nx) = Len(x) /\ \A k \in 1 .. Len(x) : nx[k] = NormalizeRune(x[k], FALSE)
  BY NormalText
<1>5. ny \in Seq(Characters) /\ Len(ny) = Len(y) /\ \A k \in 1 .. Len(y) : ny[k] = NormalizeRune(y[k], FALSE)
  BY NormalText
<1> HIDE DEF nx, ny, t
<1>6. ASSUME NEW i \in 1 .. Len(nx) PROVE t[i] = nx[i]
  <2>1. i \in 1 .. Len(x) /\ i \in 1 .. Len(j)
    BY <1>1, <1>4
  <2> QED
    BY <2>1, <1>2, <1>3, <1>4
<1>7. ASSUME NEW i \in 1 .. Len(ny) PROVE t[Len(nx) + i] = ny[i]
  <2>1. i \in 1 .. Len(y) /\ Len(x) + i \in 1 .. Len(j) /\ Len(nx) = Len(x)
    BY <1>1, <1>4, <1>5
  <2> QED
    BY <2>1, <1>2, <1>3, <1>5
<1>8. Len(t) = Len(nx) + Len(ny)
  BY <1>1, <1>3, <1>4, <1>5
<1>9. t = Join(nx, ny)
  BY <1>3, <1>4, <1>5, <1>6, <1>7, <1>8, JoinEqual
<1> QED
  BY <1>9 DEF t, nx, ny, j

LEMMA NormalPart ==
  ASSUME NEW s \in Seq(Characters), NEW a \in 0 .. Len(s), NEW b \in a .. Len(s)
  PROVE  NormalizeToLF(Part(s, a, b)) = Part(NormalizeToLF(s), a, b)
<1> DEFINE p == Part(s, a, b)  n == NormalizeToLF(s)  x == NormalizeToLF(p)  y == Part(n, a, b)
<1>1. p \in Seq(Characters) /\ Len(p) = b - a /\ \A i \in 1 .. b - a : p[i] = s[a + i]
  BY PartFacts
<1>2. n \in Seq(Characters) /\ Len(n) = Len(s) /\ \A k \in 1 .. Len(s) : n[k] = NormalizeRune(s[k], FALSE)
  BY NormalText
<1> HIDE DEF p, n
<1>3. x \in Seq(Characters) /\ Len(x) = Len(p) /\ \A k \in 1 .. Len(p) : x[k] = NormalizeRune(p[k], FALSE)
  BY <1>1, NormalText
<1>4. a \in 0 .. Len(n) /\ b \in a .. Len(n)
  BY <1>2
<1>5. y \in Seq(Characters) /\ Len(y) = b - a /\ \A i \in 1 .. b - a : y[i] = n[a + i]
  BY <1>2, <1>4, PartFacts
<1> HIDE DEF x, y
<1>6. ASSUME NEW i \in 1 .. Len(x) PROVE x[i] = y[i]
  <2>1. i \in 1 .. b - a /\ i \in 1 .. Len(p) /\ a + i \in 1 .. Len(s)
    BY <1>1, <1>3
  <2> QED
    BY <2>1, <1>1, <1>2, <1>3, <1>5
<1>7. Len(x) = Len(y)
  BY <1>1, <1>3, <1>5
<1>8. x = y
  BY <1>3, <1>5, <1>6, <1>7, SeqEqual
<1> QED
  BY <1>8 DEF x, y, p, n

\* Other line ends are other only in that.
LEMMA RestoredText ==
  ASSUME NEW x \in Seq(Characters), NEW ending \in {"lf", "crlf"}
  PROVE  /\ RestoreLineEndings(NormalizeToLF(x), ending) \in Seq(Characters)
         /\ NormalizeToLF(RestoreLineEndings(NormalizeToLF(x), ending)) = NormalizeToLF(x)
         /\ \A c \in LineEnds : c # ending => RestoreLineEndings(NormalizeToLF(x), ending) \in Seq(Characters \ {c})
<1> DEFINE n == NormalizeToLF(x)  r == RestoreLineEndings(n, ending)
<1>1. n \in Seq(Characters) /\ Len(n) = Len(x) /\ \A k \in 1 .. Len(x) : n[k] = NormalizeRune(x[k], FALSE)
  BY NormalText
<1>2. \A k \in 1 .. Len(n) : n[k] \in Characters /\ (n[k] \in LineEnds => n[k] = "lf")
  <2>1. \A k \in 1 .. Len(n) : n[k] \in Characters
    BY <1>1
  <2> QED
    BY <2>1, <1>1, RuneLF
<1>3. Len(n) \in Nat /\ DOMAIN n = 1 .. Len(n)
  BY <1>1
<1>4. ending \in Characters /\ ending \in LineEnds
  BY DEF Characters, LineEnds
<1> HIDE DEF n
<1>5. r = [k \in 1 .. Len(n) |-> IF n[k] = "lf" THEN ending ELSE n[k]]
  BY <1>3 DEF RestoreLineEndings
<1>6. \A k \in 1 .. Len(n) : r[k] = IF n[k] = "lf" THEN ending ELSE n[k]
  BY <1>5
<1> DEFINE m == Len(n)
<1>7. \A T : (\A k \in 1 .. m : r[k] \in T) => r \in Seq(T) /\ Len(r) = m
  <2> TAKE T
  <2> HAVE \A k \in 1 .. m : r[k] \in T
  <2>1. r \in [1 .. m -> T]
    BY <1>5
  <2> HIDE DEF r, m
  <2>2. m \in Nat
    BY <1>3 DEF m
  <2> QED
    BY <2>1, <2>2
<1> HIDE DEF r
<1>8. r \in Seq(Characters) /\ Len(r) = m
  <2>1. \A k \in 1 .. m : r[k] \in Characters
    BY <1>2, <1>4, <1>6
  <2> QED
    BY <2>1, <1>7
<1>9. ASSUME NEW c \in LineEnds, c # ending PROVE r \in Seq(Characters \ {c})
  <2>1. \A k \in 1 .. m : r[k] \in Characters \ {c}
    BY <1>2, <1>4, <1>6, <1>9
  <2> QED
    BY <2>1, <1>7
<1> DEFINE q == NormalizeToLF(r)
<1>10. q \in Seq(Characters) /\ Len(q) = m /\ \A k \in 1 .. m : q[k] = NormalizeRune(r[k], FALSE)
  BY <1>8, NormalText
<1> HIDE DEF q
<1>11. ASSUME NEW k \in 1 .. Len(q) PROVE q[k] = n[k]
  <2>1. k \in 1 .. m /\ q[k] = NormalizeRune(r[k], FALSE) /\ k \in 1 .. Len(n)
    BY <1>10
  <2>2. CASE n[k] = "lf"
    BY <2>1, <2>2, <1>4, <1>6, RuneLF
  <2>3. CASE n[k] # "lf"
    BY <2>1, <2>3, <1>2, <1>6, RuneLF
  <2> QED
    BY <2>2, <2>3
<1>12. q = n
  BY <1>1, <1>10, <1>11, SeqEqual
<1> QED
  BY <1>8, <1>9, <1>12 DEF q, r, n

LEMMA LeastOfFacts ==
  ASSUME NEW S, S \subseteq Nat, S # {}
  PROVE  LeastOf(S) \in S /\ \A y \in S : LeastOf(S) <= y
<1>1. \E x \in S : \A y \in S : x <= y
  BY LeastNat
<1> QED
  BY <1>1 DEF LeastOf

LEMMA GreatestFacts ==
  ASSUME NEW a \in Int, NEW b \in Int, NEW S, S \subseteq a .. b, S # {}
  PROVE  Greatest(S) \in S /\ \A y \in S : y <= Greatest(S)
<1>1. \E x \in S : \A y \in S : y <= x
  BY GreatestInt
<1>2. \E x \in S : \A y \in S : x >= y
  <2>1. PICK x \in S : \A y \in S : y <= x
    BY <1>1
  <2>2. ASSUME NEW y \in S PROVE x >= y
    <3>1. y <= x /\ x \in Int /\ y \in Int
      BY <2>1
    <3> QED
      BY <3>1
  <2> QED
    BY <2>2
<1>3. Greatest(S) \in S /\ \A y \in S : Greatest(S) >= y
  BY <1>2 DEF Greatest
<1> DEFINE g == Greatest(S)
<1>4. g \in S /\ \A y \in S : g >= y
  BY <1>3
<1> HIDE DEF g
<1>5. ASSUME NEW y \in S PROVE y <= g
  <2>1. g >= y /\ g \in Int /\ y \in Int
    BY <1>4
  <2> QED
    BY <2>1
<1> QED
  BY <1>4, <1>5 DEF g

\* What decides about the line end of a text.
LEMMA DetectFacts ==
  ASSUME NEW s \in Seq(Characters)
  PROVE  /\ DetectLineEnding(s) \in {"lf", "crlf"}
         /\ DetectLineEnding(s) = "crlf" => \E i \in 1 .. Len(s) : s[i] = "crlf"
         /\ s \in Seq(Characters \ {"crlf"}) => DetectLineEnding(s) = "lf"
         /\ s \in Seq(Characters \ {"lf"}) /\ ~(s \in Seq(Characters \ {"crlf"})) => DetectLineEnding(s) = "crlf"
<1> DEFINE ends == {i \in DOMAIN s : s[i] \in {"lf", "crlf"}}
<1>1. ends \subseteq Nat /\ DOMAIN s = 1 .. Len(s) /\ \A i \in ends : i \in 1 .. Len(s) /\ s[i] \in {"lf", "crlf"}
  OBVIOUS
<1>2. DetectLineEnding(s) = IF ends = {} THEN "lf" ELSE s[LeastOf(ends)]
  BY DEF DetectLineEnding
<1>3. \A i \in 1 .. Len(s) : i \notin ends => s[i] # "lf" /\ s[i] # "crlf"
  BY <1>1
<1>4. \A c : s \in Seq(Characters \ {c}) <=> \A i \in 1 .. Len(s) : s[i] # c
  <2>1. ASSUME NEW c, \A i \in 1 .. Len(s) : s[i] # c PROVE s \in Seq(Characters \ {c})
    <3>1. \A i \in 1 .. Len(s) : s[i] \in Characters \ {c}
      BY <2>1
    <3> QED
      BY <3>1
  <2>2. ASSUME NEW c, s \in Seq(Characters \ {c}) PROVE \A i \in 1 .. Len(s) : s[i] # c
    BY <2>2
  <2> QED
    BY <2>1, <2>2
<1> HIDE DEF ends
<1>5. CASE ends = {}
  <2>1. DetectLineEnding(s) = "lf" /\ \A i \in 1 .. Len(s) : s[i] # "crlf"
    BY <1>2, <1>3, <1>5
  <2>2. s \in Seq(Characters \ {"crlf"})
    BY <2>1, <1>4
  <2> QED
    BY <2>1, <2>2
<1>6. CASE ends # {}
  <2>1. LeastOf(ends) \in ends
    BY <1>1, <1>6, LeastOfFacts
  <2> DEFINE l == LeastOf(ends)
  <2>2. l \in 1 .. Len(s) /\ s[l] \in {"lf", "crlf"} /\ DetectLineEnding(s) = s[l]
    BY <2>1, <1>1, <1>2, <1>6
  <2> HIDE DEF l
  <2>3. CASE s[l] = "lf"
    <3>1. ~(s \in Seq(Characters \ {"lf"}))
      BY <2>2, <2>3, <1>4
    <3> QED
      BY <2>2, <2>3, <3>1
  <2>4. CASE s[l] = "crlf"
    <3>1. ~(s \in Seq(Characters \ {"crlf"}))
      BY <2>2, <2>4, <1>4
    <3> QED
      BY <2>2, <2>4, <3>1
  <2> QED
    BY <2>2, <2>3, <2>4
<1> QED
  BY <1>5, <1>6

\* All line ends of such a text are the same.
LEMMA OneKind ==
  ASSUME NEW s \in Seq(Characters), OneKindOfLineEnd(s),
         NEW i \in 1 .. Len(s), NEW j \in 1 .. Len(s), s[i] \in LineEnds, s[j] \in LineEnds
  PROVE  s[i] = s[j]
<1> DEFINE T == {s[k] : k \in DOMAIN s} \cap LineEnds
<1>1. Cardinality(T) <= 1
  BY DEF OneKindOfLineEnd
<1>2. IsFiniteSet(T)
  <2>1. IsFiniteSet(LineEnds)
    <3>1. IsFiniteSet({"lf"})
      BY FS_Singleton
    <3>2. IsFiniteSet({"lf"} \cup {"crlf"})
      BY <3>1, FS_AddElement
    <3>3. IsFiniteSet(({"lf"} \cup {"crlf"}) \cup {"cr"})
      BY <3>2, FS_AddElement
    <3>4. LineEnds = ({"lf"} \cup {"crlf"}) \cup {"cr"}
      BY DEF LineEnds
    <3> QED
      BY <3>3, <3>4
  <2>2. T \in SUBSET LineEnds
    OBVIOUS
  <2> HIDE DEF T
  <2> QED
    BY <2>1, <2>2, FS_Subset
<1>3. s[i] \in T /\ s[j] \in T
  <2>1. i \in DOMAIN s /\ j \in DOMAIN s
    OBVIOUS
  <2> QED
    BY <2>1
<1> HIDE DEF T
<1>9. SUFFICES ASSUME s[i] # s[j] PROVE FALSE
  OBVIOUS
<1> DEFINE a == s[i]  b == s[j]
<1>4. a # b /\ {a} \cup {b} \in SUBSET T
  BY <1>3, <1>9
<1> HIDE DEF a, b
<1>5. IsFiniteSet({a}) /\ Cardinality({a}) = 1
  BY FS_Singleton
<1>6. Cardinality({a} \cup {b}) = 2
  <2>1. b \notin {a}
    BY <1>4
  <2>2. Cardinality({a} \cup {b}) = Cardinality({a}) + 1
    BY <1>5, <2>1, FS_AddElement
  <2>3. 1 + 1 = 2
    OBVIOUS
  <2> QED
    BY <1>5, <2>2, <2>3, Zenon
<1>7. Cardinality({a} \cup {b}) <= Cardinality(T)
  BY <1>2, <1>4, FS_Subset
<1>8. Cardinality(T) \in Nat
  BY <1>2, FS_CardinalityType
<1> DEFINE ct == Cardinality(T)  cu == Cardinality({a} \cup {b})
<1>10. ct <= 1 /\ cu = 2 /\ cu <= ct /\ ct \in Nat
  BY <1>1, <1>6, <1>7, <1>8
<1> HIDE DEF ct, cu
<1> QED
  BY <1>10

\* In a text with one kind of line ends.
Other(ending) == IF ending = "crlf" THEN "lf" ELSE "crlf"
HasLineEnd(t) == \E i \in DOMAIN t : IsLineEnd(t[i])

\* No other line end stands in it, and its parts have the same kind.
LEMMA OneKindFacts ==
  ASSUME NEW s \in Seq(Characters), OneKindOfLineEnd(s)
  PROVE  /\ s \in Seq(Characters \ {Other(DetectLineEnding(s))})
         /\ \A a \in 0 .. Len(s) : \A b \in a .. Len(s) :
               HasLineEnd(Part(s, a, b)) => DetectLineEnding(Part(s, a, b)) = DetectLineEnding(s)
<1> DEFINE e == DetectLineEnding(s)
<1>1. e \in {"lf", "crlf"} /\ (e = "crlf" => \E i \in 1 .. Len(s) : s[i] = "crlf")
  BY DetectFacts
<1>2. e = "lf" => s \in Seq(Characters \ {"crlf"})
  <2> SUFFICES ASSUME e = "lf", ~(s \in Seq(Characters \ {"crlf"})) PROVE FALSE
    OBVIOUS
  <2>1. PICK k \in 1 .. Len(s) : s[k] = "crlf"
    <3> SUFFICES ASSUME \A k \in 1 .. Len(s) : s[k] # "crlf" PROVE s \in Seq(Characters \ {"crlf"})
      OBVIOUS
    <3>1. \A k \in 1 .. Len(s) : s[k] \in Characters \ {"crlf"}
      OBVIOUS
    <3> QED
      BY <3>1
  <2>2. \A i \in 1 .. Len(s) : s[i] # "lf"
    <3> TAKE i \in 1 .. Len(s)
    <3>1. s[k] \in LineEnds /\ "lf" \in LineEnds
      BY <2>1 DEF LineEnds
    <3>2. s[i] \in LineEnds => s[i] = s[k]
      BY <3>1, OneKind
    <3> QED
      BY <2>1, <3>1, <3>2
  <2>3. s \in Seq(Characters \ {"lf"})
    <3>1. \A i \in 1 .. Len(s) : s[i] \in Characters \ {"lf"}
      BY <2>2
    <3> QED
      BY <3>1
  <2> QED
    BY <2>3, DetectFacts
<1>3. e = "crlf" => \A i \in 1 .. Len(s) : s[i] \in LineEnds => s[i] = "crlf"
  <2> HAVE e = "crlf"
  <2> TAKE i \in 1 .. Len(s)
  <2> HAVE s[i] \in LineEnds
  <2>1. PICK k \in 1 .. Len(s) : s[k] = "crlf"
    BY <1>1
  <2>2. s[k] \in LineEnds
    BY <2>1 DEF LineEnds
  <2> QED
    BY <2>1, <2>2, OneKind
<1> HIDE DEF e
<1>4. s \in Seq(Characters \ {Other(e)})
  <2>1. CASE e = "lf"
    BY <1>2, <2>1 DEF Other
  <2>2. CASE e = "crlf"
    <3>1. \A i \in 1 .. Len(s) : s[i] \in Characters \ {"lf"}
      BY <1>3, <2>2 DEF LineEnds
    <3>2. s \in Seq(Characters \ {"lf"})
      BY <3>1
    <3> QED
      BY <2>2, <3>2 DEF Other
  <2> QED
    BY <1>1, <2>1, <2>2
<1>5. ASSUME NEW a \in 0 .. Len(s), NEW b \in a .. Len(s), HasLineEnd(Part(s, a, b))
      PROVE  DetectLineEnding(Part(s, a, b)) = e
  <2> DEFINE p == Part(s, a, b)
  <2> SUFFICES DetectLineEnding(p) = e
    OBVIOUS
  <2>1. p \in Seq(Characters) /\ Len(p) = b - a /\ \A i \in 1 .. b - a : p[i] = s[a + i]
    BY PartFacts
  <2>7. \A T : (\A k \in 1 .. Len(p) : p[k] \in T) => p \in Seq(T)
    BY <2>1
  <2>2. PICK i \in DOMAIN p : p[i] \in LineEnds
    BY <1>5, Zenon DEF HasLineEnd, IsLineEnd
  <2> HIDE DEF p
  <2>3. DOMAIN p = 1 .. b - a
    BY <2>1
  <2>4. \A k \in 1 .. b - a : a + k \in 1 .. Len(s)
    OBVIOUS
  <2>5. CASE e = "lf"
    <3>0. s \in Seq(Characters \ {"crlf"})
      BY <1>2, <2>5
    <3>1. \A k \in 1 .. Len(s) : s[k] \in Characters \ {"crlf"}
      BY <3>0
    <3>2. \A k \in 1 .. Len(p) : p[k] \in Characters \ {"crlf"}
      BY <2>1, <2>4, <3>1
    <3>3. p \in Seq(Characters \ {"crlf"})
      BY <2>7, <3>2
    <3> QED
      BY <2>1, <2>5, <3>3, DetectFacts
  <2>6. CASE e = "crlf"
    <3>1. \A k \in 1 .. Len(p) : p[k] \in LineEnds => p[k] = "crlf"
      BY <1>3, <2>1, <2>4, <2>6
    <3>2. p[i] = "crlf" /\ i \in 1 .. Len(p)
      BY <2>1, <2>2, <2>3, <3>1
    <3>3. ~(p \in Seq(Characters \ {"crlf"}))
      BY <3>2
    <3>4. \A k \in 1 .. Len(p) : p[k] \in Characters \ {"lf"}
      BY <2>1, <3>1 DEF LineEnds
    <3>5. p \in Seq(Characters \ {"lf"})
      BY <2>7, <3>4
    <3> QED
      BY <2>1, <2>6, <3>3, <3>5, DetectFacts
  <2> QED
    BY <1>1, <2>5, <2>6
<1> QED
  BY <1>4, <1>5 DEF e

\* Line ends apart, only the new texts count.
LEMMA NormalAtOnce ==
  ASSUME NEW s \in Seq(Characters), NEW P, NEW Q, Within(Characters, s, P), Within(Characters, s, Q), SamePlaces(P, Q),
         \A i \in 1 .. Len(P) : NormalizeToLF(P[i].new) = NormalizeToLF(Q[i].new)
  PROVE  NormalizeToLF(AtOnce(s, P)) = NormalizeToLF(AtOnce(s, Q))
<1> DEFINE N == Len(P)  DP == Replaced(s, P)  DQ == Replaced(s, Q)
           gap(i) == Part(s, EndOf(P, i - 1), P[i].from)
           n(t) == NormalizeToLF(t)
<1>1. N \in Nat /\ Len(Q) = N /\ \A i \in 0 .. N : EndOf(Q, i) = EndOf(P, i) /\ EndOf(P, i) \in 0 .. Len(s)
  <2>1. N \in Nat /\ Len(Q) = N
    BY WithinFacts DEF SamePlaces
  <2>2. ASSUME NEW i \in 0 .. N PROVE EndOf(Q, i) = EndOf(P, i)
    <3>1. i = 0 \/ i \in 1 .. N
      BY <2>1
    <3> QED
      BY <3>1 DEF EndOf, SamePlaces
  <2> QED
    BY <2>1, <2>2, WithinFacts
<1>2. ASSUME NEW i \in 1 .. N
      PROVE  /\ gap(i) \in Seq(Characters) /\ P[i].new \in Seq(Characters) /\ Q[i].new \in Seq(Characters)
             /\ DP[i] = Join(Join(DP[i - 1], gap(i)), P[i].new) /\ DQ[i] = Join(Join(DQ[i - 1], gap(i)), Q[i].new)
  <2>1. i - 1 \in 0 .. N
    BY <1>1
  <2>2. EndOf(P, i - 1) \in 0 .. Len(s) /\ P[i].from \in EndOf(P, i - 1) .. Len(s)
    <3>1. EndOf(P, i - 1) \in 0 .. Len(s)
      BY <2>1, <1>1
    <3>2. P[i].from \in Nat /\ P[i].to \in Nat /\ EndOf(P, i - 1) <= P[i].from /\ P[i].from <= P[i].to /\ P[i].to <= Len(s)
      BY WithinFacts
    <3> QED
      BY <3>1, <3>2
  <2>3. gap(i) \in Seq(Characters)
    BY <2>2, PartFacts
  <2>4. EndOf(Q, i - 1) = EndOf(P, i - 1) /\ Q[i].from = P[i].from /\ i \in 1 .. Len(Q)
    BY <1>1, <2>1 DEF SamePlaces
  <2>5. DP[i] = Join(Join(DP[i - 1], gap(i)), P[i].new)
    BY ReplacedSteps
  <2>6. DQ[i] = Join(Join(DQ[i - 1], Part(s, EndOf(Q, i - 1), Q[i].from)), Q[i].new)
    BY <2>4, ReplacedSteps
  <2>7. P[i].new \in Seq(Characters) /\ Q[i].new \in Seq(Characters)
    BY <2>4, WithinFacts
  <2> QED
    BY <2>3, <2>4, <2>5, <2>6, <2>7
<1>3. DP[0] = <<>> /\ DQ[0] = <<>> /\ \A i \in 0 .. N : DP[i] \in Seq(Characters) /\ DQ[i] \in Seq(Characters)
  BY <1>1, ReplacedSteps
<1>4. \A i \in 1 .. N : n(P[i].new) = n(Q[i].new)
  OBVIOUS
<1> DEFINE r == Part(s, EndOf(P, N), Len(s))
<1>5. r \in Seq(Characters) /\ AtOnce(s, P) = Join(DP[N], r) /\ AtOnce(s, Q) = Join(DQ[N], r)
  <2>1. N \in 0 .. N
    BY <1>1
  <2>2. EndOf(P, N) \in 0 .. Len(s) /\ Len(s) \in EndOf(P, N) .. Len(s)
    BY <1>1, <2>1
  <2>3. r \in Seq(Characters)
    BY <2>2, PartFacts
  <2>4. AtOnce(s, P) = Join(DP[N], Part(s, EndOf(P, N), Len(s)))
    BY AtOnceIs
  <2>5. AtOnce(s, Q) = Join(DQ[N], Part(s, EndOf(Q, N), Len(s)))
    BY AtOnceIs, <1>1
  <2> QED
    BY <2>1, <2>3, <2>4, <2>5, <1>1
<1> HIDE DEF N, DP, DQ, gap, r, n
<1>6. \A x, y \in Seq(Characters) : n(Join(x, y)) = Join(n(x), n(y))
  BY NormalJoin DEF n
<1> DEFINE T == {i \in Nat : i <= N => n(DP[i]) = n(DQ[i])}
<1>7. 0 \in T
  BY <1>3
<1>8. ASSUME NEW i \in Nat, i \in T PROVE i + 1 \in T
  <2> SUFFICES ASSUME i + 1 <= N PROVE n(DP[i + 1]) = n(DQ[i + 1])
    OBVIOUS
  <2>1. i + 1 \in 1 .. N /\ (i + 1) - 1 = i /\ i \in 0 .. N /\ n(DP[i]) = n(DQ[i])
    BY <1>1, <1>8
  <2> DEFINE g == gap(i + 1)  u == P[i + 1].new  v == Q[i + 1].new
  <2>2. DP[i + 1] = Join(Join(DP[i], g), u) /\ DQ[i + 1] = Join(Join(DQ[i], g), v) /\ g \in Seq(Characters)
        /\ u \in Seq(Characters) /\ v \in Seq(Characters) /\ n(u) = n(v)
    BY <2>1, <1>2, <1>4
  <2> HIDE DEF g, u, v
  <2>3. DP[i] \in Seq(Characters) /\ DQ[i] \in Seq(Characters)
    BY <2>1, <1>3
  <2>4. Join(DP[i], g) \in Seq(Characters) /\ Join(DQ[i], g) \in Seq(Characters)
    BY <2>2, <2>3, JoinType
  <2>5. n(Join(DP[i], g)) = Join(n(DP[i]), n(g)) /\ n(Join(DQ[i], g)) = Join(n(DQ[i]), n(g))
    BY <2>2, <2>3, <1>6
  <2>6. n(DP[i + 1]) = Join(n(Join(DP[i], g)), n(u)) /\ n(DQ[i + 1]) = Join(n(Join(DQ[i], g)), n(v))
    BY <2>2, <2>4, <1>6
  <2> QED
    BY <2>1, <2>2, <2>5, <2>6
<1> HIDE DEF T
<1>9. N \in T
  BY <1>1, <1>7, <1>8, NatSetInduction
<1>10. n(DP[N]) = n(DQ[N]) /\ DP[N] \in Seq(Characters) /\ DQ[N] \in Seq(Characters)
  BY <1>9, <1>1, <1>3 DEF T
<1>11. n(Join(DP[N], r)) = Join(n(DP[N]), n(r)) /\ n(Join(DQ[N], r)) = Join(n(DQ[N]), n(r))
  BY <1>5, <1>6, <1>10
<1> QED
  BY <1>5, <1>10, <1>11 DEF n

-----------------------------------------------------------------------------
(* Numbers in their order.                                                 *)

\* A set of numbers in its order: each of them once, at the place that says
\* how many are below it.
Orders(S, A) ==
    /\ A \in [1 .. Cardinality(S) -> S]
    /\ \A i, j \in 1 .. Cardinality(S) : i < j => A[i] < A[j]
    /\ \A x \in S : \E k \in 1 .. Cardinality(S) : A[k] = x

\* Ascending lists every element once, smaller ones first.
LEMMA AscendingOrders ==
  ASSUME NEW S, S \subseteq Nat, IsFiniteSet(S)
  PROVE  Cardinality(S) \in Nat /\ Orders(S, Ascending(S))
<1> DEFINE n == Cardinality(S)
           Below(x) == {y \in S : y < x}
           Rank(x) == Cardinality(Below(x))
           f == [x \in S |-> Rank(x) + 1]
           A == Ascending(S)
<1>1. n \in Nat
  BY FS_CardinalityType
<1>2. ASSUME NEW x \in S PROVE IsFiniteSet(Below(x)) /\ Rank(x) \in Nat /\ Rank(x) < n
  <2>1. Below(x) \in SUBSET S /\ x \notin Below(x) /\ x \in Nat
    OBVIOUS
  <2> HIDE DEF Below
  <2>2. IsFiniteSet(Below(x)) /\ Cardinality(Below(x)) <= n /\ (n = Cardinality(Below(x)) => S = Below(x))
    BY <2>1, FS_Subset
  <2>3. Rank(x) \in Nat
    BY <2>2, FS_CardinalityType
  <2> QED
    BY <2>1, <2>2, <2>3, <1>1
<1>3. ASSUME NEW x \in S, NEW y \in S, x < y PROVE Rank(x) < Rank(y)
  <2>1. Below(x) \in SUBSET Below(y) /\ x \in Below(y) /\ x \notin Below(x)
    <3>1. x \in Nat /\ y \in Nat
      OBVIOUS
    <3>2. ASSUME NEW z \in S, z < x PROVE z < y
      <4>1. z \in Nat
        OBVIOUS
      <4> QED
        BY <1>3, <3>1, <3>2, <4>1
    <3>3. ~(x < x)
      BY <3>1
    <3> QED
      BY <1>3, <3>2, <3>3
  <2>2. IsFiniteSet(Below(y)) /\ Rank(x) \in Nat /\ Rank(y) \in Nat
    BY <1>2
  <2> HIDE DEF Below
  <2>3. Cardinality(Below(x)) <= Cardinality(Below(y)) /\ (Cardinality(Below(y)) = Cardinality(Below(x)) => Below(y) = Below(x))
    BY <2>1, <2>2, FS_Subset
  <2> QED
    BY <2>1, <2>2, <2>3
<1>4. ASSUME NEW x \in S, NEW y \in S, Rank(x) = Rank(y) PROVE x = y
  <2>1. ~(x < y) /\ ~(y < x)
    <3>1. ~(Rank(x) < Rank(y)) /\ ~(Rank(y) < Rank(x))
      BY <1>2, <1>4
    <3> QED
      BY <3>1, <1>3
  <2>2. x \in Nat /\ y \in Nat
    OBVIOUS
  <2> QED
    BY <2>1, <2>2
<1>5. A = [k \in 1 .. n |-> CHOOSE x \in S : Rank(x) = k - 1]
  BY DEF Ascending
<1> HIDE DEF n, Rank, A, Below
<1>13. \A x \in S : Rank(x) \in Nat /\ Rank(x) < n
  BY <1>2
<1>6. f \in Injection(S, 1 .. n)
  <2>1. ASSUME NEW x \in S PROVE f[x] \in 1 .. n /\ f[x] = Rank(x) + 1
    BY <1>1, <1>13
  <2>2. f \in [S -> 1 .. n]
    BY <2>1
  <2>3. ASSUME NEW x \in S, NEW y \in S, f[x] = f[y] PROVE x = y
    <3>1. Rank(x) = Rank(y)
      BY <2>1, <2>3, <1>13
    <3> QED
      BY <3>1, <1>4
  <2> HIDE DEF f
  <2> QED
    BY <2>2, <2>3 DEF Injection, IsInjective
<1>7. IsFiniteSet(1 .. n) /\ Cardinality(1 .. n) = n
  <2>1. 1 \in Int /\ n \in Int
    BY <1>1
  <2>2. IsFiniteSet(1 .. n) /\ Cardinality(1 .. n) = IF 1 > n THEN 0 ELSE n - 1 + 1
    BY <2>1, FS_Interval
  <2> QED
    BY <2>2, <1>1
<1>8. f \in Surjection(S, 1 .. n)
  <2> HIDE DEF f
  <2>1. Cardinality(S) = n
    BY DEF n
  <2>2. Cardinality(S) = Cardinality(1 .. n) <=> f \in Surjection(S, 1 .. n)
    BY <1>6, <1>7, FS_Injection
  <2> QED
    BY <2>1, <2>2, <1>7
<1>9. ASSUME NEW k \in 1 .. n PROVE A[k] \in S /\ Rank(A[k]) = k - 1
  <2>1. PICK x \in S : f[x] = k
    BY <1>8 DEF Surjection
  <2>2. Rank(x) = k - 1
    BY <2>1, <1>13
  <2>3. A[k] = CHOOSE y \in S : Rank(y) = k - 1
    BY <1>5
  <2> QED
    BY <2>2, <2>3
<1>10. A \in [1 .. n -> S]
  <2>1. DOMAIN A = 1 .. n /\ A = [k \in 1 .. n |-> A[k]]
    BY <1>5
  <2> QED
    BY <2>1, <1>9
<1>11. ASSUME NEW i \in 1 .. n, NEW j \in 1 .. n, i < j PROVE A[i] < A[j]
  <2>1. /\ A[i] \in S /\ A[j] \in S /\ A[i] \in Nat /\ A[j] \in Nat
        /\ Rank(A[i]) = i - 1 /\ Rank(A[j]) = j - 1
    BY <1>9
  <2>2. ~(A[j] < A[i]) /\ A[j] # A[i]
    <3>1. ~(Rank(A[j]) < Rank(A[i])) /\ Rank(A[j]) # Rank(A[i])
      BY <2>1, <1>11
    <3> QED
      BY <3>1, <2>1, <1>3
  <2> QED
    BY <2>1, <2>2
<1>12. ASSUME NEW x \in S PROVE \E k \in 1 .. n : A[k] = x
  <2>1. Rank(x) + 1 \in 1 .. n
    BY <1>1, <1>13
  <2>2. A[Rank(x) + 1] \in S /\ Rank(A[Rank(x) + 1]) = (Rank(x) + 1) - 1
    BY <2>1, <1>9
  <2>3. Rank(A[Rank(x) + 1]) = Rank(x)
    BY <2>2, <1>13
  <2>4. A[Rank(x) + 1] = x
    BY <2>2, <2>3, <1>4
  <2> QED
    BY <2>1, <2>4
<1> QED
  BY <1>1, <1>10, <1>11, <1>12 DEF Orders, n, A

-----------------------------------------------------------------------------
(* search_replace.                                                         *)

LEMMA OccurrenceFacts ==
  ASSUME NEW S, NEW text \in Seq(S), NEW match \in Seq(S)
  PROVE  /\ Occurrences(text, match) \subseteq Nat
         /\ \A i \in Occurrences(text, match) :
              /\ i \in 0 .. Len(text) /\ i + Len(match) \in i .. Len(text) /\ i + Len(match) \in 0 .. Len(text)
              /\ Part(text, i, i + Len(match)) = match
<1>1. Len(text) \in Nat /\ Len(match) \in Nat
  OBVIOUS
<1>2. ASSUME NEW i \in Occurrences(text, match)
      PROVE  i \in 0 .. Len(text) - Len(match) /\ Part(text, i, i + Len(match)) = match
  BY <1>2, Zenon DEF Occurrences
<1>3. ASSUME NEW i \in Occurrences(text, match)
      PROVE  i \in Nat /\ i \in 0 .. Len(text) /\ i + Len(match) \in i .. Len(text) /\ i + Len(match) \in 0 .. Len(text)
  BY <1>1, <1>2
<1> QED
  BY <1>2, <1>3

\* Places that leave room for a match of this length.
Spaced(d, at, n) == d \in Seq(at) /\ \A i, j \in 1 .. Len(d) : i < j => d[i] + n <= d[j]

LEMMA SpacedGoesOn ==
  ASSUME NEW at, at \subseteq Nat, NEW pattern, Len(pattern) \in Nat, NEW d, Spaced(d, at, Len(pattern)),
         NEW i \in at, i >= Behindmost(d, pattern)
  PROVE  Spaced(Append(d, i), at, Len(pattern))
<1> DEFINE n == Len(d)  a == Append(d, i)  L == Len(pattern)
<1>1. n \in Nat /\ L \in Nat /\ d \in Seq(at) /\ \A k \in 1 .. n : d[k] \in at /\ d[k] \in Nat
  <2>1. d \in Seq(at)
    BY DEF Spaced
  <2>2. n \in Nat /\ \A k \in 1 .. n : d[k] \in at
    BY <2>1
  <2> QED
    BY <2>1, <2>2
<1>2. a \in Seq(at) /\ Len(a) = n + 1 /\ a[n + 1] = i /\ \A k \in 1 .. n : a[k] = d[k]
  BY <1>1
<1>3. i \in Nat
  OBVIOUS
<1>4. \A j, k \in 1 .. n : j < k => d[j] + L <= d[k]
  BY DEF Spaced
<1>5. ASSUME NEW j \in 1 .. n PROVE d[j] + L <= i
  <2>1. d # <<>> /\ n \in 1 .. n
    BY <1>1
  <2>2. d[n] + L <= i
    BY <2>1 DEF Behindmost, Last
  <2>3. CASE j = n
    BY <2>2, <2>3
  <2>4. CASE j # n
    <3>1. d[j] + L <= d[n]
      BY <1>1, <1>4, <2>1, <2>4
    <3>2. d[j] \in Nat /\ d[n] \in Nat
      BY <1>1, <2>1
    <3> QED
      BY <1>1, <1>3, <2>2, <3>1, <3>2
  <2> QED
    BY <2>3, <2>4
<1> HIDE DEF n, a, L
<1>6. ASSUME NEW j \in 1 .. n + 1, NEW k \in 1 .. n + 1, j < k PROVE a[j] + L <= a[k]
  <2>1. j \in 1 .. n /\ a[j] = d[j]
    BY <1>1, <1>2, <1>6
  <2>2. CASE k = n + 1
    BY <1>2, <1>5, <2>1, <2>2
  <2>3. CASE k # n + 1
    <3>1. k \in 1 .. n /\ a[k] = d[k]
      BY <1>1, <1>2, <2>3
    <3> QED
      BY <1>4, <1>6, <2>1, <3>1
  <2> QED
    BY <2>2, <2>3
<1> QED
  BY <1>2, <1>6, Zenon DEF Spaced, a, n, L

\* The matches follow one another without overlap.
LEMMA MatchesSpaced ==
  ASSUME NEW S, NEW text \in Seq(S), NEW pattern \in Seq(S)
  PROVE  Spaced(Matches(text, pattern), Occurrences(text, pattern), Len(pattern))
<1> DEFINE N == Len(text) + 1
           at == Occurrences(text, pattern)
           V == {d \in Seq(at) : Spaced(d, at, Len(pattern))}
           Step(k, d) == IF k - 1 \in at /\ k - 1 >= Behindmost(d, pattern) THEN Append(d, k - 1) ELSE d
           Body(f) == [k \in 0 .. N |-> IF k = 0 THEN <<>>
                                        ELSE IF k - 1 \in at /\ k - 1 >= Behindmost(f[k - 1], pattern)
                                             THEN Append(f[k - 1], k - 1) ELSE f[k - 1]]
           Is(f) == f = Body(f)
           F == [a \in (1 .. N) \X V |-> Step(a[1], a[2])]
<1>1. N \in Nat /\ Len(pattern) \in Nat /\ at \subseteq Nat
  BY OccurrenceFacts
<1>2. <<>> \in V
  BY DEF Spaced
<1>3. ASSUME NEW k \in 1 .. N, NEW d \in V PROVE Step(k, d) \in V
  <2>1. CASE k - 1 \in at /\ k - 1 >= Behindmost(d, pattern)
    <3> HIDE DEF at
    <3>1. Spaced(d, at, Len(pattern))
      OBVIOUS
    <3>2. Spaced(Append(d, k - 1), at, Len(pattern))
      BY <1>1, <2>1, <3>1, SpacedGoesOn
    <3> QED
      BY <2>1, <3>2 DEF Spaced
  <2>2. CASE ~(k - 1 \in at /\ k - 1 >= Behindmost(d, pattern))
    <3> HIDE DEF V, at
    <3> QED
      BY <2>2
  <2> QED
    BY <2>1, <2>2
<1>4. F \in [(1 .. N) \X V -> V]
  <2> HIDE DEF Step, V
  <2> QED
    BY <1>3
<1>5. PICK f \in [0 .. N -> V] : Recursive(f, <<>>, N, F)
  <2> HIDE DEF F, N, V
  <2> QED
    BY <1>1, <1>2, <1>4, RecursionExists
<1>6. Is(f)
  <2>1. ASSUME NEW k \in 0 .. N
        PROVE  f[k] = IF k = 0 THEN <<>> ELSE Step(k, f[k - 1])
    <3> HIDE DEF Step, V
    <3>1. CASE k = 0
      BY <1>5, <3>1 DEF Recursive
    <3>2. CASE k # 0
      <4>1. k \in 1 .. N /\ f[k - 1] \in V
        <5>1. k \in 1 .. N /\ k - 1 \in 0 .. N
          BY <3>2, <1>1
        <5> HIDE DEF N
        <5> QED
          BY <5>1, <1>5
      <4>2. <<k, f[k - 1]>> \in (1 .. N) \X V
        BY <4>1
      <4>3. F[<<k, f[k - 1]>>] = Step(k, f[k - 1])
        BY <4>2
      <4>4. f[k] = F[<<k, f[k - 1]>>]
        BY <4>1, <1>5 DEF Recursive
      <4> QED
        BY <3>2, <4>3, <4>4
    <3> QED
      BY <3>1, <3>2
  <2>2. DOMAIN f = 0 .. N /\ f = [k \in 0 .. N |-> f[k]]
    BY <1>5
  <2> HIDE DEF V, at, F, N
  <2> QED
    BY <2>1, <2>2, Zenon
<1> DEFINE D == CHOOSE g : Is(g)
<1>7. Is(D)
  <2> HIDE DEF Is
  <2> QED
    BY <1>6
<1>8. Matches(text, pattern) = D[N]
  BY Zenon DEF Matches
<1>9. D[0] = <<>> /\ \A k \in 1 .. N : D[k] = Step(k, D[k - 1])
  <2> HIDE DEF D, at
  <2>1. \A k \in 0 .. N : D[k] = IF k = 0 THEN <<>> ELSE Step(k, D[k - 1])
    <3>1. D = Body(D)
      BY <1>7
    <3> HIDE DEF N
    <3> QED
      BY <3>1
  <2>2. 0 \in 0 .. N /\ \A k \in 1 .. N : k \in 0 .. N /\ k # 0
    BY <1>1
  <2> HIDE DEF Step
  <2> QED
    BY <2>1, <2>2
<1>10. D[N] \in V
  <2> DEFINE T == {n \in Nat : n <= N => D[n] \in V}
  <2> HIDE DEF D, Step, V
  <2>1. 0 \in T
    BY <1>2, <1>9
  <2>2. ASSUME NEW n \in Nat, n \in T PROVE n + 1 \in T
    <3> SUFFICES ASSUME n + 1 <= N PROVE D[n + 1] \in V
      OBVIOUS
    <3>1. n + 1 \in 1 .. N /\ n <= N /\ (n + 1) - 1 = n
      BY <1>1
    <3>2. D[n] \in V
      BY <2>2, <3>1
    <3>3. D[n + 1] = Step(n + 1, D[(n + 1) - 1])
      BY <3>1, <1>9
    <3>4. D[(n + 1) - 1] = D[n]
      BY <3>1
    <3>5. Step(n + 1, D[n]) \in V
      BY <3>1, <3>2, <1>3
    <3> QED
      BY <3>3, <3>4, <3>5
  <2>3. Nat \subseteq T
    BY <2>1, <2>2, NatSetInduction
  <2> QED
    BY <2>3, <1>1
<1> QED
  BY <1>8, <1>10

LEMMA EndingFacts ==
  ASSUME NEW s \in Seq(Characters), NEW own \in Seq(Characters)
  PROVE  /\ EndingFor(s, own) \in {"lf", "crlf"}
         /\ HasLineEnd(own) => EndingFor(s, own) = DetectLineEnding(own)
         /\ ~HasLineEnd(own) => EndingFor(s, own) = DetectLineEnding(s)
<1>1. EndingFor(s, own) = DetectLineEnding(IF HasLineEnd(own) THEN own ELSE s)
  BY Zenon DEF EndingFor, HasLineEnd
<1>2. DetectLineEnding(s) \in {"lf", "crlf"} /\ DetectLineEnding(own) \in {"lf", "crlf"}
  BY DetectFacts
<1>3. CASE HasLineEnd(own)
  BY <1>1, <1>2, <1>3
<1>4. CASE ~HasLineEnd(own)
  BY <1>1, <1>2, <1>4
<1> QED
  BY <1>3, <1>4

LEMMA ReplacementFacts ==
  ASSUME NEW s \in Seq(Characters), NEW a \in 0 .. Len(s), NEW b \in a .. Len(s), NEW new \in Seq(Characters)
  PROVE  /\ Replacement(s, a, b, new) = RestoreLineEndings(NormalizeToLF(new), EndingFor(s, Part(s, a, b)))
         /\ Replacement(s, a, b, new) \in Seq(Characters)
         /\ NormalizeToLF(Replacement(s, a, b, new)) = NormalizeToLF(new)
<1> DEFINE e == EndingFor(s, Part(s, a, b))
<1>1. e \in {"lf", "crlf"}
  <2>1. Part(s, a, b) \in Seq(Characters)
    BY PartFacts
  <2> QED
    BY <2>1, EndingFacts
<1>2. Replacement(s, a, b, new) = RestoreLineEndings(NormalizeToLF(new), e)
  BY Zenon DEF Replacement
<1> HIDE DEF e
<1>3. /\ RestoreLineEndings(NormalizeToLF(new), e) \in Seq(Characters)
      /\ NormalizeToLF(RestoreLineEndings(NormalizeToLF(new), e)) = NormalizeToLF(new)
  BY <1>1, RestoredText
<1> QED
  BY <1>2, <1>3 DEF e

\* The regions of the matches.
LEMMA MatchRegionsWithin ==
  ASSUME NEW s \in Seq(Characters), NEW pattern \in Seq(Characters), pattern # <<>>, NEW by \in Seq(Characters)
  PROVE  /\ Within(Characters, s, MatchRegions(s, pattern, by))
         /\ Len(MatchRegions(s, pattern, by)) = Len(Matches(NormalizeToLF(s), pattern))
         /\ \A i \in 1 .. Len(Matches(NormalizeToLF(s), pattern)) :
              LET at == Matches(NormalizeToLF(s), pattern)[i] IN
              /\ at \in 0 .. Len(s) /\ at + Len(pattern) \in 0 .. Len(s)
              /\ MatchRegions(s, pattern, by)[i] =
                   [from |-> at, to |-> at + Len(pattern), new |-> Replacement(s, at, at + Len(pattern), by)]
<1> DEFINE text == NormalizeToLF(s)  all == Matches(text, pattern)  n == Len(all)  L == Len(pattern)
           R == MatchRegions(s, pattern, by)
           at == Occurrences(text, pattern)
<1>1. text \in Seq(Characters) /\ Len(text) = Len(s)
  BY NormalText
<1> HIDE DEF text
<1>2. Spaced(all, at, L)
  BY <1>1, MatchesSpaced
<1>3. \A i \in at : i \in 0 .. Len(s) /\ i + L \in i .. Len(s) /\ i + L \in 0 .. Len(s)
  BY <1>1, OccurrenceFacts
<1>4. R = [i \in DOMAIN all |-> [from |-> all[i], to |-> all[i] + L, new |-> Replacement(s, all[i], all[i] + L, by)]]
  BY DEF MatchRegions, RegionsAt, Filled, text
<1> HIDE DEF all, at, R
<1>5. n \in Nat /\ DOMAIN all = 1 .. n /\ \A i \in 1 .. n : all[i] \in at
  <2>1. all \in Seq(at)
    BY <1>2 DEF Spaced
  <2> QED
    BY <2>1
<1>6. ASSUME NEW i \in 1 .. n
      PROVE  /\ all[i] \in Nat /\ all[i] \in 0 .. Len(s) /\ all[i] + L \in 0 .. Len(s) /\ all[i] + L \in Nat
             /\ all[i] <= all[i] + L /\ all[i] + L <= Len(s)
             /\ Replacement(s, all[i], all[i] + L, by) \in Seq(Characters)
  <2>1. all[i] \in 0 .. Len(s) /\ all[i] + L \in all[i] .. Len(s) /\ all[i] + L \in 0 .. Len(s)
    BY <1>3, <1>5
  <2>2. Replacement(s, all[i], all[i] + L, by) \in Seq(Characters)
    BY <2>1, ReplacementFacts
  <2> QED
    BY <2>1, <2>2
<1> HIDE DEF n, L
<1>7. Len(R) = n /\ \A i \in 1 .. n : R[i] = [from |-> all[i], to |-> all[i] + L, new |-> Replacement(s, all[i], all[i] + L, by)]
  BY <1>4, <1>5
<1>8. R \in Seq(RegionType(Characters))
  <2>1. \A i \in 1 .. n : R[i] \in RegionType(Characters)
    BY <1>6, <1>7 DEF RegionType
  <2>2. DOMAIN R = 1 .. n /\ R = [i \in 1 .. n |-> R[i]]
    BY <1>4, <1>5
  <2>3. R \in [1 .. n -> RegionType(Characters)]
    BY <2>1, <2>2
  <2> QED
    BY <2>3, <1>5
<1>9. LeftToRight(R)
  <2>1. ASSUME NEW i \in 1 .. n, NEW j \in 1 .. n, i < j PROVE R[i].to <= R[j].from
    <3>1. all[i] + L <= all[j]
      BY <1>2, <2>1 DEF Spaced, n, L
    <3> QED
      BY <3>1, <1>7
  <2>2. DOMAIN R = 1 .. n
    BY <1>4, <1>5
  <2> QED
    BY <2>1, <2>2 DEF LeftToRight
<1>10. \A i \in 1 .. n : R[i].from <= R[i].to /\ R[i].to <= Len(s)
  BY <1>6, <1>7
<1>11. Within(Characters, s, R)
  BY <1>7, <1>8, <1>9, <1>10 DEF Within
<1> QED
  BY <1>6, <1>7, <1>11 DEF R, n, L, all, text

\* The next match from behind stands where it stood in the text.
LEMMA ReplaceMatchStep ==
  ASSUME NEW s \in Seq(Characters), NEW pattern \in Seq(Characters), pattern # <<>>, NEW by \in Seq(Characters),
         NEW m \in 1 .. Len(MatchRegions(s, pattern, by)),
         NEW f, DoneBehind(Characters, s, MatchRegions(s, pattern, by), m, f)
  PROVE  LET g == ReplaceMatch(s, MapNormalizedText(s, FALSE), pattern, by, f, Matches(NormalizeToLF(s), pattern)[m])
         IN  g \in Seq(Characters) /\ DoneBehind(Characters, s, MatchRegions(s, pattern, by), m - 1, g)
<1> DEFINE R == MatchRegions(s, pattern, by)
           at == Matches(NormalizeToLF(s), pattern)[m]
           map == MapNormalizedText(s, FALSE)
           L == Len(pattern)
<1>1. /\ Within(Characters, s, R)
      /\ at \in 0 .. Len(s) /\ at + L \in 0 .. Len(s)
      /\ R[m] = [from |-> at, to |-> at + L, new |-> Replacement(s, at, at + L, by)]
  BY MatchRegionsWithin
<1>2. map.boundaries[at] = at /\ map.boundaries[at + L] = at + L
  BY <1>1, NormalMap
<1>3. m \in 1 .. Len(R) /\ DoneBehind(Characters, s, R, m, f)
  OBVIOUS
<1> HIDE DEF R, at, map, L
<1>4. R[m].from = at /\ R[m].to = at + L /\ R[m].new = Replacement(s, at, at + L, by)
  BY <1>1
<1>5. ReplaceMatch(s, map, pattern, by, f, at) = Instead(f, R[m].from, R[m].to, R[m].new)
  BY <1>2, <1>4, Zenon DEF ReplaceMatch, L
<1>6. f \in Seq(Characters) /\ R[m].to <= Len(f) /\ DoneBehind(Characters, s, R, m - 1, Instead(f, R[m].from, R[m].to, R[m].new))
  BY <1>1, <1>3, BehindStep
<1>7. Instead(f, R[m].from, R[m].to, R[m].new) \in Seq(Characters)
  <2> DEFINE a == R[m].from  b == R[m].to  new == R[m].new
  <2>1. a \in Nat /\ b \in Nat /\ a <= b /\ new \in Seq(Characters)
    BY <1>1, <1>3, WithinFacts
  <2>2. Len(f) \in Nat
    BY <1>6
  <2> HIDE DEF a, b, new
  <2>3. a \in 0 .. Len(f) /\ b \in a .. Len(f)
    BY <2>1, <2>2, <1>6 DEF b
  <2>4. Instead(f, a, b, new) \in Seq(Characters)
    BY <2>1, <2>3, <1>6, InsteadType
  <2> QED
    BY <2>4 DEF a, b, new
<1> QED
  BY <1>5, <1>6, <1>7 DEF R, at, map, L

\* From the last match to the first is all of them at once.
LEMMA ReplacedIsAtOnce ==
  ASSUME NEW s \in Seq(Characters), NEW pattern \in Seq(Characters), pattern # <<>>, NEW by \in Seq(Characters)
  PROVE  SrApplyOne(s, pattern, by) = AtOnce(s, MatchRegions(s, pattern, by))
<1> DEFINE R == MatchRegions(s, pattern, by)
           all == Matches(NormalizeToLF(s), pattern)
           map == MapNormalizedText(s, FALSE)
           N == Len(all)
           V == Seq(Characters)
           To(m, f) == DoneBehind(Characters, s, R, m, f)
           Step(k, d) == ReplaceMatch(s, map, pattern, by, d, all[N - k + 1])
           Body(f) == [k \in 0 .. N |-> IF k = 0 THEN s ELSE Step(k, f[k - 1])]
           Is(f) == f = Body(f)
           F == [a \in (1 .. N) \X V |-> IF Step(a[1], a[2]) \in V THEN Step(a[1], a[2]) ELSE <<>>]
           T(f) == {n \in Nat : n <= N => To(N - n, f[n])}
<1>1. Within(Characters, s, R) /\ Len(R) = N /\ N \in Nat
  <2>1. Within(Characters, s, R) /\ Len(R) = N
    BY MatchRegionsWithin
  <2> HIDE DEF R, N
  <2> QED
    BY <2>1, WithinFacts
<1>2. ASSUME NEW m \in 1 .. N, NEW f, To(m, f)
      PROVE  LET g == ReplaceMatch(s, map, pattern, by, f, all[m]) IN g \in V /\ To(m - 1, g)
  <2>1. m \in 1 .. Len(MatchRegions(s, pattern, by)) /\ DoneBehind(Characters, s, MatchRegions(s, pattern, by), m, f)
    BY <1>1, <1>2
  <2> QED
    BY <2>1, ReplaceMatchStep
<1>3. ASSUME NEW n \in Nat, n + 1 <= N, NEW f, To(N - n, f) PROVE Step(n + 1, f) \in V /\ To(N - (n + 1), Step(n + 1, f))
  <2>1. N - n \in 1 .. N /\ N - (n + 1) + 1 = N - n /\ (N - n) - 1 = N - (n + 1)
    BY <1>1, <1>3
  <2> HIDE DEF To, V, N, all, map
  <2>2. LET g == ReplaceMatch(s, map, pattern, by, f, all[N - n]) IN g \in V /\ To((N - n) - 1, g)
    BY <1>2, <1>3, <2>1
  <2> QED
    BY <2>1, <2>2
<1>4. To(N, s)
  BY <1>1, BehindAll
<1>5. To(N - 0, s)
  BY <1>1, <1>4
<1>6. F \in [(1 .. N) \X V -> V] /\ s \in V
  <2>1. <<>> \in V
    OBVIOUS
  <2> HIDE DEF Step, V, N
  <2> QED
    BY <2>1 DEF V
<1>7. PICK f \in [0 .. N -> V] : Recursive(f, s, N, F)
  <2> HIDE DEF F, N, V
  <2> QED
    BY <1>1, <1>6, RecursionExists
<1> HIDE DEF To, R, all, map, N
<1>8. Nat \subseteq T(f)
  <2> HIDE DEF Step, V
  <2>1. 0 \in T(f)
    BY <1>5, <1>7 DEF Recursive
  <2>2. ASSUME NEW n \in Nat, n \in T(f) PROVE n + 1 \in T(f)
    <3> SUFFICES ASSUME n + 1 <= N PROVE To(N - (n + 1), f[n + 1])
      OBVIOUS
    <3>1. n + 1 \in 1 .. N /\ n <= N /\ (n + 1) - 1 = n /\ n \in 0 .. N
      BY <1>1
    <3>2. To(N - n, f[n]) /\ f[n] \in V
      BY <2>2, <3>1, <1>7
    <3>3. Step(n + 1, f[n]) \in V /\ To(N - (n + 1), Step(n + 1, f[n]))
      BY <1>3, <3>2
    <3>4. f[n + 1] = F[<<n + 1, f[n]>>]
      BY <1>7, <3>1 DEF Recursive
    <3>5. F[<<n + 1, f[n]>>] = Step(n + 1, f[n])
      BY <3>1, <3>2, <3>3
    <3> QED
      BY <3>3, <3>4, <3>5
  <2> HIDE DEF T
  <2> QED
    BY <2>1, <2>2, NatSetInduction
<1>9. Is(f)
  <2> HIDE DEF Step, V
  <2>1. ASSUME NEW k \in 0 .. N
        PROVE  f[k] = IF k = 0 THEN s ELSE Step(k, f[k - 1])
    <3>1. CASE k = 0
      BY <1>7, <3>1 DEF Recursive
    <3>2. CASE k # 0
      <4> DEFINE n == k - 1
      <4>1. n \in Nat /\ k = n + 1 /\ n + 1 <= N /\ n <= N /\ k \in 1 .. N /\ n \in 0 .. N
        BY <3>2, <1>1
      <4>2. n \in T(f) /\ f[n] \in V
        BY <1>7, <1>8, <4>1
      <4> HIDE DEF n
      <4>3. Step(k, f[n]) \in V
        BY <4>1, <4>2, <1>3
      <4>4. F[<<k, f[n]>>] = Step(k, f[n])
        BY <4>1, <4>2, <4>3
      <4>5. f[k] = F[<<k, f[n]>>]
        BY <4>1, <1>7 DEF Recursive, n
      <4> QED
        BY <3>2, <4>4, <4>5 DEF n
    <3> QED
      BY <3>1, <3>2
  <2>2. DOMAIN f = 0 .. N /\ f = [k \in 0 .. N |-> f[k]]
    BY <1>7
  <2> QED
    BY <2>1, <2>2, Zenon
<1> DEFINE D == CHOOSE g : Is(g)
<1>10. Is(D)
  <2> HIDE DEF Is
  <2> QED
    BY <1>9
<1>11. SrApplyOne(s, pattern, by) = D[N]
  BY Zenon DEF SrApplyOne, ReplaceIn, all, map, N
<1>12. D[0] = s /\ \A k \in 1 .. N : D[k] = Step(k, D[k - 1])
  <2> HIDE DEF D
  <2>1. \A k \in 0 .. N : D[k] = IF k = 0 THEN s ELSE Step(k, D[k - 1])
    <3>1. D = Body(D)
      BY <1>10
    <3> HIDE DEF Step
    <3> QED
      BY <3>1
  <2>2. 0 \in 0 .. N /\ \A k \in 1 .. N : k \in 0 .. N /\ k # 0
    BY <1>1
  <2> HIDE DEF Step
  <2> QED
    BY <2>1, <2>2
<1>13. Nat \subseteq T(D)
  <2> HIDE DEF D, Step, V
  <2>1. 0 \in T(D)
    BY <1>5, <1>12
  <2>2. ASSUME NEW n \in Nat, n \in T(D) PROVE n + 1 \in T(D)
    <3> SUFFICES ASSUME n + 1 <= N PROVE To(N - (n + 1), D[n + 1])
      OBVIOUS
    <3>1. n + 1 \in 1 .. N /\ n <= N /\ (n + 1) - 1 = n
      BY <1>1
    <3>2. To(N - n, D[n])
      BY <2>2, <3>1
    <3>3. To(N - (n + 1), Step(n + 1, D[n]))
      BY <1>3, <3>2
    <3>4. D[n + 1] = Step(n + 1, D[(n + 1) - 1])
      BY <3>1, <1>12
    <3>5. D[(n + 1) - 1] = D[n]
      BY <3>1
    <3> QED
      BY <3>3, <3>4, <3>5
  <2> HIDE DEF T
  <2> QED
    BY <2>1, <2>2, NatSetInduction
<1>14. To(0, D[N])
  <2> HIDE DEF D
  <2>1. N \in T(D)
    BY <1>1, <1>13
  <2>2. N - N = 0
    BY <1>1
  <2> QED
    BY <1>1, <2>1, <2>2
<1>15. D[N] = AtOnce(s, R)
  <2> HIDE DEF D
  <2> QED
    BY <1>1, <1>14, BehindNone DEF To
<1> QED
  BY <1>11, <1>15 DEF R

-----------------------------------------------------------------------------
(* apply_patch.                                                            *)

LEMMA StrictestFacts ==
  ASSUME NEW at \in [1 .. 4 -> SUBSET Nat]
  PROVE  Strictest(at) = Nowhere \/ \E pass \in 1 .. 4 : Strictest(at) \in at[pass]
<1>1. CASE \A pass \in DOMAIN at : at[pass] = {}
  BY <1>1 DEF Strictest
<1>2. CASE ~ \A pass \in DOMAIN at : at[pass] = {}
  <2> DEFINE some == {pass \in DOMAIN at : at[pass] # {}}  p == LeastOf(some)
  <2>1. some \subseteq Nat /\ some # {} /\ DOMAIN at = 1 .. 4
    BY <1>2
  <2> HIDE DEF some
  <2>2. p \in some
    BY <2>1, LeastOfFacts
  <2> HIDE DEF p
  <2>3. p \in 1 .. 4 /\ at[p] # {} /\ at[p] \subseteq Nat
    BY <2>1, <2>2 DEF some
  <2>4. LeastOf(at[p]) \in at[p]
    BY <2>3, LeastOfFacts
  <2>5. Strictest(at) = LeastOf(at[p])
    BY <1>2 DEF Strictest, p, some
  <2> QED
    BY <2>3, <2>4, <2>5
<1> QED
  BY <1>1, <1>2

\* Where lines are found, not looked for at the end only.
LEMMA SeekFacts ==
  ASSUME NEW lines, Len(lines) \in Nat, NEW T, NEW pattern \in Seq(T), NEW start \in Nat
  PROVE  LET p == SeekSequence(lines, pattern, start, FALSE) IN
         /\ pattern = <<>> => p = start
         /\ pattern # <<>> => p = Nowhere \/ (p \in Nat /\ start <= p /\ p + Len(pattern) <= Len(lines))
<1> DEFINE p == SeekSequence(lines, pattern, start, FALSE)
           at == [pass \in 1 .. 4 |-> PlacesOn(lines, pattern, start, pass)]
<1>1. CASE pattern = <<>>
  BY <1>1 DEF SeekSequence
<1>2. CASE pattern # <<>> /\ Len(pattern) > Len(lines)
  <2>1. p = Nowhere
    BY <1>2 DEF SeekSequence
  <2> HIDE DEF p
  <2> QED
    BY <1>2, <2>1 DEF p
<1>3. CASE pattern # <<>> /\ ~(Len(pattern) > Len(lines))
  <2>1. p = Strictest(at)
    BY <1>3 DEF SeekSequence
  <2>2. ASSUME NEW pass \in 1 .. 4, NEW i \in at[pass]
        PROVE  i \in Nat /\ start <= i /\ i + Len(pattern) <= Len(lines)
    <3>1. i \in start .. Len(lines) - Len(pattern)
      BY <2>2 DEF PlacesOn
    <3>2. Len(pattern) \in Nat
      OBVIOUS
    <3> QED
      BY <3>1, <3>2
  <2>3. at \in [1 .. 4 -> SUBSET Nat]
    <3> HIDE DEF at
    <3>1. \A pass \in 1 .. 4 : at[pass] \subseteq Nat
      BY <2>2
    <3>2. at = [pass \in 1 .. 4 |-> at[pass]]
      BY DEF at
    <3> QED
      BY <3>1, <3>2
  <2> HIDE DEF at, p
  <2>4. Strictest(at) = Nowhere \/ \E pass \in 1 .. 4 : Strictest(at) \in at[pass]
    BY <2>3, StrictestFacts
  <2>5. p = Nowhere \/ (p \in Nat /\ start <= p /\ p + Len(pattern) <= Len(lines))
    <3>1. ASSUME NEW pass \in 1 .. 4, Strictest(at) \in at[pass]
          PROVE  p \in Nat /\ start <= p /\ p + Len(pattern) <= Len(lines)
      <4>1. p \in at[pass]
        BY <2>1, <3>1
      <4> QED
        BY <2>2, <4>1
    <3> QED
      BY <2>1, <2>4, <3>1
  <2> QED
    BY <1>3, <2>5 DEF p
<1> QED
  BY <1>1, <1>2, <1>3

\* The place of a hunk of which something is looked for, or of the last.
Texts == Seq(Seq(Characters))
Chunk == [context : Texts, old : Texts, new : Texts, eof : BOOLEAN]
Place(n) == [start : Nat, oldLen : Nat, new : Texts, next : 0 .. n]
PlaceFound(p, index, n) == p \in Place(n) /\ index <= p.start /\ p.start + p.oldLen <= n
PlaceKnown(p, index, n) == p = NoPlace \/ (PlaceFound(p, index, n) /\ p.next = p.start + p.oldLen)

LEMMA PlaceOfFacts ==
  ASSUME NEW lines, Len(lines) \in Nat, NEW chunk \in Chunk, ~chunk.eof, NEW from \in 0 .. Len(lines),
         NEW pattern \in Texts, NEW new \in Texts, NEW index \in 0 .. from
  PROVE  PlaceKnown(PlaceOf(lines, chunk, from, pattern, new), index, Len(lines))
<1> DEFINE found == SeekSequence(lines, pattern, from, FALSE)  n == Len(lines)  L == Len(pattern)
           p == [start |-> found, oldLen |-> L, new |-> new, next |-> found + L]
<1>1. chunk.eof = FALSE
  BY DEF Chunk
<1>2. PlaceOf(lines, chunk, from, pattern, new) = PlaceAt(found, pattern, new)
  BY <1>1 DEF PlaceOf
<1>3. L \in Nat /\ (pattern = <<>> => L = 0) /\ n \in Nat
  <2>1. pattern \in Seq(Seq(Characters))
    BY DEF Texts
  <2>2. Len(pattern) \in Nat
    BY <2>1
  <2>3. pattern = <<>> => Len(pattern) = 0
    OBVIOUS
  <2> QED
    BY <2>2, <2>3
<1>4. found = Nowhere \/ (found \in Nat /\ from <= found /\ found + L <= n)
  <2>1. from \in Nat /\ pattern \in Seq(Seq(Characters))
    BY DEF Texts
  <2>2. /\ pattern = <<>> => found = from
        /\ pattern # <<>> => found = Nowhere \/ (found \in Nat /\ from <= found /\ found + Len(pattern) <= Len(lines))
    BY <2>1, SeekFacts
  <2> HIDE DEF found
  <2> QED
    BY <1>3, <2>1, <2>2
<1> HIDE DEF found, L, n
<1>5. CASE found = Nowhere
  BY <1>2, <1>5 DEF PlaceAt, PlaceKnown
<1>6. CASE found # Nowhere
  <2>1. PlaceAt(found, pattern, new) = p
    BY <1>6 DEF PlaceAt, L
  <2>2. found \in Nat /\ from <= found /\ found + L <= n /\ found + L \in 0 .. n
    BY <1>3, <1>4, <1>6
  <2>3. p \in Place(n)
    BY <2>2, <1>3 DEF Place
  <2>4. index <= found
    BY <2>2
  <2>5. PlaceKnown(p, index, n)
    BY <2>2, <2>3, <2>4 DEF PlaceFound, PlaceKnown
  <2> QED
    BY <1>2, <2>1, <2>5 DEF n
<1> QED
  BY <1>5, <1>6

LEMMA FrontType == ASSUME NEW T, NEW s \in Seq(T), s # <<>> PROVE Front(s) \in Seq(T)
<1>1. Len(s) \in Nat /\ Len(s) - 1 \in 0 .. Len(s) /\ 0 \in 0 .. Len(s)
  OBVIOUS
<1>2. SubSeq(s, 0 + 1, Len(s) - 1) \in Seq(T)
  BY <1>1, SubSeqFacts
<1> QED
  BY <1>2 DEF Front

\* A place is behind the hunk before and inside the file.
LEMMA ResolveFacts ==
  ASSUME NEW lines, Len(lines) \in Nat, NEW chunk \in Chunk, ~chunk.eof, NEW index \in 0 .. Len(lines)
  PROVE  LET p == ResolveChunk(lines, chunk, index) IN
         /\ p = NoPlace \/ PlaceFound(p, index, Len(lines))
         /\ chunk.old # <<>> => PlaceKnown(p, index, Len(lines))
<1> DEFINE n == Len(lines)
           from == IF chunk.context = <<>> THEN index ELSE SeekSequence(lines, chunk.context, index, FALSE)
           p == ResolveFrom(lines, chunk, from)
<1>1. /\ chunk.context \in Seq(Seq(Characters)) /\ chunk.old \in Texts /\ chunk.new \in Texts /\ index \in Nat /\ index <= n
      /\ Len(chunk.context) \in Nat
  BY DEF Chunk, Texts
<1>2. from = Nowhere \/ (from \in 0 .. n /\ index \in 0 .. from)
  <2>1. CASE chunk.context = <<>>
    BY <1>1, <2>1
  <2>2. CASE chunk.context # <<>>
    <3> DEFINE q == SeekSequence(lines, chunk.context, index, FALSE)
    <3>1. q = Nowhere \/ (q \in Nat /\ index <= q /\ q + Len(chunk.context) <= Len(lines))
      BY <1>1, <2>2, SeekFacts
    <3>2. from = q
      BY <2>2
    <3> HIDE DEF q, from
    <3> QED
      BY <1>1, <3>1, <3>2
  <2> QED
    BY <2>1, <2>2
<1>3. ResolveChunk(lines, chunk, index) = p
  BY DEF ResolveChunk
<1> HIDE DEF from
<1>4. CASE from = Nowhere
  BY <1>3, <1>4 DEF ResolveFrom, PlaceKnown
<1> DEFINE added == [start |-> n, oldLen |-> 0, new |-> chunk.new, next |-> from]
<1>5. CASE from # Nowhere /\ chunk.old = <<>>
  <2>1. p = added
    BY <1>5 DEF ResolveFrom
  <2>2. from \in 0 .. n /\ n + 0 <= n /\ index <= n /\ n \in Nat
    BY <1>1, <1>2, <1>5
  <2> HIDE DEF p, n
  <2>3. added \in Place(n) /\ PlaceFound(added, index, n)
    <3>1. added \in Place(n)
      BY <1>1, <2>2 DEF Place
    <3>2. added.start = n /\ added.oldLen = 0
      OBVIOUS
    <3> QED
      BY <3>1, <3>2, <2>2 DEF PlaceFound
  <2> HIDE DEF added
  <2> QED
    BY <1>3, <1>5, <2>1, <2>3 DEF n
<1>6. CASE from # Nowhere /\ chunk.old # <<>>
  <2> DEFINE first == PlaceOf(lines, chunk, from, chunk.old, chunk.new)
             second == PlaceOf(lines, chunk, from, Front(chunk.old), WithoutLastEmpty(chunk.new))
  <2>1. p = first \/ p = second
    BY <1>6 DEF ResolveFrom, OrWithoutLast
  <2>2. from \in 0 .. n /\ index \in 0 .. from
    BY <1>2, <1>6
  <2>3. Front(chunk.old) \in Texts /\ WithoutLastEmpty(chunk.new) \in Texts
    <3>1. Front(chunk.old) \in Texts
      <4>1. chunk.old \in Seq(Seq(Characters)) /\ chunk.old # <<>>
        BY <1>1, <1>6 DEF Texts
      <4>2. Front(chunk.old) \in Seq(Seq(Characters))
        BY <4>1, FrontType
      <4> QED
        BY <4>2 DEF Texts
    <3> DEFINE w == WithoutLastEmpty(chunk.new)
    <3>2. ASSUME chunk.new # <<>> /\ Last(chunk.new) = <<>> PROVE w \in Texts
      <4>1. chunk.new \in Seq(Seq(Characters)) /\ chunk.new # <<>>
        BY <1>1, <3>2 DEF Texts
      <4>2. Front(chunk.new) \in Seq(Seq(Characters))
        BY <4>1, FrontType
      <4> QED
        BY <3>2, <4>2 DEF Texts, WithoutLastEmpty
    <3>3. ASSUME ~(chunk.new # <<>> /\ Last(chunk.new) = <<>>) PROVE w \in Texts
      BY <1>1, <3>3 DEF WithoutLastEmpty
    <3>4. w \in Texts
      BY <3>2, <3>3
    <3> QED
      BY <3>1, <3>4
  <2>4. PlaceKnown(first, index, n)
    BY <1>1, <2>2, PlaceOfFacts
  <2>5. PlaceKnown(second, index, n)
    BY <2>2, <2>3, PlaceOfFacts
  <2> HIDE DEF first, second, p
  <2>6. PlaceKnown(p, index, n)
    BY <2>1, <2>4, <2>5
  <2> QED
    BY <1>3, <2>6 DEF PlaceKnown
<1> QED
  BY <1>4, <1>5, <1>6

\* The hunks EditsLand is about.
Sought(chunks) == \A i \in DOMAIN chunks : ~chunks[i].eof /\ (chunks[i].old # <<>> \/ i = Len(chunks))

\* The places of the hunks, one after the other.
PlaceBefore(P, k) == IF k = 1 THEN 0 ELSE P[k - 1].next
AllPlaces(n) == {NoPlace} \cup Place(n)

\* Every hunk but the last has a place, each behind the one before.
LEMMA PlacesFacts ==
  ASSUME NEW lines, Len(lines) \in Nat, NEW chunks \in Seq(Chunk), Sought(chunks)
  PROVE  LET P == PlacesOf(lines, chunks)  N == Len(chunks)  n == Len(lines) IN
         /\ P \in Seq(AllPlaces(n)) /\ Len(P) = N
         /\ \A k \in 1 .. N :
              /\ PlaceBefore(P, k) \in 0 .. n
              /\ P[k] = ResolveChunk(lines, chunks[k], PlaceBefore(P, k))
              /\ P[k] = NoPlace \/ PlaceFound(P[k], PlaceBefore(P, k), n)
              /\ k < N => PlaceKnown(P[k], PlaceBefore(P, k), n)
<1> DEFINE N == Len(chunks)
           n == Len(lines)
           V == AllPlaces(n)
           Step(k, d) == ResolveChunk(lines, chunks[k], d.next)
           Body(f) == [k \in 0 .. N |-> IF k = 0 THEN NoPlace ELSE Step(k, f[k - 1])]
           Is(f) == f = Body(f)
           F == [a \in (1 .. N) \X V |-> Step(a[1], a[2])]
           P == PlacesOf(lines, chunks)
<1>1. N \in Nat /\ n \in Nat /\ DOMAIN chunks = 1 .. N /\ NoPlace \in V
  BY DEF AllPlaces
<1>2. \A d \in V : d.next \in 0 .. n
  BY <1>1 DEF AllPlaces, Place, NoPlace
<1>3. \A k \in 1 .. N : chunks[k] \in Chunk /\ ~chunks[k].eof /\ (k < N => chunks[k].old # <<>>)
  BY <1>1 DEF Sought
<1>4. ASSUME NEW k \in 1 .. N, NEW d \in V
      PROVE  /\ Step(k, d) = NoPlace \/ PlaceFound(Step(k, d), d.next, n)
             /\ k < N => PlaceKnown(Step(k, d), d.next, n)
  <2> DEFINE c == chunks[k]  index == d.next
  <2>1. c \in Chunk /\ ~c.eof /\ (k < N => c.old # <<>>) /\ index \in 0 .. Len(lines)
    BY <1>2, <1>3
  <2> HIDE DEF c, index
  <2>2. LET p == ResolveChunk(lines, c, index) IN
        /\ p = NoPlace \/ PlaceFound(p, index, Len(lines))
        /\ c.old # <<>> => PlaceKnown(p, index, Len(lines))
    BY <2>1, ResolveFacts
  <2> QED
    BY <2>1, <2>2 DEF c, index
<1>5. ASSUME NEW k \in 1 .. N, NEW d \in V PROVE Step(k, d) \in V
  <2> HIDE DEF Step
  <2> QED
    BY <1>4 DEF PlaceFound, AllPlaces
<1>6. F \in [(1 .. N) \X V -> V]
  <2> HIDE DEF Step, V
  <2> QED
    BY <1>5
<1>7. PICK f \in [0 .. N -> V] : Recursive(f, NoPlace, N, F)
  <2> HIDE DEF F, N, V
  <2> QED
    BY <1>1, <1>6, RecursionExists
<1>8. Is(f)
  <2> HIDE DEF Step, V
  <2>1. ASSUME NEW k \in 0 .. N
        PROVE  f[k] = IF k = 0 THEN NoPlace ELSE Step(k, f[k - 1])
    <3>1. CASE k = 0
      BY <1>7, <3>1 DEF Recursive
    <3>2. CASE k # 0
      <4>1. k \in 1 .. N /\ f[k - 1] \in V
        <5>1. k \in 1 .. N /\ k - 1 \in 0 .. N
          BY <3>2, <1>1
        <5> HIDE DEF N
        <5> QED
          BY <5>1, <1>7
      <4>2. <<k, f[k - 1]>> \in (1 .. N) \X V
        BY <4>1
      <4>3. F[<<k, f[k - 1]>>] = Step(k, f[k - 1])
        BY <4>2
      <4>4. f[k] = F[<<k, f[k - 1]>>]
        BY <4>1, <1>7 DEF Recursive
      <4> QED
        BY <3>2, <4>3, <4>4
    <3> QED
      BY <3>1, <3>2
  <2>2. DOMAIN f = 0 .. N /\ f = [k \in 0 .. N |-> f[k]]
    BY <1>7
  <2> QED
    BY <2>1, <2>2, Zenon
<1> DEFINE D == CHOOSE g : Is(g)
<1>9. Is(D)
  <2> HIDE DEF Is
  <2> QED
    BY <1>8
<1>10. P = [k \in DOMAIN chunks |-> D[k]]
  BY Zenon DEF PlacesOf
<1>11. D[0] = NoPlace /\ \A k \in 1 .. N : D[k] = Step(k, D[k - 1])
  <2> HIDE DEF D
  <2>1. \A k \in 0 .. N : D[k] = IF k = 0 THEN NoPlace ELSE Step(k, D[k - 1])
    <3>1. D = Body(D)
      BY <1>9
    <3> HIDE DEF N, Step
    <3> QED
      BY <3>1
  <2>2. 0 \in 0 .. N /\ \A k \in 1 .. N : k \in 0 .. N /\ k # 0
    BY <1>1
  <2> HIDE DEF Step
  <2> QED
    BY <2>1, <2>2
<1>12. \A k \in 0 .. N : D[k] \in V
  <2> DEFINE T == {i \in Nat : i <= N => D[i] \in V}
  <2> HIDE DEF D, Step, V
  <2>1. 0 \in T
    BY <1>1, <1>11
  <2>2. ASSUME NEW i \in Nat, i \in T PROVE i + 1 \in T
    <3> SUFFICES ASSUME i + 1 <= N PROVE D[i + 1] \in V
      OBVIOUS
    <3>1. i + 1 \in 1 .. N /\ i <= N /\ (i + 1) - 1 = i
      BY <1>1
    <3>2. D[i] \in V
      BY <2>2, <3>1
    <3>3. D[i + 1] = Step(i + 1, D[(i + 1) - 1])
      BY <3>1, <1>11
    <3>4. D[(i + 1) - 1] = D[i]
      BY <3>1
    <3>5. Step(i + 1, D[i]) \in V
      BY <3>1, <3>2, <1>5
    <3> QED
      BY <3>3, <3>4, <3>5
  <2>3. Nat \subseteq T
    BY <2>1, <2>2, NatSetInduction
  <2> QED
    BY <2>3, <1>1
<1> HIDE DEF D, P, V
<1>13. DOMAIN P = 1 .. N /\ \A k \in 1 .. N : P[k] = D[k]
  BY <1>1, <1>10
<1>14. ASSUME NEW k \in 1 .. N PROVE PlaceBefore(P, k) = D[k - 1].next /\ D[k - 1] \in V
  <2>1. k - 1 \in 0 .. N
    BY <1>1
  <2>2. CASE k = 1
    <3>1. D[k - 1] = NoPlace
      BY <1>11, <2>2
    <3>2. NoPlace.next = 0
      BY DEF NoPlace
    <3> QED
      BY <2>1, <2>2, <3>1, <3>2, <1>12 DEF PlaceBefore
  <2>3. CASE k # 1
    <3>1. k - 1 \in 1 .. N
      BY <2>3, <1>1
    <3> QED
      BY <2>1, <2>3, <3>1, <1>12, <1>13 DEF PlaceBefore
  <2> QED
    BY <2>2, <2>3
<1>15. P \in Seq(V) /\ Len(P) = N
  <2>1. P = [k \in 1 .. N |-> P[k]] /\ \A k \in 1 .. N : P[k] \in V
    BY <1>1, <1>10, <1>12, <1>13
  <2> HIDE DEF N
  <2>2. P \in [1 .. N -> V]
    BY <2>1
  <2> QED
    BY <1>1, <2>2
<1>16. ASSUME NEW k \in 1 .. N
       PROVE  /\ PlaceBefore(P, k) \in 0 .. n
              /\ P[k] = ResolveChunk(lines, chunks[k], PlaceBefore(P, k))
              /\ P[k] = NoPlace \/ PlaceFound(P[k], PlaceBefore(P, k), n)
              /\ k < N => PlaceKnown(P[k], PlaceBefore(P, k), n)
  <2> DEFINE d == D[k - 1]
  <2>1. PlaceBefore(P, k) = d.next /\ d \in V
    BY <1>14
  <2>2. P[k] = Step(k, d)
    BY <1>11, <1>13
  <2> HIDE DEF d
  <2>3. /\ Step(k, d) = NoPlace \/ PlaceFound(Step(k, d), d.next, n)
        /\ k < N => PlaceKnown(Step(k, d), d.next, n)
    BY <2>1, <1>4
  <2>4. Step(k, d) = ResolveChunk(lines, chunks[k], PlaceBefore(P, k))
    BY <2>1
  <2>5. PlaceBefore(P, k) \in 0 .. n
    BY <1>2, <2>1
  <2> HIDE DEF Step
  <2> QED
    BY <2>1, <2>2, <2>3, <2>4, <2>5
<1> QED
  BY <1>15, <1>16 DEF P, V

\* A patch whose hunks all have a place replaces regions of the file.
LEMMA HunksWithin ==
  ASSUME NEW lines \in Texts, NEW chunks \in Seq(Chunk), Sought(chunks),
         \A k \in 1 .. Len(chunks) : PlacesOf(lines, chunks)[k] # NoPlace
  PROVE  /\ Within(Seq(Characters), lines, HunkRegions(PlacesOf(lines, chunks)))
         /\ Len(HunkRegions(PlacesOf(lines, chunks))) = Len(chunks)
<1> DEFINE P == PlacesOf(lines, chunks)  N == Len(chunks)  n == Len(lines)  R == HunkRegions(P)
<1>1. N \in Nat /\ n \in Nat
  BY DEF Texts
<1>2. /\ P \in Seq(AllPlaces(n)) /\ Len(P) = N
      /\ \A k \in 1 .. N :
              /\ PlaceBefore(P, k) \in 0 .. n
              /\ P[k] = NoPlace \/ PlaceFound(P[k], PlaceBefore(P, k), n)
              /\ k < N => PlaceKnown(P[k], PlaceBefore(P, k), n)
  BY <1>1, PlacesFacts
<1>3. \A k \in 1 .. N : P[k] # NoPlace
  OBVIOUS
<1> HIDE DEF P, N, n
<1>4. ASSUME NEW k \in 1 .. N
      PROVE  /\ P[k] \in Place(n) /\ PlaceBefore(P, k) \in 0 .. n /\ PlaceBefore(P, k) <= P[k].start
             /\ P[k].start + P[k].oldLen <= n
             /\ k < N => P[k].next = P[k].start + P[k].oldLen
  BY <1>2, <1>3 DEF PlaceFound, PlaceKnown
<1>5. \A k \in 1 .. N : P[k].start \in Nat /\ P[k].oldLen \in Nat /\ P[k].new \in Texts /\ P[k].next \in 0 .. n
  BY <1>4 DEF Place
<1>6. DOMAIN P = 1 .. N
  BY <1>1, <1>2
<1>7. /\ DOMAIN R = 1 .. N
      /\ \A k \in 1 .. N : R[k] = [from |-> P[k].start, to |-> P[k].start + P[k].oldLen, new |-> P[k].new]
      /\ R = [k \in 1 .. N |-> R[k]]
  BY <1>6 DEF HunkRegions
<1> HIDE DEF R
<1>8. ASSUME NEW i \in 1 .. N, NEW j \in 1 .. N, i < j PROVE P[i].start + P[i].oldLen <= P[j].start
  <2> DEFINE T == {d \in Nat : i + 1 + d <= N => P[i].next <= P[i + 1 + d].start}
  <2>1. i < N
    BY <1>1, <1>8
  <2>2. ASSUME NEW k \in 1 .. N, k # 1 PROVE PlaceBefore(P, k) = P[k - 1].next
    BY <2>2 DEF PlaceBefore
  <2>3. 0 \in T
    <3> SUFFICES ASSUME i + 1 <= N PROVE P[i].next <= P[i + 1 + 0].start
      OBVIOUS
    <3>1. i + 1 \in 1 .. N /\ i + 1 # 1 /\ (i + 1) - 1 = i /\ i + 1 + 0 = i + 1
      BY <1>1
    <3>2. PlaceBefore(P, i + 1) = P[i].next
      BY <2>2, <3>1
    <3>3. PlaceBefore(P, i + 1) <= P[i + 1].start
      BY <1>4, <3>1
    <3> QED
      BY <3>1, <3>2, <3>3
  <2>4. ASSUME NEW d \in Nat, d \in T PROVE d + 1 \in T
    <3> SUFFICES ASSUME i + 1 + (d + 1) <= N PROVE P[i].next <= P[i + 1 + (d + 1)].start
      OBVIOUS
    <3> DEFINE k == i + 1 + d
    <3>1. k \in 1 .. N /\ k < N /\ k + 1 \in 1 .. N /\ k + 1 # 1 /\ (k + 1) - 1 = k /\ i + 1 + (d + 1) = k + 1
      BY <1>1
    <3>2. P[i].next <= P[k].start
      BY <2>4, <3>1
    <3> HIDE DEF k
    <3>3. PlaceBefore(P, k + 1) = P[k].next
      BY <2>2, <3>1
    <3>4. PlaceBefore(P, k + 1) <= P[k + 1].start
      BY <1>4, <3>1
    <3>5. P[k].next = P[k].start + P[k].oldLen
      BY <1>4, <3>1
    <3>6. P[k].start \in Nat /\ P[k].oldLen \in Nat /\ P[i].next \in Nat /\ P[k + 1].start \in Nat
      BY <1>1, <1>5, <3>1
    <3>8. P[k].next <= P[k + 1].start
      BY <3>3, <3>4, Zenon
    <3> DEFINE atI == P[i].next  from == P[k].start  old == P[k].oldLen  next == P[k].next  to == P[k + 1].start
    <3>9. /\ atI \in Nat /\ from \in Nat /\ old \in Nat /\ to \in Nat
          /\ atI <= from /\ next = from + old /\ next <= to
      BY <3>2, <3>5, <3>6, <3>8, Zenon
    <3> HIDE DEF atI, from, old, next, to
    <3>10. atI <= to
      BY <3>9
    <3>7. P[i].next <= P[k + 1].start
      BY <3>10 DEF atI, to
    <3> QED
      BY <3>1, <3>7
  <2>5. Nat \subseteq T
    <3> HIDE DEF T
    <3> QED
      BY <2>3, <2>4, NatSetInduction
  <2>6. j - (i + 1) \in T /\ i + 1 + (j - (i + 1)) = j
    <3>1. j - (i + 1) \in Nat /\ i + 1 + (j - (i + 1)) = j
      BY <1>1, <1>8
    <3> HIDE DEF T
    <3> QED
      BY <2>5, <3>1
  <2>7. P[i].next <= P[j].start
    <3> DEFINE d == j - (i + 1)
    <3>1. d \in T /\ i + 1 + d = j
      BY <2>6
    <3>2. j <= N
      BY <1>1
    <3> HIDE DEF d
    <3> QED
      BY <3>1, <3>2
  <2> QED
    BY <1>4, <2>1, <2>7
<1>9. LeftToRight(R)
  <2>1. ASSUME NEW i \in 1 .. N, NEW j \in 1 .. N, i < j PROVE R[i].to <= R[j].from
    <3>1. R[i].to = P[i].start + P[i].oldLen /\ R[j].from = P[j].start
      BY <1>7
    <3> QED
      BY <1>8, <2>1, <3>1
  <2> QED
    BY <1>7, <2>1 DEF LeftToRight
<1>10. ASSUME NEW k \in 1 .. N PROVE R[k] \in RegionType(Seq(Characters)) /\ R[k].from <= R[k].to /\ R[k].to <= n
  <2> DEFINE a == P[k].start  b == P[k].start + P[k].oldLen  new == P[k].new
  <2>1. a \in Nat /\ b \in Nat /\ a <= b /\ b <= n /\ new \in Texts
    BY <1>1, <1>4, <1>5
  <2>2. R[k] = [from |-> a, to |-> b, new |-> new]
    BY <1>7
  <2> HIDE DEF a, b, new
  <2>3. [from |-> a, to |-> b, new |-> new] \in RegionType(Seq(Characters))
    BY <2>1 DEF RegionType, Texts
  <2> QED
    BY <2>1, <2>2, <2>3
<1>11. R \in Seq(RegionType(Seq(Characters))) /\ Len(R) = N
  <2>1. R \in [1 .. N -> RegionType(Seq(Characters))]
    BY <1>7, <1>10
  <2> QED
    BY <1>1, <2>1
<1> QED
  BY <1>9, <1>10, <1>11 DEF Within, P, N, n, R

\* The records of a text.
LineRecord == [text : Seq(Characters), ending : LineEnds \cup {""}]

LEMMA RecordType ==
  ASSUME NEW x \in Seq(Characters), NEW e \in LineEnds \cup {""}
  PROVE  [text |-> x, ending |-> e] \in LineRecord
  BY DEF LineRecord

\* A text falls into records, each a line and its end.
LEMMA SplitFacts ==
  ASSUME NEW s \in Seq(Characters)
  PROVE  SplitLineRecords(s) \in Seq(LineRecord)
<1> DEFINE S == {0, Len(s)} \cup {i \in DOMAIN s : IsLineEnd(s[i])}
           n == Cardinality(S)
           ends == Ascending(S)
           r == RecordsBetween(s, ends)
<1>1. Len(s) \in Nat /\ S \subseteq 0 .. Len(s) /\ S \subseteq Nat
  OBVIOUS
<1>2. IsFiniteSet(S)
  <2>1. 0 \in Int /\ Len(s) \in Int
    BY <1>1
  <2>2. IsFiniteSet(0 .. Len(s))
    BY <2>1, FS_Interval
  <2> HIDE DEF S
  <2>3. S \in SUBSET (0 .. Len(s))
    BY <1>1
  <2> QED
    BY <2>2, <2>3, FS_Subset
<1>3. SplitLineRecords(s) = r
  BY DEF SplitLineRecords
<1> HIDE DEF S
<1>4. n \in Nat /\ Orders(S, ends)
  BY <1>1, <1>2, AscendingOrders
<1>5. n # 0
  <2>1. S # {}
    BY DEF S
  <2> QED
    BY <1>2, <2>1, FS_EmptySet
<1> HIDE DEF ends, n
<1>6. /\ ends \in [1 .. n -> S]
      /\ \A i, j \in 1 .. n : i < j => ends[i] < ends[j]
  BY <1>4 DEF Orders, n
<1>7. Len(ends) = n /\ n - 1 \in Nat
  BY <1>4, <1>5, <1>6
<1>8. ASSUME NEW k \in 1 .. n - 1 PROVE r[k] \in LineRecord
  <2> DEFINE a == ends[k]  b == ends[k + 1]
  <2>1. k \in 1 .. n /\ k + 1 \in 1 .. n /\ k < k + 1
    BY <1>7
  <2>2. a \in 0 .. Len(s) /\ b \in 0 .. Len(s) /\ a < b
    BY <1>1, <1>6, <2>1
  <2>3. a \in Nat /\ b \in Nat /\ a \in 0 .. Len(s) /\ b \in a .. Len(s) /\ b - 1 \in a .. Len(s)
    BY <1>1, <2>2
  <2>4. r[k] = IF IsLineEnd(s[b]) THEN [text |-> Part(s, a, b - 1), ending |-> s[b]]
               ELSE [text |-> Part(s, a, b), ending |-> ""]
    BY <1>7 DEF RecordsBetween
  <2> HIDE DEF a, b, r
  <2>5. Part(s, a, b - 1) \in Seq(Characters)
    BY <2>3, PartFacts
  <2>6. Part(s, a, b) \in Seq(Characters)
    BY <2>3, PartFacts
  <2>7. CASE IsLineEnd(s[b])
    <3>1. s[b] \in LineEnds \cup {""}
      BY <2>7 DEF IsLineEnd
    <3>2. r[k] = [text |-> Part(s, a, b - 1), ending |-> s[b]]
      BY <2>4, <2>7
    <3> QED
      BY <2>5, <3>1, <3>2, RecordType
  <2>8. CASE ~IsLineEnd(s[b])
    <3>1. "" \in LineEnds \cup {""}
      OBVIOUS
    <3>2. r[k] = [text |-> Part(s, a, b), ending |-> ""]
      BY <2>4, <2>8
    <3> QED
      BY <2>6, <3>1, <3>2, RecordType
  <2> QED
    BY <2>7, <2>8
<1>9. r = [k \in 1 .. n - 1 |-> r[k]]
  BY <1>7 DEF RecordsBetween
<1>10. r \in [1 .. n - 1 -> LineRecord]
  <2> HIDE DEF r
  <2> QED
    BY <1>8, <1>9
<1> QED
  BY <1>3, <1>7, <1>10

LEMMA TextsFacts ==
  ASSUME NEW records \in Seq(LineRecord)
  PROVE  /\ TextsOf(records) \in Texts /\ Len(TextsOf(records)) = Len(records)
         /\ \A i \in 1 .. Len(records) : TextsOf(records)[i] = records[i].text
<1>1. DOMAIN records = 1 .. Len(records) /\ Len(records) \in Nat /\ \A i \in 1 .. Len(records) : records[i].text \in Seq(Characters)
  <2>1. \A i \in 1 .. Len(records) : records[i] \in LineRecord
    OBVIOUS
  <2>2. \A r \in LineRecord : r.text \in Seq(Characters)
    BY Zenon DEF LineRecord
  <2>3. DOMAIN records = 1 .. Len(records) /\ Len(records) \in Nat
    OBVIOUS
  <2> QED
    BY <2>1, <2>2, <2>3
<1>2. TextsOf(records) = [i \in 1 .. Len(records) |-> records[i].text]
  BY <1>1 DEF TextsOf
<1>3. TextsOf(records) \in [1 .. Len(records) -> Seq(Characters)]
  BY <1>1, <1>2
<1> QED
  BY <1>1, <1>2, <1>3 DEF Texts

LEMMA TextsJoin ==
  ASSUME NEW x \in Seq(LineRecord), NEW y \in Seq(LineRecord)
  PROVE  TextsOf(Join(x, y)) = Join(TextsOf(x), TextsOf(y))
<1> DEFINE j == Join(x, y)  nx == TextsOf(x)  ny == TextsOf(y)  t == TextsOf(j)  S == Seq(Characters)
<1>2. /\ j \in Seq(LineRecord) /\ Len(j) = Len(x) + Len(y)
      /\ \A i \in 1 .. Len(x) : j[i] = x[i]
      /\ \A i \in 1 .. Len(y) : j[Len(x) + i] = y[i]
  <2>1. Joins(LineRecord, j, x, y)
    BY JoinFacts
  <2> HIDE DEF j
  <2> QED
    BY <2>1 DEF Joins
<1> HIDE DEF j
<1>1. j \in Seq(LineRecord) /\ Len(j) = Len(x) + Len(y) /\ Len(x) \in Nat /\ Len(y) \in Nat
  BY <1>2
<1>3. t \in Seq(S) /\ Len(t) = Len(j) /\ \A k \in 1 .. Len(j) : t[k] = j[k].text
  BY <1>1, TextsFacts DEF Texts
<1>4. nx \in Seq(S) /\ Len(nx) = Len(x) /\ \A k \in 1 .. Len(x) : nx[k] = x[k].text
  BY TextsFacts DEF Texts
<1>5. ny \in Seq(S) /\ Len(ny) = Len(y) /\ \A k \in 1 .. Len(y) : ny[k] = y[k].text
  BY TextsFacts DEF Texts
<1> HIDE DEF nx, ny, t, S
<1>6. ASSUME NEW i \in 1 .. Len(nx) PROVE t[i] = nx[i]
  <2>1. i \in 1 .. Len(x) /\ i \in 1 .. Len(j)
    BY <1>1, <1>4
  <2> QED
    BY <2>1, <1>2, <1>3, <1>4
<1>7. ASSUME NEW i \in 1 .. Len(ny) PROVE t[Len(nx) + i] = ny[i]
  <2>1. i \in 1 .. Len(y) /\ Len(x) + i \in 1 .. Len(j) /\ Len(nx) = Len(x)
    BY <1>1, <1>4, <1>5
  <2> QED
    BY <2>1, <1>2, <1>3, <1>5
<1>8. Len(t) = Len(nx) + Len(ny)
  BY <1>1, <1>3, <1>4, <1>5
<1>9. t = Join(nx, ny)
  BY <1>3, <1>4, <1>5, <1>6, <1>7, <1>8, JoinEqual
<1> QED
  BY <1>9 DEF t, nx, ny, j

LEMMA TextsPart ==
  ASSUME NEW s \in Seq(LineRecord), NEW a \in 0 .. Len(s), NEW b \in a .. Len(s)
  PROVE  TextsOf(Part(s, a, b)) = Part(TextsOf(s), a, b)
<1> DEFINE p == Part(s, a, b)  n == TextsOf(s)  x == TextsOf(p)  y == Part(n, a, b)  S == Seq(Characters)
<1>1. p \in Seq(LineRecord) /\ Len(p) = b - a /\ \A i \in 1 .. b - a : p[i] = s[a + i]
  BY PartFacts
<1>2. n \in Seq(S) /\ Len(n) = Len(s) /\ \A k \in 1 .. Len(s) : n[k] = s[k].text
  BY TextsFacts DEF Texts
<1> HIDE DEF p, n
<1>3. x \in Seq(S) /\ Len(x) = Len(p) /\ \A k \in 1 .. Len(p) : x[k] = p[k].text
  BY <1>1, TextsFacts DEF Texts
<1>4. a \in 0 .. Len(n) /\ b \in a .. Len(n)
  BY <1>2
<1> HIDE DEF S
<1>5. y \in Seq(S) /\ Len(y) = b - a /\ \A i \in 1 .. b - a : y[i] = n[a + i]
  BY <1>2, <1>4, PartFacts
<1> HIDE DEF x, y
<1>6. ASSUME NEW i \in 1 .. Len(x) PROVE x[i] = y[i]
  <2>1. i \in 1 .. b - a /\ i \in 1 .. Len(p) /\ a + i \in 1 .. Len(s)
    BY <1>1, <1>3
  <2> QED
    BY <2>1, <1>1, <1>2, <1>3, <1>5
<1>7. Len(x) = Len(y)
  BY <1>1, <1>3, <1>5
<1>8. x = y
  BY <1>3, <1>5, <1>6, <1>7, SeqEqual
<1> QED
  BY <1>8 DEF x, y, p, n

\* Putting in records puts in their lines.
LEMMA TextsInstead ==
  ASSUME NEW s \in Seq(LineRecord), NEW a \in 0 .. Len(s), NEW b \in a .. Len(s), NEW new \in Seq(LineRecord)
  PROVE  TextsOf(Instead(s, a, b, new)) = Instead(TextsOf(s), a, b, TextsOf(new)) /\ Instead(s, a, b, new) \in Seq(LineRecord)
<1> DEFINE x == Part(s, 0, a)  y == Part(s, b, Len(s))
<1>1. 0 \in 0 .. Len(s) /\ a \in 0 .. Len(s) /\ b \in 0 .. Len(s) /\ Len(s) \in b .. Len(s)
  OBVIOUS
<1>2. x \in Seq(LineRecord) /\ y \in Seq(LineRecord)
  BY <1>1, PartFacts
<1>3. Instead(s, a, b, new) = Join(Join(x, new), y) /\ Instead(s, a, b, new) \in Seq(LineRecord)
  BY InsteadType
<1>4. TextsOf(x) = Part(TextsOf(s), 0, a) /\ TextsOf(y) = Part(TextsOf(s), b, Len(s))
  BY <1>1, TextsPart
<1>5. Len(TextsOf(s)) = Len(s)
  BY TextsFacts
<1> HIDE DEF x, y
<1>6. Join(x, new) \in Seq(LineRecord)
  BY <1>2, JoinType
<1>7. TextsOf(Join(Join(x, new), y)) = Join(TextsOf(Join(x, new)), TextsOf(y))
  BY <1>2, <1>6, TextsJoin
<1>8. TextsOf(Join(x, new)) = Join(TextsOf(x), TextsOf(new))
  BY <1>2, TextsJoin
<1>9. Instead(TextsOf(s), a, b, TextsOf(new)) = Join(Join(Part(TextsOf(s), 0, a), TextsOf(new)), Part(TextsOf(s), b, Len(TextsOf(s))))
  BY Zenon DEF Instead, Join
<1> QED
  BY <1>3, <1>4, <1>5, <1>7, <1>8, <1>9, Zenon

\* Records put in as text put in: line ends apart.
LEMMA PutFacts ==
  ASSUME NEW records \in Seq(LineRecord), NEW m \in Nat, NEW r \in Place(m), NEW default \in {"lf", "crlf"},
         r.start + r.oldLen <= Len(records)
  PROVE  /\ PutRecords(records, r, default) \in Seq(LineRecord)
         /\ TextsOf(PutRecords(records, r, default)) = Instead(TextsOf(records), r.start, r.start + r.oldLen, r.new)
<1> DEFINE E == LineEnds \cup {""}
           a == r.start  b == r.start + r.oldLen  n == Len(records)
           ending == IF a < n /\ records[a + 1].ending # "" THEN records[a + 1].ending ELSE default
           last == IF r.oldLen > 0 /\ b <= n THEN records[b].ending ELSE ""
           new == [i \in DOMAIN r.new |->
                     [text |-> r.new[i], ending |-> IF i = Len(r.new) /\ last # "" THEN last ELSE ending]]
           closed == IF r.oldLen = 0 /\ a > 0 /\ new # <<>> /\ records[a].ending = ""
                     THEN [records EXCEPT ![a].ending = ending] ELSE records
<1>1. /\ a \in Nat /\ b \in Nat /\ a <= b /\ b <= n /\ n \in Nat /\ r.oldLen \in Nat /\ r.new \in Texts
      /\ b = a + r.oldLen
  BY DEF Place
<1>2. \A i \in 1 .. n : records[i] \in LineRecord
  OBVIOUS
<1>3. \A x \in LineRecord : x.ending \in E /\ x.text \in Seq(Characters)
  BY DEF LineRecord
<1>4. default \in E /\ "" \in E
  BY DEF LineEnds
<1>5. PutRecords(records, r, default) = Instead(closed, a, b, new)
  BY Zenon DEF PutRecords
<1> HIDE DEF E, a, b, n
<1>6. ending \in E
  <2>1. CASE a < n /\ records[a + 1].ending # ""
    <3>1. a < n
      BY <2>1, Zenon
    <3>2. a + 1 \in 1 .. n
      BY <1>1, <3>1
    <3> QED
      BY <2>1, <3>2, <1>2, <1>3
  <2>2. CASE ~(a < n /\ records[a + 1].ending # "")
    BY <2>2, <1>4
  <2> QED
    BY <2>1, <2>2
<1>7. last \in E
  <2>1. CASE r.oldLen > 0 /\ b <= n
    <3>1. b \in 1 .. n
      BY <1>1, <2>1
    <3> QED
      BY <2>1, <3>1, <1>2, <1>3
  <2>2. CASE ~(r.oldLen > 0 /\ b <= n)
    BY <2>2, <1>4
  <2> QED
    BY <2>1, <2>2
<1> HIDE DEF ending, last
<1>8. new \in Seq(LineRecord) /\ TextsOf(new) = r.new
  <2> DEFINE t == r.new  k == Len(t)
  <2>1. t \in Seq(Seq(Characters)) /\ k \in Nat /\ DOMAIN t = 1 .. k /\ \A i \in 1 .. k : t[i] \in Seq(Characters)
    <3>1. t \in Seq(Seq(Characters))
      BY <1>1 DEF Texts
    <3> HIDE DEF t
    <3> QED
      BY <3>1
  <2> HIDE DEF t, k
  <2>2. new = [i \in DOMAIN t |-> [text |-> t[i], ending |-> IF i = k /\ last # "" THEN last ELSE ending]]
    BY DEF t, k
  <2> HIDE DEF new
  <2>3. ASSUME NEW i \in 1 .. k PROVE new[i] \in LineRecord /\ new[i].text = t[i]
    <3> DEFINE e == IF i = k /\ last # "" THEN last ELSE ending
    <3>1. e \in E
      BY <1>6, <1>7
    <3>2. new[i] = [text |-> t[i], ending |-> e]
      BY <2>1, <2>2
    <3> HIDE DEF e
    <3>3. new[i] \in LineRecord
      BY <2>1, <3>1, <3>2, RecordType DEF E
    <3> QED
      BY <3>2, <3>3
  <2>4. DOMAIN new = 1 .. k /\ new = [i \in 1 .. k |-> new[i]]
    BY <2>1, <2>2
  <2>5. new \in Seq(LineRecord) /\ Len(new) = k
    <3>1. new \in [1 .. k -> LineRecord]
      BY <2>3, <2>4
    <3> QED
      BY <2>1, <3>1
  <2>6. TextsOf(new) \in Seq(Seq(Characters)) /\ Len(TextsOf(new)) = Len(new) /\ \A i \in 1 .. Len(new) : TextsOf(new)[i] = new[i].text
    BY <2>5, TextsFacts DEF Texts
  <2>7. TextsOf(new) = t
    <3> DEFINE u == TextsOf(new)
    <3> HIDE DEF u
    <3>1. u \in Seq(Seq(Characters)) /\ Len(u) = k /\ \A i \in 1 .. k : u[i] = t[i]
      BY <2>3, <2>5, <2>6 DEF u
    <3>2. Len(t) = k
      BY DEF k
    <3> QED
      BY <3>1, <3>2, <2>1, SeqEqual DEF u
  <2> QED
    BY <2>5, <2>7 DEF t
<1> HIDE DEF new
<1>9. closed \in Seq(LineRecord) /\ Len(closed) = n /\ TextsOf(closed) = TextsOf(records)
  <2>1. CASE closed = records
    BY <2>1 DEF n
  <2>2. CASE closed # records
    <3>0. a > 0 /\ closed = [records EXCEPT ![a].ending = ending]
      BY <2>2, Zenon
    <3>1. a > 0 /\ closed = [records EXCEPT ![a].ending = ending] /\ a \in 1 .. n
      <4> HIDE DEF closed
      <4> QED
        BY <1>1, <3>0
    <3> DEFINE x == [records[a] EXCEPT !.ending = ending]
    <3>2. records[a] \in LineRecord
      BY <1>2, <3>1
    <3>3. x \in LineRecord /\ x.text = records[a].text
      BY <3>2, <1>6 DEF LineRecord, E
    <3>4. closed = [records EXCEPT ![a] = x]
      BY <3>1
    <3> HIDE DEF x, closed
    <3>5. closed \in Seq(LineRecord) /\ Len(closed) = n /\ \A i \in 1 .. n : closed[i] = IF i = a THEN x ELSE records[i]
      <4>1. DOMAIN records = 1 .. n
        BY DEF n
      <4>2. DOMAIN closed = 1 .. n /\ closed = [i \in 1 .. n |-> closed[i]]
        BY <3>4, <4>1
      <4>3. \A i \in 1 .. n : closed[i] = IF i = a THEN x ELSE records[i]
        BY <3>4, <4>1
      <4>4. \A i \in 1 .. n : closed[i] \in LineRecord
        BY <1>2, <3>3, <4>3
      <4>5. closed \in [1 .. n -> LineRecord]
        BY <4>2, <4>4
      <4> QED
        BY <1>1, <4>3, <4>5
    <3> DEFINE u == TextsOf(closed)  v == TextsOf(records)
    <3>6. /\ u \in Seq(Seq(Characters)) /\ Len(u) = n /\ \A i \in 1 .. n : u[i] = closed[i].text
          /\ v \in Seq(Seq(Characters)) /\ Len(v) = n /\ \A i \in 1 .. n : v[i] = records[i].text
      BY <3>5, TextsFacts DEF Texts, n
    <3> HIDE DEF u, v
    <3>7. \A i \in 1 .. n : u[i] = v[i]
      BY <3>3, <3>5, <3>6
    <3>8. u = v
      BY <3>6, <3>7, SeqEqual
    <3> QED
      BY <3>5, <3>8 DEF u, v
  <2> QED
    BY <2>1, <2>2
<1> HIDE DEF closed
<1>10. a \in 0 .. Len(closed) /\ b \in a .. Len(closed)
  BY <1>1, <1>9
<1>11. TextsOf(Instead(closed, a, b, new)) = Instead(TextsOf(closed), a, b, TextsOf(new)) /\ Instead(closed, a, b, new) \in Seq(LineRecord)
  BY <1>8, <1>9, <1>10, TextsInstead
<1> QED
  BY <1>5, <1>8, <1>9, <1>11 DEF a, b

\* A patch under way: how many of its hunks have a place, and how many are still to be put in.
FileLines == TextsOf(SplitLineRecords(editCall.text))
FilePlaces == PlacesOf(FileLines, editCall.chunks)
FileRegions == HunkRegions(FilePlaces)
Hunks == Len(editCall.chunks)
PlacesTo(k) ==
    /\ editPlaces \in Seq(AllPlaces(Len(FileLines))) /\ Len(editPlaces) = k
    /\ \A i \in 1 .. k : editPlaces[i] = FilePlaces[i]
ResolvedTo(k) == \A i \in 1 .. k : FilePlaces[i] # NoPlace
TodoFrom(k) ==
    /\ editTodo \in Seq(Chunk) /\ Len(editTodo) = Hunks - k
    /\ \A i \in 1 .. Hunks - k : editTodo[i] = editCall.chunks[k + i]
Resolving == \E k \in 0 .. Hunks : TodoFrom(k) /\ PlacesTo(k) /\ ResolvedTo(k) /\ editText = SplitLineRecords(editCall.text)
Deriving ==
    /\ ResolvedTo(Hunks) /\ editText \in Seq(LineRecord)
    /\ \E m \in 0 .. Hunks : PlacesTo(m) /\ DoneBehind(Seq(Characters), FileLines, FileRegions, m, TextsOf(editText))
ThisPatch ==
    /\ editPc \in {"start", "resolve", "derive", "done", "refused"}
    /\ editPc = "start" => editText = SplitLineRecords(editCall.text) /\ editPlaces = <<>>
    /\ editPc = "resolve" => Resolving
    /\ editPc = "derive" => Deriving
    /\ editPc = "done" => TextsOf(editText) = AtOnce(FileLines, FileRegions)
PatchInv == editCall.kind = "patch" /\ Sought(editCall.chunks) => ThisPatch

\* What EditAssumption says of the call: a patch.
LEMMA PatchCall ==
  ASSUME editCall \in EditCalls, editCall.kind = "patch"
  PROVE  editCall.text \in Seq(Characters) /\ editCall.chunks \in Seq(Chunk)
<1>1. CASE editCall.kind = "multi"
  BY <1>1
<1>2. "patch" # "multi" /\ "patch" # "replace"
  OBVIOUS
<1>3. editCall.kind # "multi" /\ editCall.kind # "replace"
  BY <1>2
<1>4. /\ editCall.text \in Seq(Characters)
      /\ editCall.chunks \in Seq([context : Seq(Seq(Characters)), old : Seq(Seq(Characters)),
                                 new : Seq(Seq(Characters)), eof : BOOLEAN])
  BY <1>3, EditAssumption, Zenon
<1> QED
  BY <1>4, Zenon DEF Chunk, Texts

LEMMA FileFacts ==
  ASSUME editCall \in EditCalls, editCall.kind = "patch", Sought(editCall.chunks)
  PROVE  /\ SplitLineRecords(editCall.text) \in Seq(LineRecord)
         /\ FileLines \in Texts /\ Len(FileLines) \in Nat
         /\ Hunks \in Nat /\ DOMAIN editCall.chunks = 1 .. Hunks
         /\ \A k \in 1 .. Hunks : editCall.chunks[k] \in Chunk
         /\ FilePlaces \in Seq(AllPlaces(Len(FileLines))) /\ Len(FilePlaces) = Hunks
         /\ \A k \in 1 .. Hunks :
              /\ FilePlaces[k] = ResolveChunk(FileLines, editCall.chunks[k], PlaceBefore(FilePlaces, k))
              /\ FilePlaces[k] \in AllPlaces(Len(FileLines))
         /\ ResolvedTo(Hunks) => Within(Seq(Characters), FileLines, FileRegions) /\ Len(FileRegions) = Hunks
<1> DEFINE r == SplitLineRecords(editCall.text)  c == editCall.chunks
<1>1. r \in Seq(LineRecord) /\ c \in Seq(Chunk)
  BY PatchCall, SplitFacts
<1>2. FileLines \in Texts /\ Len(FileLines) \in Nat
  <2> HIDE DEF r
  <2>1. TextsOf(r) \in Texts
    BY <1>1, TextsFacts
  <2> DEFINE t == TextsOf(r)
  <2> HIDE DEF t
  <2>2. Len(t) \in Nat
    BY <2>1 DEF t, Texts
  <2> QED
    BY <2>1, <2>2 DEF FileLines, r, t
<1>3. Hunks \in Nat /\ DOMAIN c = 1 .. Hunks /\ \A k \in 1 .. Hunks : c[k] \in Chunk
  <2> HIDE DEF c
  <2> QED
    BY <1>1 DEF Hunks, c
<1>4. /\ FilePlaces \in Seq(AllPlaces(Len(FileLines))) /\ Len(FilePlaces) = Hunks
      /\ \A k \in 1 .. Hunks : FilePlaces[k] = ResolveChunk(FileLines, c[k], PlaceBefore(FilePlaces, k))
  <2> DEFINE lines == FileLines
  <2> HIDE DEF c, lines
  <2>1. Sought(c) /\ c \in Seq(Chunk) /\ Len(lines) \in Nat
    BY <1>1, <1>2 DEF c, lines
  <2>2. /\ PlacesOf(lines, c) \in Seq(AllPlaces(Len(lines))) /\ Len(PlacesOf(lines, c)) = Len(c)
        /\ \A k \in 1 .. Len(c) : PlacesOf(lines, c)[k] = ResolveChunk(lines, c[k], PlaceBefore(PlacesOf(lines, c), k))
    BY <2>1, PlacesFacts
  <2> QED
    BY <2>2, Zenon DEF FilePlaces, Hunks, c, lines
<1>5. \A k \in 1 .. Hunks : FilePlaces[k] \in AllPlaces(Len(FileLines))
  BY <1>3, <1>4
<1>6. ASSUME ResolvedTo(Hunks) PROVE Within(Seq(Characters), FileLines, FileRegions) /\ Len(FileRegions) = Hunks
  <2> DEFINE lines == FileLines
  <2>1. Sought(c) /\ c \in Seq(Chunk) /\ lines \in Texts
    BY <1>1, <1>2
  <2>2. \A k \in 1 .. Len(c) : PlacesOf(lines, c)[k] # NoPlace
    BY <1>6, Zenon DEF ResolvedTo, FilePlaces, Hunks
  <2> HIDE DEF c, lines
  <2>3. Within(Seq(Characters), lines, HunkRegions(PlacesOf(lines, c))) /\ Len(HunkRegions(PlacesOf(lines, c))) = Len(c)
    BY <2>1, <2>2, HunksWithin
  <2> QED
    BY <2>3, Zenon DEF FileRegions, FilePlaces, Hunks, c, lines
<1> QED
  BY <1>1, <1>2, <1>3, <1>4, <1>5, <1>6 DEF r, c

LEMMA PatchBegins ==
  ASSUME editCall \in EditCalls, editCall.kind = "patch", Sought(editCall.chunks), ThisPatch,
         ApplyPatch
  PROVE  ThisPatch'
<1>1. /\ editPc' = "resolve" /\ editTodo' = editCall.chunks /\ editCall' = editCall /\ editText' = editText
      /\ editPlaces' = editPlaces /\ editPc = "start"
  BY DEF ApplyPatch, Result
<1>2. editText = SplitLineRecords(editCall.text) /\ editPlaces = <<>>
  BY <1>1 DEF ThisPatch
<1>3. Hunks \in Nat /\ editCall.chunks \in Seq(Chunk) /\ Hunks = Len(editCall.chunks)
  BY PatchCall, FileFacts DEF Hunks
<1>4. TodoFrom(0)'
  BY <1>1, <1>3 DEF TodoFrom, Hunks
<1>5. PlacesTo(0)'
  BY <1>1, <1>2 DEF PlacesTo
<1>6. ResolvedTo(0)'
  BY DEF ResolvedTo
<1>7. 0 \in 0 .. Hunks' /\ editText' = SplitLineRecords(editCall.text)'
  BY <1>1, <1>2, <1>3 DEF Hunks
<1>8. Resolving'
  BY <1>4, <1>5, <1>6, <1>7, Zenon DEF Resolving
<1> QED
  BY <1>1, <1>8 DEF ThisPatch

\* resolveChunk finds the place that the reference gives the hunk.
LEMMA PatchResolves ==
  ASSUME editCall \in EditCalls, editCall.kind = "patch", Sought(editCall.chunks), ThisPatch,
         ResolveNext
  PROVE  ThisPatch'
<1>1. /\ editPc = "resolve" /\ editTodo # <<>> /\ editTodo' = Tail(editTodo)
      /\ UNCHANGED <<editCall, editText>>
  BY DEF ResolveNext
<1>2. PICK k \in 0 .. Hunks : TodoFrom(k) /\ PlacesTo(k) /\ ResolvedTo(k) /\ editText = SplitLineRecords(editCall.text)
  BY <1>1 DEF ThisPatch, Resolving
<1> DEFINE n == Len(FileLines)  before == IF editPlaces = <<>> THEN 0 ELSE Last(editPlaces).next
           place == ResolveChunk(TextsOf(editText), Head(editTodo), before)
<1>3. /\ Hunks \in Nat /\ FilePlaces \in Seq(AllPlaces(n)) /\ Len(FilePlaces) = Hunks
      /\ \A i \in 1 .. Hunks :
           /\ FilePlaces[i] = ResolveChunk(FileLines, editCall.chunks[i], PlaceBefore(FilePlaces, i))
           /\ FilePlaces[i] \in AllPlaces(n)
  BY FileFacts
<1>4. /\ editTodo \in Seq(Chunk) /\ Len(editTodo) = Hunks - k
      /\ \A i \in 1 .. Hunks - k : editTodo[i] = editCall.chunks[k + i]
  BY <1>2 DEF TodoFrom
<1>5. k + 1 \in 1 .. Hunks /\ k \in Nat /\ k + 1 \in 0 .. Hunks
  <2>1. Len(editTodo) # 0
    BY <1>1, <1>4
  <2> QED
    BY <1>3, <1>4, <2>1
<1>6. Head(editTodo) = editCall.chunks[k + 1]
  <2>1. 1 \in 1 .. Hunks - k
    BY <1>3, <1>5
  <2>2. Head(editTodo) = editTodo[1]
    BY DEF Head
  <2> QED
    BY <1>4, <2>1, <2>2
<1>7. before = PlaceBefore(FilePlaces, k + 1)
  <2>1. editPlaces \in Seq(AllPlaces(n)) /\ Len(editPlaces) = k /\ \A i \in 1 .. k : editPlaces[i] = FilePlaces[i]
    BY <1>2 DEF PlacesTo
  <2>2. CASE k = 0
    BY <2>1, <2>2 DEF PlaceBefore
  <2>3. CASE k # 0
    <3>1. editPlaces # <<>> /\ k \in 1 .. k /\ k + 1 # 1 /\ (k + 1) - 1 = k
      BY <1>5, <2>1, <2>3
    <3>2. Last(editPlaces) = FilePlaces[k]
      BY <2>1, <3>1 DEF Last
    <3> QED
      BY <3>1, <3>2 DEF PlaceBefore
  <2> QED
    BY <2>2, <2>3
<1>8. place = FilePlaces[k + 1]
  <2>1. TextsOf(editText) = FileLines
    BY <1>2, Zenon DEF FileLines
  <2>2. FilePlaces[k + 1] = ResolveChunk(FileLines, editCall.chunks[k + 1], PlaceBefore(FilePlaces, k + 1))
    BY <1>3, <1>5
  <2> HIDE DEF before
  <2> QED
    BY <1>6, <1>7, <2>1, <2>2, Zenon
<1>9. IF place = NoPlace THEN editPc' = "refused" /\ editPlaces' = editPlaces
      ELSE editPlaces' = Append(editPlaces, place) /\ editPc' = editPc
  BY DEF ResolveNext, Resolve, Result
<1> HIDE DEF place, before
<1>10. CASE place = NoPlace
  <2>1. editPc' = "refused"
    BY <1>9, <1>10
  <2> QED
    BY <2>1 DEF ThisPatch
<1>11. CASE place # NoPlace
  <2>1. editPlaces' = Append(editPlaces, place) /\ editPc' = "resolve"
    BY <1>1, <1>9, <1>11
  <2>2. FileLines' = FileLines /\ FilePlaces' = FilePlaces /\ Hunks' = Hunks
    BY <1>1 DEF FileLines, FilePlaces, Hunks
  <2>3. PlacesTo(k + 1)'
    <3>1. editPlaces \in Seq(AllPlaces(n)) /\ Len(editPlaces) = k /\ \A i \in 1 .. k : editPlaces[i] = FilePlaces[i]
      BY <1>2 DEF PlacesTo
    <3>2. place \in AllPlaces(n)
      BY <1>3, <1>5, <1>8
    <3> DEFINE a == Append(editPlaces, place)  V == AllPlaces(n)
    <3> HIDE DEF V
    <3>3. /\ Append(editPlaces, place) \in Seq(V) /\ Len(Append(editPlaces, place)) = k + 1
          /\ \A i \in 1 .. k : Append(editPlaces, place)[i] = editPlaces[i]
          /\ Append(editPlaces, place)[k + 1] = place
      BY <3>1, <3>2, AppendProperties DEF V
    <3> HIDE DEF a
    <3>4. ASSUME NEW i \in 1 .. k + 1 PROVE a[i] = FilePlaces[i]
      <4>1. CASE i = k + 1
        BY <1>8, <3>3, <4>1 DEF a
      <4>2. CASE i # k + 1
        <5>1. i \in 1 .. k
          BY <1>5, <4>2
        <5> QED
          BY <3>1, <3>3, <5>1 DEF a
      <4> QED
        BY <4>1, <4>2
    <3>5. editPlaces' = a /\ a \in Seq(V) /\ Len(a) = k + 1
      BY <2>1, <3>3 DEF a
    <3> QED
      BY <2>2, <3>4, <3>5 DEF PlacesTo, V
  <2>4. ResolvedTo(k + 1)'
    <3>1. \A i \in 1 .. k : FilePlaces[i] # NoPlace
      BY <1>2 DEF ResolvedTo
    <3>2. \A i \in 1 .. k + 1 : i \in 1 .. k \/ i = k + 1
      BY <1>5
    <3>3. \A i \in 1 .. k + 1 : FilePlaces[i] # NoPlace
      BY <1>8, <1>11, <3>1, <3>2
    <3> QED
      BY <2>2, <3>3 DEF ResolvedTo
  <2>5. TodoFrom(k + 1)'
    <3> DEFINE t == Tail(editTodo)
    <3>1. Tail(editTodo) \in Seq(Chunk) /\ Len(Tail(editTodo)) = Len(editTodo) - 1 /\ \A i \in 1 .. Len(editTodo) - 1 : Tail(editTodo)[i] = editTodo[i + 1]
      BY <1>1, <1>4
    <3> HIDE DEF t
    <3>2. Len(t) = Hunks - (k + 1) /\ Len(editTodo) - 1 = Hunks - (k + 1)
      BY <1>3, <1>4, <1>5, <3>1 DEF t
    <3>3. ASSUME NEW i \in 1 .. Hunks - (k + 1) PROVE t[i] = editCall.chunks[(k + 1) + i]
      <4>1. i \in 1 .. Len(editTodo) - 1 /\ i + 1 \in 1 .. Hunks - k /\ k + (i + 1) = (k + 1) + i
        BY <1>3, <1>4, <1>5, <3>2
      <4>2. t[i] = editTodo[i + 1]
        BY <3>1, <4>1 DEF t
      <4>3. editTodo[i + 1] = editCall.chunks[k + (i + 1)]
        BY <1>4, <4>1
      <4> QED
        BY <4>1, <4>2, <4>3
    <3> QED
      BY <1>1, <2>2, <3>1, <3>2, <3>3 DEF TodoFrom, t
  <2>6. editText' = SplitLineRecords(editCall.text)' /\ k + 1 \in 0 .. Hunks'
    BY <1>1, <1>2, <1>5, <2>2
  <2>7. Resolving'
    BY <2>3, <2>4, <2>5, <2>6, Zenon DEF Resolving
  <2> QED
    BY <2>1, <2>7 DEF ThisPatch
<1> QED
  BY <1>10, <1>11

LEMMA PatchDeriving ==
  ASSUME editCall \in EditCalls, editCall.kind = "patch", Sought(editCall.chunks), ThisPatch,
         editPc \in {"resolve", "derive"}, editTodo = <<>>
  PROVE  Deriving
<1>1. CASE editPc = "derive"
  BY <1>1 DEF ThisPatch
<1>2. CASE editPc = "resolve"
  <2>1. PICK k \in 0 .. Hunks : TodoFrom(k) /\ PlacesTo(k) /\ ResolvedTo(k) /\ editText = SplitLineRecords(editCall.text)
    BY <1>2 DEF ThisPatch, Resolving
  <2>2. Hunks \in Nat
    BY FileFacts
  <2>3. k = Hunks
    <3>1. Len(editTodo) = Hunks - k
      BY <2>1 DEF TodoFrom
    <3>2. Len(editTodo) = 0
      OBVIOUS
    <3> QED
      BY <2>2, <3>1, <3>2
  <2>4. ResolvedTo(Hunks) /\ PlacesTo(Hunks) /\ Hunks \in 0 .. Hunks
    BY <2>1, <2>2, <2>3
  <2>5. /\ editText \in Seq(LineRecord) /\ FileLines = TextsOf(editText) /\ FileLines \in Texts
        /\ Within(Seq(Characters), FileLines, FileRegions) /\ Len(FileRegions) = Hunks
    <3>1. SplitLineRecords(editCall.text) \in Seq(LineRecord)
      BY FileFacts
    <3>2. editText \in Seq(LineRecord)
      BY <2>1, <3>1
    <3>3. FileLines = TextsOf(editText)
      BY <2>1, Zenon DEF FileLines
    <3> QED
      BY <2>4, <3>2, <3>3, FileFacts
  <2>6. DoneBehind(Seq(Characters), FileLines, FileRegions, Len(FileRegions), FileLines)
    BY <2>5, BehindAll DEF Texts
  <2>7. DoneBehind(Seq(Characters), FileLines, FileRegions, Hunks, TextsOf(editText))
    BY <2>5, <2>6, Zenon
  <2> QED
    BY <2>4, <2>5, <2>7, Zenon DEF Deriving
<1> QED
  BY <1>1, <1>2

\* deriveUpdatedContent puts in the last hunk still to be put in.
LEMMA PatchDerives ==
  ASSUME editCall \in EditCalls, editCall.kind = "patch", Sought(editCall.chunks), ThisPatch,
         DeriveUpdatedContent
  PROVE  ThisPatch'
<1> DEFINE S == Seq(Characters)  n == Len(FileLines)  r == editPlaces[Len(editPlaces)]
           default == DetectLineEnding(editCall.text)
<1>1. editPc \in {"resolve", "derive"} /\ editTodo = <<>> /\ UNCHANGED <<editCall, editTodo>>
  BY DEF DeriveUpdatedContent
<1>2. Deriving
  BY <1>1, PatchDeriving
<1>3. PICK m \in 0 .. Hunks : PlacesTo(m) /\ DoneBehind(S, FileLines, FileRegions, m, TextsOf(editText))
  BY <1>2 DEF Deriving
<1>4. /\ Hunks \in Nat /\ Within(S, FileLines, FileRegions) /\ Len(FileRegions) = Hunks /\ FileLines \in Seq(S) /\ n \in Nat
      /\ ResolvedTo(Hunks) /\ editText \in Seq(LineRecord)
      /\ Len(FilePlaces) = Hunks /\ \A k \in 1 .. Hunks : FilePlaces[k] \in AllPlaces(n)
  BY <1>2, FileFacts DEF Deriving, Texts
<1>5. editPlaces \in Seq(AllPlaces(n)) /\ Len(editPlaces) = m /\ m \in Nat /\ \A i \in 1 .. m : editPlaces[i] = FilePlaces[i]
  BY <1>3, <1>4 DEF PlacesTo
<1>6. FileLines' = FileLines /\ FilePlaces' = FilePlaces /\ FileRegions' = FileRegions /\ Hunks' = Hunks /\ editCall' = editCall
  BY <1>1 DEF FileLines, FilePlaces, FileRegions, Hunks
<1>7. CASE m = 0
  <2>1. editPlaces = <<>>
    BY <1>5, <1>7
  <2>2. editPc' = "done" /\ editText' = editText
    BY <2>1 DEF DeriveUpdatedContent, Result
  <2>3. DoneBehind(S, FileLines, FileRegions, 0, TextsOf(editText))
    BY <1>3, <1>7
  <2> DEFINE t == TextsOf(editText)  lines == FileLines  R == FileRegions
  <2> HIDE DEF t, lines, R, S
  <2>4. t = AtOnce(lines, R)
    BY <1>4, <2>3, BehindNone DEF t, lines, R
  <2>5. TextsOf(editText)' = AtOnce(FileLines, FileRegions)'
    BY <1>6, <2>2, <2>4 DEF t, lines, R
  <2> QED
    BY <2>2, <2>5 DEF ThisPatch
<1>8. CASE m # 0
  <2> DEFINE t == TextsOf(editText)  lines == FileLines  R == FileRegions  a == r.start  b == r.start + r.oldLen
  <2>1. m \in 1 .. Hunks /\ m \in 1 .. Len(R) /\ editPlaces # <<>> /\ m - 1 \in 0 .. Hunks
    BY <1>4, <1>5, <1>8
  <2>2. r = FilePlaces[m] /\ r \in Place(n)
    <3>1. r = FilePlaces[m] /\ FilePlaces[m] \in AllPlaces(n)
      BY <1>4, <1>5, <2>1
    <3>2. FilePlaces[m] # NoPlace
      BY <1>4, <2>1 DEF ResolvedTo
    <3> QED
      BY <3>1, <3>2 DEF AllPlaces
  <2>3. R[m].from = a /\ R[m].to = b /\ R[m].new = r.new
    <3>1. DOMAIN FilePlaces = 1 .. Hunks
      <4>1. FilePlaces \in Seq(AllPlaces(n))
        BY FileFacts
      <4> QED
        BY <1>4, <4>1
    <3>2. R[m] = [from |-> FilePlaces[m].start, to |-> FilePlaces[m].start + FilePlaces[m].oldLen, new |-> FilePlaces[m].new]
      BY <2>1, <3>1 DEF FileRegions, HunkRegions
    <3> HIDE DEF r
    <3> QED
      BY <2>2, <3>2
  <2>4. t \in Seq(S) /\ Len(t) = Len(editText)
    BY <1>4, TextsFacts DEF Texts
  <2>5. R[m].to <= Len(t) /\ DoneBehind(S, lines, R, m - 1, Instead(t, R[m].from, R[m].to, R[m].new))
    <3>1. Within(S, lines, R) /\ DoneBehind(S, lines, R, m, t) /\ lines \in Seq(S) /\ m \in 1 .. Len(R)
      BY <1>3, <1>4, <2>1
    <3> HIDE DEF t, lines, R, S
    <3> QED
      BY <3>1, BehindStep
  <2>6. DoneBehind(S, lines, R, m - 1, Instead(t, a, b, r.new)) /\ b <= Len(editText)
    <3> HIDE DEF R, a, b, t, r, S
    <3> QED
      BY <2>3, <2>4, <2>5
  <2>7. ~OutOfRange(editText, r)
    <3>1. a \in Nat /\ r.oldLen \in Nat /\ b \in Nat
      <4> HIDE DEF r
      <4> QED
        BY <2>2 DEF Place
    <3>2. Len(editText) \in Nat
      BY <1>4
    <3> QED
      BY <2>6, <3>1, <3>2 DEF OutOfRange
  <2>8. editPc' = "derive" /\ editText' = PutRecords(editText, r, default) /\ editPlaces' = Front(editPlaces)
    <3> HIDE DEF r
    <3> QED
      BY <2>1, <2>7, Zenon DEF DeriveUpdatedContent, Result, r
  <2>9. editText' \in Seq(LineRecord) /\ TextsOf(editText') = Instead(t, a, b, r.new)
    <3>1. default \in {"lf", "crlf"}
      <4>1. editCall.text \in Seq(Characters)
        BY PatchCall
      <4> QED
        BY <4>1, DetectFacts
    <3> HIDE DEF r, default
    <3>2. r.start + r.oldLen <= Len(editText)
      BY <2>6
    <3>3. /\ PutRecords(editText, r, default) \in Seq(LineRecord)
          /\ TextsOf(PutRecords(editText, r, default)) = Instead(TextsOf(editText), r.start, r.start + r.oldLen, r.new)
      BY <1>4, <2>2, <3>1, <3>2, PutFacts
    <3> QED
      BY <2>8, <3>3
  <2>10. PlacesTo(m - 1)'
    <3> DEFINE f == Front(editPlaces)  V == AllPlaces(n)
    <3> HIDE DEF V
    <3>1. /\ SubSeq(editPlaces, 0 + 1, m - 1) \in Seq(V) /\ Len(SubSeq(editPlaces, 0 + 1, m - 1)) = (m - 1) - 0
          /\ \A i \in 1 .. (m - 1) - 0 : SubSeq(editPlaces, 0 + 1, m - 1)[i] = editPlaces[0 + i]
      <4>1. editPlaces \in Seq(V) /\ 0 \in 0 .. Len(editPlaces) /\ m - 1 \in 0 .. Len(editPlaces)
        BY <1>5, <1>8 DEF V
      <4> QED
        BY <4>1, SubSeqFacts
    <3>2. f = SubSeq(editPlaces, 0 + 1, m - 1) /\ (m - 1) - 0 = m - 1 /\ \A i \in 1 .. m - 1 : 0 + i = i /\ i \in 1 .. m
      BY <1>5, <1>8 DEF Front
    <3> HIDE DEF f
    <3>3. f \in Seq(V) /\ Len(f) = m - 1 /\ \A i \in 1 .. m - 1 : f[i] = FilePlaces[i]
      BY <1>5, <3>1, <3>2
    <3> QED
      BY <1>6, <2>8, <3>3 DEF PlacesTo, f, V
  <2>11. ResolvedTo(Hunks)'
    BY <1>4, <1>6 DEF ResolvedTo
  <2>12. DoneBehind(S, FileLines, FileRegions, m - 1, TextsOf(editText))'
    <3>1. DoneBehind(S, FileLines, FileRegions, m - 1, TextsOf(editText'))
      BY <2>6, <2>9
    <3> HIDE DEF S
    <3> QED
      BY <1>6, <3>1 DEF DoneBehind, S
  <2>13. Deriving'
    <3>1. m - 1 \in 0 .. Hunks'
      BY <1>6, <2>1
    <3> QED
      BY <2>9, <2>10, <2>11, <2>12, <3>1 DEF Deriving
  <2> QED
    BY <2>8, <2>13 DEF ThisPatch
<1> QED
  BY <1>7, <1>8

-----------------------------------------------------------------------------
(* multi_edit: the order of the edits.                                     *)

\* The edits of a file differ from all others.
Apart(f, edits) ==
    \A i, j \in DOMAIN edits : i # j /\ edits[i].file = f => <<edits[j].file, Pair(edits[j])>> # <<f, Pair(edits[i])>>

\* A sequence with one more element.
Widened(W, q, k, e, t) ==
    /\ t \in Seq(W) /\ Len(t) = Len(q) + 1 /\ t[k + 1] = e
    /\ \A j \in 1 .. k : t[j] = q[j]
    /\ \A j \in k + 1 .. Len(q) : t[j + 1] = q[j]

LEMMA InsertedAtFacts ==
  ASSUME NEW W, NEW q \in Seq(W), NEW k \in 0 .. Len(q), NEW e \in W
  PROVE  Widened(W, q, k, e, InsertedAt(q, k, e))
<1> DEFINE x == Part(q, 0, k)  y == Part(q, k, Len(q))  m == <<e>>  n == Len(q)  j1 == Join(x, m)  t == InsertedAt(q, k, e)
<1>1. n \in Nat /\ k \in Nat /\ k \in 0 .. n /\ k \in k .. n /\ 0 \in 0 .. n /\ n \in k .. n
  OBVIOUS
<1>2. t = Join(j1, y)
  BY Zenon DEF InsertedAt, Instead, Join
<1>3. m \in Seq(W) /\ Len(m) = 1 /\ m[1] = e
  OBVIOUS
<1>4. x \in Seq(W) /\ Len(x) = k /\ \A i \in 1 .. k : x[i] = q[i]
  <2>1. x \in Seq(W) /\ Len(x) = k - 0 /\ \A i \in 1 .. k - 0 : x[i] = q[0 + i]
    BY <1>1, PartFacts
  <2>2. k - 0 = k /\ \A i \in 1 .. k : 0 + i = i
    BY <1>1
  <2> HIDE DEF x
  <2> QED
    BY <2>1, <2>2
<1>5. y \in Seq(W) /\ Len(y) = n - k /\ \A i \in 1 .. n - k : y[i] = q[k + i]
  BY <1>1, PartFacts
<1> HIDE DEF x, y, m
<1>6. Joins(W, j1, x, m)
  BY <1>3, <1>4, JoinFacts
<1> HIDE DEF j1
<1>7. j1 \in Seq(W) /\ Len(j1) = k + 1 /\ (\A i \in 1 .. k : j1[i] = q[i]) /\ j1[k + 1] = e
  <2>1. j1 \in Seq(W) /\ Len(j1) = k + 1
    BY <1>3, <1>4, <1>6 DEF Joins
  <2>2. \A i \in 1 .. k : j1[i] = q[i]
    BY <1>4, <1>6 DEF Joins
  <2>3. 1 \in 1 .. Len(m)
    BY <1>3
  <2>4. j1[Len(x) + 1] = m[1]
    BY <1>6, <2>3 DEF Joins
  <2> QED
    BY <1>3, <1>4, <2>1, <2>2, <2>4
<1>8. Joins(W, Join(j1, y), j1, y)
  BY <1>5, <1>7, JoinFacts
<1> HIDE DEF t
<1>9. Joins(W, t, j1, y)
  BY <1>2, <1>8
<1>10. t \in Seq(W) /\ Len(t) = n + 1
  <2>1. t \in Seq(W) /\ Len(t) = Len(j1) + Len(y)
    BY <1>9 DEF Joins
  <2> QED
    BY <2>1, <1>1, <1>5, <1>7
<1>11. ASSUME NEW i \in 1 .. k + 1 PROVE t[i] = j1[i]
  BY <1>7, <1>9 DEF Joins
<1>12. ASSUME NEW j \in k + 1 .. n PROVE t[j + 1] = q[j]
  <2> DEFINE i == j - k
  <2>1. i \in 1 .. n - k /\ k + i = j /\ (k + 1) + i = j + 1
    BY <1>1
  <2> HIDE DEF i
  <2>2. t[Len(j1) + i] = y[i]
    BY <1>5, <1>9, <2>1 DEF Joins
  <2> QED
    BY <1>5, <1>7, <2>1, <2>2
<1>13. t[k + 1] = e
  <2>1. k + 1 \in 1 .. k + 1
    BY <1>1
  <2> QED
    BY <1>7, <1>11, <2>1
<1>14. ASSUME NEW j \in 1 .. k PROVE t[j] = q[j]
  <2>1. j \in 1 .. k + 1
    BY <1>1
  <2> QED
    BY <1>7, <1>11, <2>1
<1> QED
  BY <1>10, <1>12, <1>13, <1>14 DEF Widened, t, n

\* All the edits so far, each once if it is one of the file.
SortedTo(edits, f, n, q) ==
    /\ \A k \in 1 .. Len(q) : \E i \in 1 .. n : q[k] = edits[i]
    /\ \A i \in 1 .. n : \E k \in 1 .. Len(q) : q[k] = edits[i]
    /\ Apart(f, edits) => Apart(f, q)

LEMMA SortedGoesOn ==
  ASSUME NEW W, NEW edits \in Seq(W), NEW f, NEW n \in Nat, n + 1 <= Len(edits),
         NEW q \in Seq(W), SortedTo(edits, f, n, q),
         NEW k \in 0 .. Len(q), NEW t, Widened(W, q, k, edits[n + 1], t)
  PROVE  SortedTo(edits, f, n + 1, t)
<1> DEFINE e == edits[n + 1]  m == Len(q)  key(a) == <<a.file, Pair(a)>>
<1>1. m \in Nat /\ k \in Nat /\ k <= m /\ n + 1 \in 1 .. n + 1 /\ DOMAIN edits = 1 .. Len(edits) /\ Len(edits) \in Nat
      /\ n + 1 \in 1 .. Len(edits) /\ DOMAIN q = 1 .. m
  OBVIOUS
<1>2. /\ t \in Seq(W) /\ Len(t) = m + 1 /\ t[k + 1] = e
      /\ \A j \in 1 .. k : t[j] = q[j]
      /\ \A j \in k + 1 .. m : t[j + 1] = q[j]
  BY DEF Widened
<1>3. DOMAIN t = 1 .. m + 1
  BY <1>2
<1> HIDE DEF e, m

\* Where an element comes from.
<1> DEFINE was(j) == IF j <= k THEN j ELSE j - 1
<1>4. ASSUME NEW j \in 1 .. m + 1, j # k + 1 PROVE was(j) \in 1 .. m /\ t[j] = q[was(j)]
  <2>1. CASE j <= k
    <3>1. j \in 1 .. k /\ j \in 1 .. m
      BY <1>1, <2>1
    <3> QED
      BY <1>2, <2>1, <3>1
  <2>2. CASE ~(j <= k)
    <3>1. j - 1 \in k + 1 .. m /\ j - 1 \in 1 .. m /\ (j - 1) + 1 = j
      BY <1>1, <1>4, <2>2
    <3>2. t[(j - 1) + 1] = q[j - 1]
      BY <1>2, <3>1
    <3> QED
      BY <2>2, <3>1, <3>2
  <2> QED
    BY <2>1, <2>2
<1>5. ASSUME NEW i \in 1 .. m + 1, NEW j \in 1 .. m + 1, i # j, i # k + 1, j # k + 1 PROVE was(i) # was(j)
  BY <1>1, <1>5
<1>6. ASSUME NEW j \in 1 .. m PROVE \E l \in 1 .. m + 1 : l # k + 1 /\ t[l] = q[j]
  <2>1. CASE j <= k
    <3>1. j \in 1 .. k /\ j \in 1 .. m + 1 /\ j # k + 1
      BY <1>1, <2>1
    <3> QED
      BY <1>2, <3>1
  <2>2. CASE ~(j <= k)
    <3>1. j \in k + 1 .. m /\ j + 1 \in 1 .. m + 1 /\ j + 1 # k + 1
      BY <1>1, <2>2
    <3> QED
      BY <1>2, <3>1
  <2> QED
    BY <2>1, <2>2
<1> HIDE DEF was
<1>7. ASSUME NEW l \in 1 .. m PROVE \E i \in 1 .. n : q[l] = edits[i]
  BY DEF SortedTo, m
<1>8. ASSUME NEW j \in 1 .. Len(t) PROVE \E i \in 1 .. n + 1 : t[j] = edits[i]
  <2>1. CASE j = k + 1
    BY <1>1, <1>2, <2>1 DEF e
  <2>2. CASE j # k + 1
    <3>1. was(j) \in 1 .. m /\ t[j] = q[was(j)]
      BY <1>2, <1>4, <2>2
    <3>2. PICK i \in 1 .. n : q[was(j)] = edits[i]
      BY <1>7, <3>1
    <3>3. i \in 1 .. n + 1
      OBVIOUS
    <3> QED
      BY <3>1, <3>2, <3>3
  <2> QED
    BY <2>1, <2>2
<1>9. ASSUME NEW i \in 1 .. n + 1 PROVE \E j \in 1 .. Len(t) : t[j] = edits[i]
  <2>1. CASE i = n + 1
    <3>1. k + 1 \in 1 .. Len(t)
      BY <1>1, <1>2
    <3> QED
      BY <1>2, <2>1, <3>1 DEF e
  <2>2. CASE i # n + 1
    <3>1. i \in 1 .. n
      BY <2>2
    <3>2. PICK l \in 1 .. m : q[l] = edits[i]
      BY <3>1 DEF SortedTo, m
    <3>3. PICK j \in 1 .. m + 1 : t[j] = q[l]
      BY <1>6
    <3> QED
      BY <1>2, <3>2, <3>3
  <2> QED
    BY <2>1, <2>2
<1>10. ASSUME Apart(f, edits) PROVE Apart(f, t)
  <2> SUFFICES ASSUME NEW i \in 1 .. m + 1, NEW j \in 1 .. m + 1, i # j, t[i].file = f
               PROVE  <<t[j].file, Pair(t[j])>> # <<f, Pair(t[i])>>
    BY <1>3 DEF Apart
  <2>1. Apart(f, q)
    BY <1>10 DEF SortedTo
  <2>2. ASSUME NEW l \in 1 .. m PROVE \E h \in 1 .. Len(edits) : h # n + 1 /\ q[l] = edits[h]
    <3>1. PICK h \in 1 .. n : q[l] = edits[h]
      BY <1>7
    <3>2. h \in 1 .. Len(edits) /\ h # n + 1
      BY <1>1
    <3> QED
      BY <3>1, <3>2
  <2>3. ASSUME NEW a \in 1 .. Len(edits), NEW b \in 1 .. Len(edits), a # b, edits[a].file = f
        PROVE  <<edits[b].file, Pair(edits[b])>> # <<f, Pair(edits[a])>>
    BY <1>1, <1>10, <2>3, Zenon DEF Apart
  <2>4. CASE i = k + 1
    <3>1. was(j) \in 1 .. m /\ t[j] = q[was(j)]
      BY <1>4, <2>4
    <3>2. PICK h \in 1 .. Len(edits) : h # n + 1 /\ q[was(j)] = edits[h]
      BY <2>2, <3>1
    <3>3. t[i] = edits[n + 1] /\ t[j] = edits[h] /\ n + 1 \in 1 .. Len(edits)
      BY <1>1, <1>2, <2>4, <3>1, <3>2 DEF e
    <3>4. <<edits[h].file, Pair(edits[h])>> # <<f, Pair(edits[n + 1])>>
      BY <2>3, <3>2, <3>3
    <3> QED
      BY <3>3, <3>4, Zenon
  <2>5. CASE j = k + 1
    <3>1. was(i) \in 1 .. m /\ t[i] = q[was(i)]
      BY <1>4, <2>5
    <3>2. PICK h \in 1 .. Len(edits) : h # n + 1 /\ q[was(i)] = edits[h]
      BY <2>2, <3>1
    <3>3. t[j] = edits[n + 1] /\ t[i] = edits[h] /\ n + 1 \in 1 .. Len(edits)
      BY <1>1, <1>2, <2>5, <3>1, <3>2 DEF e
    <3>4. <<edits[n + 1].file, Pair(edits[n + 1])>> # <<f, Pair(edits[h])>>
      BY <2>3, <3>2, <3>3
    <3> QED
      BY <3>3, <3>4, Zenon
  <2>6. CASE i # k + 1 /\ j # k + 1
    <3>1. /\ was(i) \in 1 .. m /\ t[i] = q[was(i)] /\ was(j) \in 1 .. m /\ t[j] = q[was(j)] /\ was(i) # was(j)
      BY <1>4, <1>5, <2>6
    <3>2. <<q[was(j)].file, Pair(q[was(j)])>> # <<f, Pair(q[was(i)])>>
      BY <1>1, <2>1, <3>1, Zenon DEF Apart, m
    <3> QED
      BY <3>1, <3>2, Zenon
  <2> QED
    BY <2>4, <2>5, <2>6
<1> QED
  BY <1>8, <1>9, <1>10 DEF SortedTo

\* The stable sort puts an edit somewhere among those before.
LEMMA InsertedFacts ==
  ASSUME NEW W, NEW q \in Seq(W), NEW e \in W, NEW files
  PROVE  \E k \in 0 .. Len(q) : Widened(W, q, k, e, Inserted(files, q, e))
<1> DEFINE at == {i \in 0 .. Len(q) : \A j \in i + 1 .. Len(q) : Before(files, e, q[j])}
           k == LeastOf(at)
<1>1. Len(q) \in at
  <2>1. Len(q) \in 0 .. Len(q) /\ Len(q) + 1 .. Len(q) = {}
    OBVIOUS
  <2> QED
    BY <2>1, Zenon
<1>2. at \subseteq Nat /\ at \subseteq 0 .. Len(q)
  OBVIOUS
<1>3. Inserted(files, q, e) = InsertedAt(q, k, e)
  BY Zenon DEF Inserted
<1> HIDE DEF at
<1>4. k \in at
  BY <1>1, <1>2, LeastOfFacts
<1> HIDE DEF k
<1>5. k \in 0 .. Len(q)
  BY <1>2, <1>4
<1>6. Widened(W, q, k, e, InsertedAt(q, k, e))
  BY <1>5, InsertedAtFacts
<1> QED
  BY <1>3, <1>5, <1>6

\* Whatever the order of the sort, it keeps every edit and adds none.
LEMMA SortedFacts ==
  ASSUME NEW W, NEW edits \in Seq(W), NEW files
  PROVE  LET q == SortRawEntriesPositional(files, edits) IN
         q \in Seq(W) /\ \A f : SortedTo(edits, f, Len(edits), q)
<1> DEFINE N == Len(edits)
           V == Seq(W)
           Step(k, d) == Inserted(files, d, edits[k])
           Body(f) == [n \in 0 .. N |-> IF n = 0 THEN <<>> ELSE Inserted(files, f[n - 1], edits[n])]
           Is(f) == f = Body(f)
           F == [a \in (1 .. N) \X V |-> Step(a[1], a[2])]
           q == SortRawEntriesPositional(files, edits)
           Good(n, d) == d \in V /\ \A f : SortedTo(edits, f, n, d)
<1>1. N \in Nat /\ \A k \in 1 .. N : edits[k] \in W
  OBVIOUS
<1>2. <<>> \in V
  OBVIOUS
<1>3. ASSUME NEW k \in 1 .. N, NEW d \in V
      PROVE  \E i \in 0 .. Len(d) : Widened(W, d, i, edits[k], Step(k, d))
  BY <1>1, InsertedFacts
<1>4. ASSUME NEW k \in 1 .. N, NEW d \in V PROVE Step(k, d) \in V
  <2> HIDE DEF Step
  <2> QED
    BY <1>3 DEF Widened
<1>5. F \in [(1 .. N) \X V -> V]
  <2> HIDE DEF Step, V
  <2> QED
    BY <1>4
<1>6. PICK f \in [0 .. N -> V] : Recursive(f, <<>>, N, F)
  <2> HIDE DEF F, N, V
  <2> QED
    BY <1>1, <1>2, <1>5, RecursionExists
<1>7. Is(f)
  <2>1. ASSUME NEW k \in 0 .. N
        PROVE  f[k] = IF k = 0 THEN <<>> ELSE Step(k, f[k - 1])
    <3> HIDE DEF Step, V
    <3>1. CASE k = 0
      BY <1>6, <3>1 DEF Recursive
    <3>2. CASE k # 0
      <4>1. k \in 1 .. N /\ f[k - 1] \in V
        <5>1. k \in 1 .. N /\ k - 1 \in 0 .. N
          BY <3>2, <1>1
        <5> HIDE DEF N
        <5> QED
          BY <5>1, <1>6
      <4>2. <<k, f[k - 1]>> \in (1 .. N) \X V
        BY <4>1
      <4>3. F[<<k, f[k - 1]>>] = Step(k, f[k - 1])
        BY <4>2
      <4>4. f[k] = F[<<k, f[k - 1]>>]
        BY <4>1, <1>6 DEF Recursive
      <4> QED
        BY <3>2, <4>3, <4>4
    <3> QED
      BY <3>1, <3>2
  <2>2. DOMAIN f = 0 .. N /\ f = [k \in 0 .. N |-> f[k]]
    BY <1>6
  <2> HIDE DEF V, F, N
  <2> QED
    BY <2>1, <2>2, Zenon
<1> DEFINE D == CHOOSE g : Is(g)
<1>8. Is(D)
  <2> HIDE DEF Is
  <2> QED
    BY <1>7
<1>9. q = D[N]
  BY Zenon DEF SortRawEntriesPositional
<1>10. D[0] = <<>> /\ \A k \in 1 .. N : D[k] = Step(k, D[k - 1])
  <2> HIDE DEF D
  <2>1. \A k \in 0 .. N : D[k] = IF k = 0 THEN <<>> ELSE Step(k, D[k - 1])
    <3>1. D = Body(D)
      BY <1>8
    <3> HIDE DEF N
    <3> QED
      BY <3>1
  <2>2. 0 \in 0 .. N /\ \A k \in 1 .. N : k \in 0 .. N /\ k # 0
    BY <1>1
  <2> HIDE DEF Step
  <2> QED
    BY <2>1, <2>2
<1>11. Good(0, <<>>)
  <2>1. ASSUME NEW g PROVE SortedTo(edits, g, 0, <<>>)
    <3>1. Len(<<>>) = 0 /\ 1 .. 0 = {} /\ DOMAIN <<>> = {}
      OBVIOUS
    <3>2. Apart(g, <<>>)
      BY <3>1, Zenon DEF Apart
    <3> QED
      BY <3>1, <3>2, Zenon DEF SortedTo
  <2> QED
    BY <1>2, <2>1
<1>12. ASSUME NEW n \in Nat, n + 1 <= N, NEW d, Good(n, d) PROVE Good(n + 1, Step(n + 1, d))
  <2>1. n + 1 \in 1 .. N /\ d \in V
    BY <1>12, <1>1
  <2>2. PICK i \in 0 .. Len(d) : Widened(W, d, i, edits[n + 1], Step(n + 1, d))
    BY <1>3, <2>1
  <2>3. Step(n + 1, d) \in V
    BY <1>4, <2>1
  <2> HIDE DEF Step
  <2>4. ASSUME NEW g PROVE SortedTo(edits, g, n + 1, Step(n + 1, d))
    <3>1. SortedTo(edits, g, n, d)
      BY <1>12
    <3> QED
      BY <1>12, <2>1, <2>2, <3>1, SortedGoesOn
  <2> QED
    BY <2>3, <2>4
<1>13. Good(N, D[N])
  <2> DEFINE T == {n \in Nat : n <= N => Good(n, D[n])}
  <2> HIDE DEF D, Step, V, Good
  <2>1. 0 \in T
    BY <1>10, <1>11
  <2>2. ASSUME NEW n \in Nat, n \in T PROVE n + 1 \in T
    <3> SUFFICES ASSUME n + 1 <= N PROVE Good(n + 1, D[n + 1])
      OBVIOUS
    <3>1. n + 1 \in 1 .. N /\ n <= N /\ (n + 1) - 1 = n
      BY <1>1
    <3>2. Good(n, D[n])
      BY <2>2, <3>1
    <3>3. D[n + 1] = Step(n + 1, D[(n + 1) - 1])
      BY <3>1, <1>10
    <3>4. D[(n + 1) - 1] = D[n]
      BY <3>1
    <3>5. Good(n + 1, Step(n + 1, D[n]))
      BY <3>2, <1>12
    <3> QED
      BY <3>3, <3>4, <3>5
  <2>3. Nat \subseteq T
    BY <2>1, <2>2, NatSetInduction
  <2> QED
    BY <2>3, <1>1
<1> QED
  BY <1>9, <1>13

-----------------------------------------------------------------------------
(* multi_edit: where the edits of a file belong.                           *)

\* What stands in the text as it is, is not looked for fuzzily.
LEMMA FoundFacts ==
  ASSUME NEW s \in Seq(Characters), NEW old \in Seq(Characters),
         Occurrences(NormalizeToLF(s), NormalizeToLF(old)) # {} \/ AsIs(Found(s, old))
  PROVE  /\ Occurrences(NormalizeToLF(s), NormalizeToLF(old)) # {}
         /\ Found(s, old) = InMap(MapNormalizedText(s, FALSE), NormalizeToLF(old), FALSE)
<1> DEFINE exact == InMap(MapNormalizedText(s, FALSE), NormalizeToLF(old), FALSE)
           at == Occurrences(NormalizeToLF(s), NormalizeToLF(old))
           loose == InMap(MapNormalizedText(s, TRUE), NormalizeForFuzzyMatch(old), TRUE)
<1>1. Occurrences(exact.map.text, exact.match) = at
  BY DEF InMap, NormalizeToLF
<1>2. Found(s, old) = IF at # {} THEN exact ELSE loose
  BY <1>1, Zenon DEF Found, OrFuzzy
<1>3. at # {}
  <2> SUFFICES ASSUME at = {} PROVE FALSE
    OBVIOUS
  <2>1. AsIs(loose)
    BY <1>2, Zenon
  <2>2. ~loose.fuzzy
    BY <2>1, Zenon DEF AsIs
  <2>3. loose.fuzzy = TRUE
    BY DEF InMap
  <2> QED
    BY <2>2, <2>3
<1> QED
  BY <1>2, <1>3

LEMMA NotEmpty == \A S : \A x \in Seq(S) : x # <<>> => Len(x) \in Nat /\ Len(x) > 0
<1> QED
  OBVIOUS

\* It is as long as what was asked for.
LEMMA RegionFacts ==
  ASSUME NEW s \in Seq(Characters), NEW old \in Seq(Characters), old # <<>>, AsIs(Found(s, old))
  PROVE  LET r == RegionOf(Found(s, old)) IN
         /\ r.from \in Occurrences(NormalizeToLF(s), NormalizeToLF(old))
         /\ r.from \in 0 .. Len(s) /\ r.to = r.from + Len(old) /\ r.to \in r.from .. Len(s)
         /\ r.from < r.to
<1> DEFINE m == NormalizeToLF(old)  t == NormalizeToLF(s)  at == Occurrences(t, m)  p == LeastOf(at)
           map == MapNormalizedText(s, FALSE)  r == RegionOf(Found(s, old))
<1>1. at # {} /\ Found(s, old) = InMap(map, m, FALSE)
  BY FoundFacts
<1>2. m \in Seq(Characters) /\ Len(m) = Len(old) /\ t \in Seq(Characters) /\ Len(t) = Len(s)
  BY NormalText
<1>3. Len(old) \in Nat /\ Len(old) > 0 /\ Len(s) \in Nat
  BY NotEmpty
<1>4. InMap(map, m, FALSE).map = map /\ InMap(map, m, FALSE).match = m /\ map.text = t
  BY DEF InMap, NormalizeToLF
<1>5. r = RegionAt(InMap(map, m, FALSE), at)
  BY <1>1, <1>4, Zenon DEF RegionOf
<1>6. RegionAt(InMap(map, m, FALSE), at) = [from |-> map.boundaries[p], to |-> map.boundaries[p + Len(m)]]
  BY <1>1, <1>4, Zenon DEF RegionAt
<1>7. at \subseteq Nat
  BY <1>2, OccurrenceFacts
<1> HIDE DEF at
<1>8. p \in at
  BY <1>1, <1>7, LeastOfFacts
<1> HIDE DEF p
<1>9. p \in 0 .. Len(t) /\ p + Len(m) \in p .. Len(t) /\ p + Len(m) \in 0 .. Len(t)
  BY <1>2, <1>8, OccurrenceFacts DEF at
<1> HIDE DEF t, m, r
<1>10. \A k \in 0 .. Len(s) : map.boundaries[k] = k
  BY NormalMap
<1> HIDE DEF map
<1>11. map.boundaries[p] = p /\ map.boundaries[p + Len(m)] = p + Len(old)
  <2>1. p \in 0 .. Len(s) /\ p + Len(m) \in 0 .. Len(s) /\ p + Len(m) = p + Len(old)
    BY <1>2, <1>9
  <2>2. map.boundaries[p] = p
    BY <2>1, <1>10
  <2>3. map.boundaries[p + Len(m)] = p + Len(m)
    BY <2>1, <1>10
  <2> QED
    BY <2>1, <2>2, <2>3
<1>12. r.from = p /\ r.to = p + Len(old)
  <2> DEFINE lo == map.boundaries[p]  hi == map.boundaries[p + Len(m)]
  <2>1. r = [from |-> lo, to |-> hi]
    BY <1>5, <1>6, Zenon
  <2> HIDE DEF lo, hi
  <2>2. r.from = lo /\ r.to = hi
    BY <2>1
  <2> QED
    BY <2>2, <1>11 DEF lo, hi
<1> QED
  BY <1>2, <1>3, <1>8, <1>9, <1>12 DEF r, at, t, m

EditIn(files) ==
    [file : DOMAIN files, old : Seq(Characters) \ {<<>>}, new : Seq(Characters), fuzzyIndent : BOOLEAN]

\* A file whose edits the property is about, and edits that were let through.
Edited(files, f, edits) ==
    /\ files \in [DOMAIN files -> Seq(Characters)] /\ f \in DOMAIN files
    /\ edits \in Seq(EditIn(files))
    /\ FoundAsIs(files, f, edits) /\ ~DetectOverlaps(files, edits)

\* What the hypothesis of EditsLand says of the edits of a file.
LEMMA EditFacts ==
  ASSUME NEW files, NEW f, NEW edits, Edited(files, f, edits)
  PROVE  /\ files[f] \in Seq(Characters) /\ Len(edits) \in Nat /\ DOMAIN edits = 1 .. Len(edits)
         /\ \A i \in Here(f, edits) :
              /\ i \in 1 .. Len(edits) /\ edits[i] \in EditIn(files) /\ edits[i].file = f
              /\ edits[i].old \in Seq(Characters) /\ edits[i].old # <<>> /\ edits[i].new \in Seq(Characters)
              /\ ~edits[i].fuzzyIndent /\ ~SelfOverlaps(NormalizeToLF(edits[i].old))
              /\ AsIs(Found(files[f], edits[i].old))
              /\ Region(files, edits[i]) = RegionOf(Found(files[f], edits[i].old))
<1>1. files[f] \in Seq(Characters) /\ edits \in Seq(EditIn(files)) /\ FoundAsIs(files, f, edits)
  BY DEF Edited
<1>2. Len(edits) \in Nat /\ DOMAIN edits = 1 .. Len(edits) /\ \A i \in 1 .. Len(edits) : edits[i] \in EditIn(files)
  BY <1>1
<1>3. ASSUME NEW i \in Here(f, edits)
      PROVE  /\ i \in 1 .. Len(edits) /\ edits[i] \in EditIn(files) /\ edits[i].file = f
             /\ edits[i].old \in Seq(Characters) /\ edits[i].old # <<>> /\ edits[i].new \in Seq(Characters)
             /\ ~edits[i].fuzzyIndent /\ ~SelfOverlaps(NormalizeToLF(edits[i].old))
             /\ AsIs(Found(files[f], edits[i].old))
             /\ Region(files, edits[i]) = RegionOf(Found(files[f], edits[i].old))
  <2>1. i \in 1 .. Len(edits) /\ edits[i].file = f
    BY <1>2 DEF Here
  <2>2. edits[i] \in EditIn(files)
    BY <1>2, <2>1
  <2>3. edits[i].old \in Seq(Characters) /\ edits[i].old # <<>> /\ edits[i].new \in Seq(Characters)
    BY <2>2 DEF EditIn
  <2>4. ~edits[i].fuzzyIndent /\ AsIs(Found(files[f], edits[i].old)) /\ ~SelfOverlaps(NormalizeToLF(edits[i].old))
    BY <1>1, <1>2, <2>1, Zenon DEF FoundAsIs
  <2>5. Region(files, edits[i]) = RegionOf(Found(files[f], edits[i].old))
    BY <2>1, Zenon DEF Region
  <2> QED
    BY <2>1, <2>2, <2>3, <2>4, <2>5
<1> QED
  BY <1>1, <1>2, <1>3

\* Edits of a file have places of their own, one after the other.
LEMMA PlacesApart ==
  ASSUME NEW files, NEW f, NEW edits, Edited(files, f, edits), NEW i \in Here(f, edits), NEW j \in Here(f, edits), i # j
  PROVE  /\ Region(files, edits[i]).from # Region(files, edits[j]).from
         /\ Region(files, edits[i]).from < Region(files, edits[j]).from =>
               Region(files, edits[i]).to <= Region(files, edits[j]).from
<1> DEFINE a == Region(files, edits[i])  b == Region(files, edits[j])
<1>1. /\ i \in DOMAIN edits /\ edits[i].file = f /\ j \in DOMAIN edits /\ edits[j].file = f
      /\ edits[i].old \in Seq(Characters) /\ edits[i].old # <<>> /\ AsIs(Found(files[f], edits[i].old))
      /\ edits[j].old \in Seq(Characters) /\ edits[j].old # <<>> /\ AsIs(Found(files[f], edits[j].old))
      /\ a = RegionOf(Found(files[f], edits[i].old)) /\ b = RegionOf(Found(files[f], edits[j].old))
      /\ files[f] \in Seq(Characters)
  BY EditFacts
<1>2. a.from \in 0 .. Len(files[f]) /\ a.to \in a.from .. Len(files[f]) /\ a.from < a.to
  BY <1>1, RegionFacts
<1>3. b.from \in 0 .. Len(files[f]) /\ b.to \in b.from .. Len(files[f]) /\ b.from < b.to
  BY <1>1, RegionFacts
<1>4. Len(files[f]) \in Nat
  BY <1>1
<1>5. Pair(edits[i]) # Pair(edits[j])
  <2>1. <<edits[j].file, Pair(edits[j])>> # <<f, Pair(edits[i])>>
    BY <1>1, Zenon DEF FoundAsIs, Edited
  <2> QED
    BY <1>1, <2>1, Zenon
<1>6. ~ReachesInto(a, b) /\ ~ReachesInto(b, a)
  <2>1. Different(edits[i], edits[j]) /\ Different(edits[j], edits[i])
    BY <1>1, <1>5, Zenon DEF Different
  <2>2. ~DetectOverlaps(files, edits)
    BY DEF Edited
  <2> QED
    BY <1>1, <2>1, <2>2, Zenon DEF DetectOverlaps
<1> HIDE DEF a, b
<1>7. Nowhere \notin {a.from, b.from}
  BY <1>2, <1>3, <1>4 DEF Nowhere
<1>8. ~(a.from <= b.from /\ b.from < a.to) /\ ~(b.from <= a.from /\ a.from < b.to)
  BY <1>6, <1>7, Zenon DEF ReachesInto
<1>9. a.from # b.from /\ (a.from < b.from => a.to <= b.from)
  BY <1>2, <1>3, <1>4, <1>8
<1> QED
  BY <1>9 DEF a, b

LEMMA SameSize ==
  ASSUME NEW S, NEW T, IsFiniteSet(S), NEW g \in [S -> T],
         \A a, b \in S : g[a] = g[b] => a = b, \A t \in T : \E a \in S : g[a] = t
  PROVE  IsFiniteSet(T) /\ Cardinality(T) = Cardinality(S)
<1>1. g \in Injection(S, T)
  BY DEF Injection, IsInjective
<1>2. g \in Surjection(S, T)
  BY DEF Surjection
<1>3. ExistsBijection(S, T)
  BY <1>1, <1>2 DEF ExistsBijection, Bijection
<1> QED
  BY <1>3, FS_Bijection

\* Things with numbers of their own, in the order of the numbers.
Numbered(here, place, order, n) ==
    /\ order \in [1 .. n -> here] /\ n = Cardinality(here) /\ n \in Nat
    /\ \A k, l \in 1 .. n : k < l => place[order[k]] < place[order[l]]
    /\ \A i \in here : \E k \in 1 .. n : order[k] = i
InNumbers(here, place, S) == [k \in DOMAIN Ascending(S) |-> CHOOSE i \in here : place[i] = Ascending(S)[k]]

LEMMA NumberedFacts ==
  ASSUME NEW here, IsFiniteSet(here), NEW place \in [here -> Nat],
         \A i, j \in here : place[i] = place[j] => i = j,
         NEW S, S = {place[i] : i \in here}
  PROVE  Numbered(here, place, InNumbers(here, place, S), Cardinality(S))
<1> DEFINE A == Ascending(S)  n == Cardinality(S)
           order == [k \in DOMAIN A |-> CHOOSE i \in here : place[i] = A[k]]
<1>1. place \in [here -> S] /\ \A t \in S : \E a \in here : place[a] = t
  OBVIOUS
<1>2. IsFiniteSet(S) /\ n = Cardinality(here)
  BY <1>1, SameSize
<1>3. S \subseteq Nat
  OBVIOUS
<1>4. n \in Nat /\ Orders(S, A)
  BY <1>2, <1>3, AscendingOrders
<1> HIDE DEF A, n
<1>5. A \in [1 .. n -> S] /\ \A i, j \in 1 .. n : i < j => A[i] < A[j]
  BY <1>4 DEF Orders, n
<1>6. ASSUME NEW x \in S PROVE \E k \in 1 .. n : A[k] = x
  BY <1>4 DEF Orders, n
<1>7. DOMAIN A = 1 .. n
  BY <1>5
<1>8. ASSUME NEW k \in 1 .. n PROVE order[k] \in here /\ place[order[k]] = A[k]
  <2> DEFINE Q(i) == i \in here /\ place[i] = A[k]
  <2>1. A[k] \in S
    BY <1>5
  <2>2. PICK a \in here : place[a] = A[k]
    BY <1>1, <2>1
  <2>3. order[k] = CHOOSE i \in here : place[i] = A[k]
    BY <1>7
  <2> QED
    BY <2>2, <2>3
<1>9. order \in [1 .. n -> here]
  BY <1>7, <1>8
<1> HIDE DEF order
<1>10. ASSUME NEW k \in 1 .. n, NEW l \in 1 .. n, k < l PROVE place[order[k]] < place[order[l]]
  BY <1>5, <1>8, <1>10
<1>11. ASSUME NEW i \in here PROVE \E k \in 1 .. n : order[k] = i
  <2>1. place[i] \in S
    BY <1>1
  <2>2. PICK k \in 1 .. n : A[k] = place[i]
    BY <1>6, <2>1
  <2>3. order[k] \in here /\ place[order[k]] = place[i]
    BY <1>8, <2>2
  <2> QED
    BY <2>3
<1>12. Numbered(here, place, order, n)
  BY <1>2, <1>4, <1>9, <1>10, <1>11 DEF Numbered
<1> QED
  BY <1>12, Zenon DEF InNumbers, order, A, n

EditOrder(files, f, edits) == InPlaces(files, edits, Here(f, edits))
PlaceIn(files, f, edits) == [i \in Here(f, edits) |-> Region(files, edits[i]).from]

\* The edits of a file in the order of their places, each once.
LEMMA OrderFacts ==
  ASSUME NEW files, NEW f, NEW edits, Edited(files, f, edits)
  PROVE  LET order == EditOrder(files, f, edits)  n == Cardinality(Here(f, edits)) IN
         /\ Numbered(Here(f, edits), PlaceIn(files, f, edits), order, n)
         /\ n \in Nat /\ DOMAIN order = 1 .. n
<1> DEFINE here == Here(f, edits)
           place == PlaceIn(files, f, edits)
           S == {place[i] : i \in here}
           ByNumber == InNumbers(here, place, S)
           order == EditOrder(files, f, edits)
<1>1. ASSUME NEW i \in here
      PROVE  /\ place[i] = Region(files, edits[i]).from /\ place[i] = PlaceOfEdit(files, edits, i)
             /\ place[i] \in Nat
  <2>1. /\ edits[i].old \in Seq(Characters) /\ edits[i].old # <<>> /\ AsIs(Found(files[f], edits[i].old))
        /\ Region(files, edits[i]) = RegionOf(Found(files[f], edits[i].old)) /\ files[f] \in Seq(Characters)
    BY EditFacts
  <2>2. Region(files, edits[i]).from \in 0 .. Len(files[f])
    BY <2>1, RegionFacts
  <2>3. place[i] = Region(files, edits[i]).from
    BY DEF PlaceIn
  <2> QED
    BY <2>2, <2>3 DEF PlaceOfEdit
<1>2. place \in [here -> Nat]
  BY <1>1 DEF PlaceIn
<1>3. ASSUME NEW i \in here, NEW j \in here, place[i] = place[j] PROVE i = j
  BY <1>1, <1>3, PlacesApart
<1>4. IsFiniteSet(here)
  <2>1. Len(edits) \in Nat /\ here \in SUBSET (1 .. Len(edits))
    BY EditFacts
  <2>2. IsFiniteSet(1 .. Len(edits))
    BY <2>1, FS_Interval
  <2> QED
    BY <2>1, <2>2, FS_Subset
<1> HIDE DEF place, here
<1>5. Numbered(here, place, ByNumber, Cardinality(S))
  <2>1. S = {place[i] : i \in here}
    OBVIOUS
  <2>2. \A i, j \in here : place[i] = place[j] => i = j
    BY <1>3
  <2> HIDE DEF S
  <2> QED
    BY <1>2, <1>4, <2>1, <2>2, NumberedFacts
<1>6. order = ByNumber
  <2>1. {PlaceOfEdit(files, edits, i) : i \in here} = S
    BY <1>1
  <2>3. order = InPlaces(files, edits, here)
    BY DEF EditOrder, here
  <2> DEFINE P == {PlaceOfEdit(files, edits, i) : i \in here}
             Chosen(X, k) == CHOOSE i \in here : PlaceOfEdit(files, edits, i) = Ascending(X)[k]
             G(X) == [k \in DOMAIN Ascending(X) |-> Chosen(X, k)]
  <2>4. InPlaces(files, edits, here) = G(P)
    BY Zenon DEF InPlaces
  <2>5. \A k : Chosen(S, k) = CHOOSE i \in here : place[i] = Ascending(S)[k]
    <3> SUFFICES ASSUME NEW k PROVE Chosen(S, k) = CHOOSE i \in here : place[i] = Ascending(S)[k]
      OBVIOUS
    <3> DEFINE c == Ascending(S)[k]
    <3>1. \A i : (i \in here /\ PlaceOfEdit(files, edits, i) = c) <=> (i \in here /\ place[i] = c)
      <4> HIDE DEF c
      <4> QED
        BY <1>1
    <3> HIDE DEF S
    <3> QED
      BY <3>1, Zenon
  <2>6. G(S) = ByNumber
    <3> HIDE DEF S, Chosen
    <3> QED
      BY <2>5, Zenon DEF InNumbers
  <2>7. G(P) = G(S)
    <3>1. P = S
      BY <2>1
    <3> HIDE DEF P, S
    <3> QED
      BY <3>1
  <2> QED
    BY <2>3, <2>4, <2>6, <2>7, Zenon
<1> HIDE DEF ByNumber, S, order
<1>7. Numbered(here, place, order, Cardinality(S))
  BY <1>5, <1>6
<1>8. Cardinality(S) = Cardinality(here) /\ Cardinality(here) \in Nat /\ order \in [1 .. Cardinality(S) -> here]
  BY <1>7, Zenon DEF Numbered
<1>9. DOMAIN order = 1 .. Cardinality(here)
  BY <1>8
<1> QED
  BY <1>7, <1>8, <1>9 DEF here, place, order

\* The regions of the edits of a file.
AtPlace(s, edit, r) ==
    /\ r.from \in Occurrences(NormalizeToLF(s), NormalizeToLF(edit.old))
    /\ r.from \in 0 .. Len(s) /\ r.to = r.from + Len(edit.old) /\ r.to \in r.from .. Len(s)
    /\ r.new = Replacement(s, r.from, r.to, edit.new)
Layout(files, f, edits, order, R) ==
    /\ Within(Characters, files[f], R)
    /\ Len(R) \in Nat /\ Len(R) = Cardinality(Here(f, edits)) /\ DOMAIN R = 1 .. Len(R)
    /\ order \in [1 .. Len(R) -> Here(f, edits)]
    /\ \A i \in Here(f, edits) : \E k \in 1 .. Len(R) : order[k] = i
    /\ \A k, l \in 1 .. Len(R) : order[k] = order[l] => k = l
    /\ \A k \in 1 .. Len(R) : AtPlace(files[f], edits[order[k]], R[k])

\* They are regions of the file, one for each edit.
LEMMA LayoutFacts ==
  ASSUME NEW files, NEW f, NEW edits, Edited(files, f, edits)
  PROVE  Layout(files, f, edits, EditOrder(files, f, edits), EditsOf(files, f, edits))
<1> DEFINE s == files[f]  here == Here(f, edits)  n == Cardinality(here)  order == EditOrder(files, f, edits)
           place == PlaceIn(files, f, edits)  R == EditsOf(files, f, edits)
           r(k) == Region(files, edits[order[k]])
<1>1. Numbered(here, place, order, n) /\ n \in Nat /\ DOMAIN order = 1 .. n
  BY OrderFacts
<1>2. s \in Seq(Characters) /\ Len(s) \in Nat
  BY EditFacts
<1>3. R = [k \in DOMAIN order |-> Filled(files[edits[order[k]].file], Region(files, edits[order[k]]), edits[order[k]].new)]
  BY Zenon DEF EditsOf, RegionsOf, EditOrder
<1> HIDE DEF order, R, n, s
<1>4. order \in [1 .. n -> here] /\ \A i \in here : \E k \in 1 .. n : order[k] = i
  BY <1>1 DEF Numbered
<1>5. ASSUME NEW k \in 1 .. n
      PROVE  /\ order[k] \in here /\ edits[order[k]].file = f /\ edits[order[k]].new \in Seq(Characters)
             /\ r(k) = RegionOf(Found(s, edits[order[k]].old)) /\ place[order[k]] = r(k).from
             /\ r(k).from \in Occurrences(NormalizeToLF(s), NormalizeToLF(edits[order[k]].old))
             /\ r(k).from \in 0 .. Len(s) /\ r(k).to = r(k).from + Len(edits[order[k]].old) /\ r(k).to \in r(k).from .. Len(s)
             /\ r(k).from < r(k).to
  <2>1. order[k] \in here
    BY <1>4
  <2> DEFINE i == order[k]
  <2> HIDE DEF i
  <2>2. i \in Here(f, edits)
    BY <2>1 DEF i
  <2>3. /\ edits[i].file = f /\ edits[i].new \in Seq(Characters)
        /\ edits[i].old \in Seq(Characters) /\ edits[i].old # <<>> /\ AsIs(Found(s, edits[i].old))
        /\ Region(files, edits[i]) = RegionOf(Found(s, edits[i].old))
    BY <2>2, EditFacts DEF s
  <2>4. LET q == RegionOf(Found(s, edits[i].old)) IN
        /\ q.from \in Occurrences(NormalizeToLF(s), NormalizeToLF(edits[i].old))
        /\ q.from \in 0 .. Len(s) /\ q.to = q.from + Len(edits[i].old) /\ q.to \in q.from .. Len(s)
        /\ q.from < q.to
    BY <1>2, <2>3, RegionFacts
  <2>5. place[i] = Region(files, edits[i]).from
    BY <2>2 DEF PlaceIn
  <2> QED
    BY <2>1, <2>3, <2>4, <2>5 DEF i
<1>6. ASSUME NEW k \in 1 .. n
      PROVE  R[k] = [from |-> r(k).from, to |-> r(k).to,
                     new |-> Replacement(s, r(k).from, r(k).to, edits[order[k]].new)]
  <2>1. R[k] = Filled(files[edits[order[k]].file], r(k), edits[order[k]].new)
    BY <1>1, <1>3
  <2>2. files[edits[order[k]].file] = s
    BY <1>5, Zenon DEF s
  <2> QED
    BY <2>1, <2>2, Zenon DEF Filled
<1>7. ASSUME NEW k \in 1 .. n
      PROVE  /\ R[k].from = r(k).from /\ R[k].to = r(k).to
             /\ R[k].new = Replacement(s, r(k).from, r(k).to, edits[order[k]].new)
             /\ R[k] \in RegionType(Characters)
  <2> DEFINE lo == r(k).from  hi == r(k).to  new == Replacement(s, lo, hi, edits[order[k]].new)
  <2>1. lo \in 0 .. Len(s) /\ hi \in lo .. Len(s) /\ edits[order[k]].new \in Seq(Characters)
    BY <1>5
  <2>2. new \in Seq(Characters)
    <3> HIDE DEF lo, hi
    <3> QED
      BY <1>2, <2>1, ReplacementFacts
  <2>3. R[k] = [from |-> lo, to |-> hi, new |-> new]
    BY <1>6
  <2> HIDE DEF lo, hi, new
  <2>4. lo \in Nat /\ hi \in Nat
    BY <1>2, <2>1
  <2>5. R[k] \in RegionType(Characters)
    BY <2>2, <2>3, <2>4 DEF RegionType
  <2>6. R[k].from = lo /\ R[k].to = hi /\ R[k].new = new
    BY <2>3
  <2> QED
    BY <2>5, <2>6 DEF lo, hi, new
<1>8. R \in Seq(RegionType(Characters)) /\ Len(R) = n /\ DOMAIN R = 1 .. n
  <2>1. R = [k \in 1 .. n |-> R[k]]
    BY <1>1, <1>3
  <2>2. R \in [1 .. n -> RegionType(Characters)]
    BY <1>7, <2>1
  <2> QED
    BY <1>1, <2>2
<1>9. LeftToRight(R)
  <2> SUFFICES ASSUME NEW k \in 1 .. n, NEW l \in 1 .. n, k < l PROVE R[k].to <= R[l].from
    BY <1>8 DEF LeftToRight
  <2>1. place[order[k]] < place[order[l]]
    BY <1>1 DEF Numbered
  <2>2. r(k).from < r(l).from
    BY <1>5, <2>1
  <2>3. order[k] \in Here(f, edits) /\ order[l] \in Here(f, edits)
    BY <1>5
  <2>4. order[k] # order[l]
    <3> SUFFICES ASSUME order[k] = order[l] PROVE FALSE
      OBVIOUS
    <3>1. r(k).from \in Nat /\ r(l).from = r(k).from
      BY <1>2, <1>5
    <3> QED
      BY <2>2, <3>1
  <2>5. r(k).to <= r(l).from
    BY <2>2, <2>3, <2>4, PlacesApart
  <2> HIDE DEF r
  <2> QED
    BY <1>7, <2>5
<1>10. ASSUME NEW k \in 1 .. n PROVE AtPlace(s, edits[order[k]], R[k])
  <2> DEFINE e == edits[order[k]]
  <2>1. R[k].from = r(k).from /\ R[k].to = r(k).to /\ R[k].new = Replacement(s, r(k).from, r(k).to, e.new)
    BY <1>7
  <2>2. /\ r(k).from \in Occurrences(NormalizeToLF(s), NormalizeToLF(e.old))
        /\ r(k).from \in 0 .. Len(s) /\ r(k).to = r(k).from + Len(e.old) /\ r(k).to \in r(k).from .. Len(s)
    BY <1>5
  <2> HIDE DEF r, e
  <2>3. AtPlace(s, e, R[k])
    BY <2>1, <2>2 DEF AtPlace
  <2> QED
    BY <2>3 DEF e
<1>11. Within(Characters, s, R)
  <2>1. ASSUME NEW k \in 1 .. n PROVE R[k].from <= R[k].to /\ R[k].to <= Len(s)
    <3>1. r(k).from \in 0 .. Len(s) /\ r(k).to \in r(k).from .. Len(s) /\ R[k].from = r(k).from /\ R[k].to = r(k).to
      BY <1>5, <1>7
    <3> HIDE DEF r
    <3> QED
      BY <1>2, <3>1
  <2> QED
    BY <1>8, <1>9, <2>1 DEF Within
<1>12. ASSUME NEW k \in 1 .. n, NEW l \in 1 .. n, order[k] = order[l] PROVE k = l
  <2>1. place[order[k]] \in Nat
    BY <1>2, <1>5
  <2>2. ~(k < l) /\ ~(l < k)
    <3>1. k < l => place[order[k]] < place[order[l]]
      BY <1>1 DEF Numbered
    <3>2. l < k => place[order[l]] < place[order[k]]
      BY <1>1 DEF Numbered
    <3> QED
      BY <1>12, <2>1, <3>1, <3>2
  <2> QED
    BY <1>1, <2>2
<1>13. Layout(files, f, edits, order, R)
  BY <1>1, <1>4, <1>8, <1>10, <1>11, <1>12 DEF Layout, s, n
<1> QED
  BY <1>13 DEF order, R

-----------------------------------------------------------------------------
(* multi_edit: one edit.                                                   *)

LEMMA SecondInstead ==
  \A x, m, y, new \in Seq(Characters) :
      Instead(Join(Join(x, m), y), Len(x), Len(x) + Len(m), new) = Join(Join(x, new), y)
<1> SUFFICES ASSUME NEW x \in Seq(Characters), NEW m \in Seq(Characters), NEW y \in Seq(Characters), NEW new \in Seq(Characters)
             PROVE  Instead(Join(Join(x, m), y), Len(x), Len(x) + Len(m), new) = Join(Join(x, new), y)
  OBVIOUS
<1> DEFINE C == Characters
<1> HIDE DEF C
<1>1. x \in Seq(C) /\ m \in Seq(C) /\ y \in Seq(C)
  BY DEF C
<1> QED
  BY <1>1, InsteadOfSecond

LEMMA SecondPart ==
  \A x, m, y \in Seq(Characters) :
      /\ Len(Join(Join(x, m), y)) = Len(x) + Len(m) + Len(y)
      /\ Part(Join(Join(x, m), y), Len(x), Len(x) + Len(m)) = m
<1> SUFFICES ASSUME NEW x \in Seq(Characters), NEW m \in Seq(Characters), NEW y \in Seq(Characters)
             PROVE  /\ Len(Join(Join(x, m), y)) = Len(x) + Len(m) + Len(y)
                    /\ Part(Join(Join(x, m), y), Len(x), Len(x) + Len(m)) = m
  OBVIOUS
<1> DEFINE C == Characters
<1> HIDE DEF C
<1>1. x \in Seq(C) /\ m \in Seq(C) /\ y \in Seq(C)
  BY DEF C
<1>2. /\ Len(Join(Join(x, m), y)) = Len(x) + Len(m) + Len(y)
      /\ Instead(Join(Join(x, m), y), Len(x), Len(x) + Len(m), m) = Join(Join(x, m), y)
      /\ Part(Join(Join(x, m), y), Len(x), Len(x) + Len(m)) = m
  BY <1>1, InsteadOfSecond
<1> QED
  BY <1>2

\* A text occurs where it stands.
LEMMA OccursAt ==
  ASSUME NEW x \in Seq(Characters), NEW m \in Seq(Characters), NEW y \in Seq(Characters)
  PROVE  Len(x) \in Occurrences(NormalizeToLF(Join(Join(x, m), y)), NormalizeToLF(m))
<1> DEFINE nx == NormalizeToLF(x)  nm == NormalizeToLF(m)  ny == NormalizeToLF(y)
           t == NormalizeToLF(Join(Join(x, m), y))
<1>1. nx \in Seq(Characters) /\ nm \in Seq(Characters) /\ ny \in Seq(Characters) /\ Len(nx) = Len(x)
  BY NormalText
<1>2. t = Join(Join(nx, nm), ny)
  <2>1. Join(x, m) \in Seq(Characters)
    BY JoinType
  <2>2. t = Join(NormalizeToLF(Join(x, m)), ny)
    BY <2>1, NormalJoin
  <2>3. NormalizeToLF(Join(x, m)) = Join(nx, nm)
    BY NormalJoin
  <2> QED
    BY <2>2, <2>3
<1> HIDE DEF nx, nm, ny
<1>3. /\ Len(t) = Len(nx) + Len(nm) + Len(ny)
      /\ Part(t, Len(nx), Len(nx) + Len(nm)) = nm
  <2>1. /\ Len(Join(Join(nx, nm), ny)) = Len(nx) + Len(nm) + Len(ny)
        /\ Part(Join(Join(nx, nm), ny), Len(nx), Len(nx) + Len(nm)) = nm
    BY <1>1, SecondPart
  <2> QED
    BY <1>2, <2>1
<1> HIDE DEF t
<1>4. Len(nx) \in 0 .. Len(t) - Len(nm)
  <2>1. Len(nx) \in Nat /\ Len(nm) \in Nat /\ Len(ny) \in Nat
    BY <1>1
  <2> QED
    BY <1>3, <2>1
<1>5. Len(nx) \in Occurrences(t, nm)
  BY <1>3, <1>4, Zenon DEF Occurrences
<1> QED
  BY <1>1, <1>5 DEF t, nm

\* The only one, when it is counted once.
LEMMA OnlyOne ==
  ASSUME NEW S, NEW text \in Seq(S), NEW m \in Seq(S), ~SelfOverlaps(m), ~Again(m, Occurrences(text, m)),
         NEW i \in Occurrences(text, m), NEW j \in Occurrences(text, m)
  PROVE  ~(i < j)
<1> DEFINE L == Len(m)  at == Occurrences(text, m)  d == j - i
<1> SUFFICES ASSUME i < j PROVE FALSE
  OBVIOUS
<1>1. L \in Nat /\ Len(text) \in Nat
  OBVIOUS
<1>2. /\ i \in 0 .. Len(text) /\ i + L \in i .. Len(text) /\ i + L \in 0 .. Len(text) /\ Part(text, i, i + L) = m
      /\ j \in 0 .. Len(text) /\ j + L \in j .. Len(text) /\ j + L \in 0 .. Len(text) /\ Part(text, j, j + L) = m
  BY OccurrenceFacts
<1>3. ~(j >= i + L)
  <2> SUFFICES ASSUME j >= i + L PROVE FALSE
    OBVIOUS
  <2>1. j > i
    BY <1>1, <1>2
  <2> QED
    BY <2>1, Zenon DEF Again
<1>4. d \in 1 .. L - 1 /\ L - d \in 0 .. L /\ d \in 0 .. L /\ L \in d .. L /\ j = i + d /\ d \in Nat
  BY <1>1, <1>2, <1>3
<1>5. \A k \in 1 .. L : m[k] = text[i + k] /\ m[k] = text[j + k]
  <2>1. \A k \in 1 .. (i + L) - i : Part(text, i, i + L)[k] = text[i + k]
    BY <1>2, PartFacts
  <2>2. \A k \in 1 .. (j + L) - j : Part(text, j, j + L)[k] = text[j + k]
    BY <1>2, PartFacts
  <2>3. (i + L) - i = L /\ (j + L) - j = L
    BY <1>1, <1>2
  <2> QED
    BY <1>2, <2>1, <2>2, <2>3
<1> HIDE DEF d, L
<1>6. /\ Part(m, d, L) \in Seq(S) /\ Len(Part(m, d, L)) = L - d /\ \A k \in 1 .. L - d : Part(m, d, L)[k] = m[d + k]
  BY <1>4, PartFacts DEF L
<1>7. /\ Part(m, 0, L - d) \in Seq(S) /\ Len(Part(m, 0, L - d)) = (L - d) - 0
      /\ \A k \in 1 .. (L - d) - 0 : Part(m, 0, L - d)[k] = m[0 + k]
  <2>1. 0 \in 0 .. Len(m) /\ L - d \in 0 .. Len(m)
    BY <1>1, <1>4 DEF L
  <2> QED
    BY <2>1, PartFacts
<1>8. ASSUME NEW k \in 1 .. L - d PROVE Part(m, d, L)[k] = Part(m, 0, L - d)[k]
  <2>1. k \in 1 .. L /\ d + k \in 1 .. L /\ k \in 1 .. (L - d) - 0 /\ 0 + k = k
    BY <1>1, <1>4
  <2>2. i + (d + k) = j + k
    BY <1>2, <1>4
  <2>3. m[d + k] = m[k]
    BY <1>5, <2>1, <2>2
  <2> QED
    BY <1>6, <1>7, <2>1, <2>3
<1>9. Part(m, d, L) = Part(m, 0, L - d)
  <2> DEFINE a == Part(m, d, L)  b == Part(m, 0, L - d)
  <2>1. a \in Seq(S) /\ b \in Seq(S) /\ Len(a) = L - d /\ Len(b) = L - d /\ L - d \in Nat
    BY <1>1, <1>4, <1>6, <1>7
  <2>2. \A k \in 1 .. L - d : a[k] = b[k]
    BY <1>8
  <2> HIDE DEF a, b
  <2>3. Len(a) = Len(b) /\ \A k \in 1 .. Len(a) : a[k] = b[k]
    BY <2>1, <2>2
  <2>4. a = b
    BY <2>1, <2>3, SeqEqual
  <2> QED
    BY <2>4 DEF a, b
<1> QED
  BY <1>4, <1>9, Zenon DEF SelfOverlaps, L

\* The line start that NewTextAt looks for does not matter without fuzzy indentation.
LEMMA ApplyFacts ==
  ASSUME NEW s \in Seq(Characters), NEW edit, edit.old \in Seq(Characters), edit.old # <<>>,
         ~edit.fuzzyIndent, ~SelfOverlaps(NormalizeToLF(edit.old)),
         NEW p \in Occurrences(NormalizeToLF(s), NormalizeToLF(edit.old)),
         ApplyEdit(s, edit) \notin {NotFound, ManyFound}
  PROVE  /\ p \in 0 .. Len(s) /\ p + Len(edit.old) \in p .. Len(s)
         /\ \A q \in Occurrences(NormalizeToLF(s), NormalizeToLF(edit.old)) : q = p
         /\ ApplyEdit(s, edit) = Put(s, p, p + Len(edit.old), edit.new)
<1> DEFINE t == NormalizeToLF(s)  m == NormalizeToLF(edit.old)  at == Occurrences(t, m)  map == MapNormalizedText(s, FALSE)
           f == InMap(map, m, FALSE)
<1>1. t \in Seq(Characters) /\ Len(t) = Len(s) /\ m \in Seq(Characters) /\ Len(m) = Len(edit.old)
  BY NormalText
<1>2. at # {} /\ Found(s, edit.old) = f
  BY FoundFacts
<1>3. f.map.text = t /\ f.match = m /\ f.map = map
  BY DEF InMap, NormalizeToLF
<1>4. ApplyEdit(s, edit) = ApplyFound(s, edit, f, at)
  BY <1>2, <1>3, Zenon DEF ApplyEdit, ApplyIn
<1>5. ApplyFound(s, edit, f, at) = IF Again(m, at) THEN ManyFound ELSE ApplyAt(s, edit, f, LeastOf(at))
  BY <1>2, <1>3, Zenon DEF ApplyFound
<1>6. ~Again(m, at)
  <2> SUFFICES ASSUME Again(m, at) PROVE FALSE
    OBVIOUS
  <2>1. ApplyEdit(s, edit) = ManyFound
    BY <1>4, <1>5, Zenon
  <2> QED
    BY <2>1, Zenon
<1>7. ApplyEdit(s, edit) = ApplyAt(s, edit, f, LeastOf(at))
  BY <1>4, <1>5, <1>6, Zenon
<1>8. at \subseteq Nat
  BY <1>1, OccurrenceFacts
<1>9. ASSUME NEW q \in at PROVE q = p
  <2>1. ~(q < p) /\ ~(p < q)
    BY <1>1, <1>6, OnlyOne
  <2>2. p \in at
    OBVIOUS
  <2> HIDE DEF at
  <2>3. q \in Nat /\ p \in Nat
    BY <1>8, <2>2
  <2> QED
    BY <2>1, <2>3
<1>10. LeastOf(at) = p
  <2>1. LeastOf(at) \in at
    <3> HIDE DEF at
    <3> QED
      BY <1>2, <1>8, LeastOfFacts
  <2> QED
    BY <2>1, <1>9
<1>11. p \in 0 .. Len(t) /\ p + Len(m) \in p .. Len(t) /\ p + Len(m) \in 0 .. Len(t)
  BY <1>1, OccurrenceFacts
<1>12. map.boundaries[p] = p /\ map.boundaries[p + Len(m)] = p + Len(edit.old)
  <2>1. \A k \in 0 .. Len(s) : map.boundaries[k] = k
    BY NormalMap
  <2> HIDE DEF map, m, t
  <2>2. p \in 0 .. Len(s) /\ p + Len(m) \in 0 .. Len(s) /\ p + Len(m) = p + Len(edit.old)
    BY <1>1, <1>11
  <2>3. map.boundaries[p + Len(m)] = p + Len(m)
    BY <2>1, <2>2
  <2> QED
    BY <2>1, <2>2, <2>3
<1>13. \A a, b, c : NewTextAt(edit, a, b, c) = edit.new
  BY Zenon DEF NewTextAt, NewText
<1>14. ApplyAt(s, edit, f, p) = Put(s, p, p + Len(edit.old), edit.new)
  <2>1. ApplyAt(s, edit, f, p) = Put(s, map.boundaries[p], map.boundaries[p + Len(m)], edit.new)
    BY <1>3, <1>13, Zenon DEF ApplyAt
  <2> HIDE DEF map, m
  <2> QED
    BY <1>12, <2>1, Zenon
<1>15. p \in 0 .. Len(s) /\ p + Len(edit.old) \in p .. Len(s)
  BY <1>1, <1>11
<1> QED
  BY <1>7, <1>9, <1>10, <1>14, <1>15, Zenon

\* The line end of what is put in: that of the text, or "lf" once it has lost all of its own.
EndOfNew(s, own, cur) ==
    LET e == DetectLineEnding(s)  put == EndingFor(cur, own) IN
    /\ EndingFor(s, own) = e
    /\ cur \in Seq(Characters \ {Other(e)}) =>
          put = e \/ (e = "crlf" /\ put = "lf" /\ cur \in Seq(Characters \ {"crlf"}))
    /\ e = "crlf" /\ cur \in Seq(Characters \ {"crlf"}) /\ own \in Seq(Characters \ {"crlf"}) => put = "lf"

\* A part with a line end of the text keeps its kind.
LEMMA EndingKept ==
  ASSUME NEW s \in Seq(Characters), OneKindOfLineEnd(s), NEW a \in 0 .. Len(s), NEW b \in a .. Len(s),
         NEW cur \in Seq(Characters)
  PROVE  EndOfNew(s, Part(s, a, b), cur)
<1> DEFINE e == DetectLineEnding(s)  own == Part(s, a, b)  put == EndingFor(cur, own)
<1>1. own \in Seq(Characters)
  BY PartFacts
<1>2. HasLineEnd(own) => DetectLineEnding(own) = e
  BY OneKindFacts
<1> HIDE DEF own
<1>3. /\ HasLineEnd(own) => EndingFor(s, own) = e /\ put = e
      /\ ~HasLineEnd(own) => EndingFor(s, own) = e /\ put = DetectLineEnding(cur)
  BY <1>1, <1>2, EndingFacts
<1>4. e \in {"lf", "crlf"} /\ DetectLineEnding(own) \in {"lf", "crlf"}
  BY <1>1, DetectFacts
<1>5. /\ cur \in Seq(Characters \ {"crlf"}) => DetectLineEnding(cur) = "lf"
      /\ cur \in Seq(Characters \ {"lf"}) /\ ~(cur \in Seq(Characters \ {"crlf"})) => DetectLineEnding(cur) = "crlf"
  BY DetectFacts
<1>6. own \in Seq(Characters \ {"crlf"}) => DetectLineEnding(own) = "lf"
  BY <1>1, DetectFacts
<1> HIDE DEF e, put
<1>7. ASSUME cur \in Seq(Characters \ {Other(e)}), put # e
      PROVE  e = "crlf" /\ put = "lf" /\ cur \in Seq(Characters \ {"crlf"})
  <2>1. put = DetectLineEnding(cur)
    BY <1>3, <1>7
  <2>2. CASE e = "lf"
    <3>1. Other(e) = "crlf"
      BY <2>2 DEF Other
    <3> QED
      BY <1>5, <1>7, <2>1, <2>2, <3>1
  <2>3. CASE e = "crlf"
    <3>1. Other(e) = "lf"
      BY <2>3 DEF Other
    <3> QED
      BY <1>5, <1>7, <2>1, <2>3, <3>1
  <2> QED
    BY <1>4, <2>2, <2>3
<1>8. ASSUME e = "crlf", cur \in Seq(Characters \ {"crlf"}), own \in Seq(Characters \ {"crlf"}) PROVE put = "lf"
  BY <1>2, <1>3, <1>5, <1>6, <1>8
<1> QED
  BY <1>3, <1>7, <1>8, Zenon DEF EndOfNew, e, own, put

\* A region with another new text.
WithNew(Q, k, new) == [Q EXCEPT ![k] = [from |-> Q[k].from, to |-> Q[k].to, new |-> new]]

LEMMA WithNewFacts ==
  ASSUME NEW S, NEW s \in Seq(S), NEW Q, Within(S, s, Q), NEW k \in 1 .. Len(Q), NEW new \in Seq(S)
  PROVE  /\ Within(S, s, WithNew(Q, k, new)) /\ SamePlaces(WithNew(Q, k, new), Q)
         /\ WithNew(Q, k, new)[k].new = new
         /\ \A i \in 1 .. Len(Q) : i # k => WithNew(Q, k, new)[i].new = Q[i].new
<1> DEFINE P == WithNew(Q, k, new)  r == [from |-> Q[k].from, to |-> Q[k].to, new |-> new]  n == Len(Q)
<1>1. Q \in Seq(RegionType(S)) /\ LeftToRight(Q) /\ \A i \in 1 .. n : Q[i].from <= Q[i].to /\ Q[i].to <= Len(s)
  BY DEF Within
<1>2. n \in Nat /\ DOMAIN Q = 1 .. n /\ Q[k] \in RegionType(S)
  BY <1>1
<1>3. r \in RegionType(S) /\ r.from = Q[k].from /\ r.to = Q[k].to /\ r.new = new
  <2>1. Q[k].from \in Nat /\ Q[k].to \in Nat
    BY <1>2 DEF RegionType
  <2> DEFINE lo == Q[k].from  hi == Q[k].to
  <2>2. lo \in Nat /\ hi \in Nat
    BY <2>1
  <2> HIDE DEF lo, hi
  <2>3. [from |-> lo, to |-> hi, new |-> new] \in RegionType(S)
    BY <2>2 DEF RegionType
  <2> QED
    BY <2>3 DEF lo, hi
<1>4. P = [Q EXCEPT ![k] = r]
  BY DEF WithNew
<1> HIDE DEF r, P, n
<1>5. P \in Seq(RegionType(S)) /\ Len(P) = n /\ DOMAIN P = 1 .. n /\ P[k] = r /\ \A i \in 1 .. n : i # k => P[i] = Q[i]
  <2>1. P[k] = r /\ DOMAIN P = 1 .. n /\ \A i \in 1 .. n : i # k => P[i] = Q[i]
    BY <1>2, <1>4 DEF n
  <2>2. P \in Seq(RegionType(S))
    BY <1>1, <1>3, <1>4, ExceptSeq DEF n
  <2>3. Len(P) = n
    BY <1>2, <2>1, <2>2
  <2> QED
    BY <2>1, <2>2, <2>3
<1>6. ASSUME NEW i \in 1 .. n PROVE P[i].from = Q[i].from /\ P[i].to = Q[i].to
  BY <1>3, <1>5
<1>7. LeftToRight(P)
  BY <1>1, <1>2, <1>5, <1>6 DEF LeftToRight
<1>8. Within(S, s, P)
  BY <1>1, <1>5, <1>6, <1>7 DEF Within
<1>9. SamePlaces(P, Q)
  BY <1>5, <1>6 DEF SamePlaces, n
<1>10. P[k].new = new /\ \A i \in 1 .. n : i # k => P[i].new = Q[i].new
  BY <1>3, <1>5
<1> QED
  BY <1>8, <1>9, <1>10 DEF P, n

-----------------------------------------------------------------------------
(* multi_edit: some of the edits of a file done, in whatever order.        *)

\* The regions D have their new texts, the others what was there before.  Of
\* one kind of line end a text keeps the kind, or loses the last of them.
KeptEnd(s, R, D, Q, cur) ==
    cur \in Seq(Characters \ {Other(DetectLineEnding(s))}) /\ \A k \in D : Q[k].new = R[k].new
LostEnd(s, cur) == DetectLineEnding(s) = "crlf" /\ cur \in Seq(Characters \ {"crlf"})
Progress(s, R, D, Q, cur) ==
    /\ Within(Characters, s, Q) /\ SamePlaces(Q, R) /\ cur = AtOnce(s, Q)
    /\ \A k \in D : NormalizeToLF(Q[k].new) = NormalizeToLF(R[k].new)
    /\ \A k \in 1 .. Len(R) : k \notin D => Q[k].new = Part(s, R[k].from, R[k].to)
    /\ OneKindOfLineEnd(s) => KeptEnd(s, R, D, Q, cur) \/ LostEnd(s, cur)

\* A piece of the text that an edit asks for.
Piece(own, edit) == NormalizeToLF(own) = NormalizeToLF(edit.old) /\ Len(own) = Len(edit.old)

LEMMA PieceFacts ==
  ASSUME NEW s \in Seq(Characters), NEW edit, edit.old \in Seq(Characters), NEW r, AtPlace(s, edit, r)
  PROVE  LET own == Part(s, r.from, r.to) IN
         own \in Seq(Characters) /\ Piece(own, edit)
<1> DEFINE a == r.from  b == r.to  own == Part(s, a, b)  t == NormalizeToLF(s)  m == NormalizeToLF(edit.old)
<1>1. a \in Occurrences(t, m) /\ a \in 0 .. Len(s) /\ b = a + Len(edit.old) /\ b \in a .. Len(s)
  BY DEF AtPlace
<1>2. t \in Seq(Characters) /\ m \in Seq(Characters) /\ Len(m) = Len(edit.old) /\ Len(edit.old) \in Nat
  <2> DEFINE old == edit.old
  <2>1. old \in Seq(Characters)
    OBVIOUS
  <2> HIDE DEF old
  <2>2. NormalizeToLF(old) \in Seq(Characters) /\ Len(NormalizeToLF(old)) = Len(old)
    BY <2>1, NormalText
  <2>4. Len(old) \in Nat
    BY <2>1
  <2>3. t \in Seq(Characters)
    BY NormalText
  <2> QED
    BY <2>2, <2>3, <2>4 DEF old
<1> HIDE DEF a, b, t, m
<1>3. Part(t, a, a + Len(m)) = m
  BY <1>1, <1>2, OccurrenceFacts
<1>4. own \in Seq(Characters) /\ Len(own) = b - a
  BY <1>1, PartFacts
<1>5. NormalizeToLF(own) = Part(t, a, b)
  BY <1>1, NormalPart DEF t
<1>6. Len(own) = Len(edit.old) /\ NormalizeToLF(own) = m
  BY <1>1, <1>2, <1>3, <1>4, <1>5
<1> QED
  BY <1>4, <1>6 DEF own, a, b, m, Piece

\* Where a piece of the text stands now: at the only place where it is found.
LEMMA PutAt ==
  ASSUME NEW s \in Seq(Characters), NEW edit, edit.old \in Seq(Characters), edit.old # <<>>, edit.new \in Seq(Characters),
         ~edit.fuzzyIndent, ~SelfOverlaps(NormalizeToLF(edit.old)),
         NEW own \in Seq(Characters), Piece(own, edit),
         NEW Q, Within(Characters, s, Q), NEW k \in 1 .. Len(Q), Q[k].new = own,
         NEW cur \in Seq(Characters), cur = AtOnce(s, Q),
         ApplyEdit(cur, edit) \notin {NotFound, ManyFound}
  PROVE  \E p \in 0 .. Len(cur) :
            LET q == p + Len(own)  new == Replacement(cur, p, q, edit.new) IN
            /\ q \in p .. Len(cur) /\ Part(cur, p, q) = own
            /\ ApplyEdit(cur, edit) = Put(cur, p, q, edit.new)
            /\ Instead(cur, p, q, new) = AtOnce(s, WithNew(Q, k, new))
<1> DEFINE m == NormalizeToLF(edit.old)  at == Occurrences(NormalizeToLF(cur), m)
<1>1. ASSUME NEW x \in Seq(Characters), NEW y \in Seq(Characters), cur = Join(Join(x, own), y)
      PROVE  Len(x) \in at
  <2>1. Len(x) \in Occurrences(NormalizeToLF(Join(Join(x, own), y)), NormalizeToLF(own))
    BY OccursAt
  <2> QED
    BY <1>1, <2>1 DEF Piece
<1>2. ASSUME NEW new \in Seq(Characters)
      PROVE  \E x \in Seq(Characters) : \E y \in Seq(Characters) :
                AtOnce(s, WithNew(Q, k, new)) = Join(Join(x, new), y) /\ cur = Join(Join(x, own), y)
  <2> DEFINE P == WithNew(Q, k, new)
  <2>1. Within(Characters, s, P) /\ SamePlaces(P, Q) /\ P[k].new = new /\ \A i \in 1 .. Len(Q) : i # k => P[i].new = Q[i].new
    BY WithNewFacts
  <2> HIDE DEF P
  <2>2. Len(P) = Len(Q)
    BY <2>1 DEF SamePlaces
  <2>3. Around(Characters, s, P, Q, k)
    BY <2>1, <2>2, SwapOne
  <2> QED
    BY <2>1, <2>3 DEF Around, P
<1>3. PICK p : p \in at
  <2>1. PICK x \in Seq(Characters) : \E y \in Seq(Characters) : cur = Join(Join(x, own), y)
    BY <1>2
  <2>2. PICK y \in Seq(Characters) : cur = Join(Join(x, own), y)
    BY <2>1
  <2> QED
    BY <1>1, <2>2
<1> DEFINE q == p + Len(own)  new == Replacement(cur, p, q, edit.new)
<1>4. /\ p \in 0 .. Len(cur) /\ p + Len(edit.old) \in p .. Len(cur)
      /\ \A l \in at : l = p
      /\ ApplyEdit(cur, edit) = Put(cur, p, p + Len(edit.old), edit.new)
  BY <1>3, ApplyFacts
<1>5. q \in p .. Len(cur) /\ ApplyEdit(cur, edit) = Put(cur, p, q, edit.new)
  BY <1>4 DEF Piece
<1>6. PICK put \in Seq(Characters) : put = new
  <2>1. new \in Seq(Characters)
    BY <1>4, <1>5, ReplacementFacts
  <2> HIDE DEF new
  <2> QED
    BY <2>1
<1> HIDE DEF at, new
<1>7. PICK x \in Seq(Characters) : \E y \in Seq(Characters) :
         AtOnce(s, WithNew(Q, k, put)) = Join(Join(x, put), y) /\ cur = Join(Join(x, own), y)
  BY <1>2, <1>6
<1>8. PICK y \in Seq(Characters) :
         AtOnce(s, WithNew(Q, k, put)) = Join(Join(x, put), y) /\ cur = Join(Join(x, own), y)
  BY <1>7
<1>9. Len(x) = p
  BY <1>1, <1>4, <1>8

<1>10. Instead(Join(Join(x, own), y), Len(x), Len(x) + Len(own), put) = Join(Join(x, put), y)
       /\ Part(Join(Join(x, own), y), Len(x), Len(x) + Len(own)) = own
  <2>1. Instead(Join(Join(x, own), y), Len(x), Len(x) + Len(own), put) = Join(Join(x, put), y)
    BY SecondInstead
  <2>2. Part(Join(Join(x, own), y), Len(x), Len(x) + Len(own)) = own
    BY SecondPart
  <2> QED
    BY <2>1, <2>2
<1>11. Instead(cur, p, q, new) = AtOnce(s, WithNew(Q, k, new)) /\ Part(cur, p, q) = own
  BY <1>6, <1>8, <1>9, <1>10
<1> QED
  BY <1>4, <1>5, <1>11 DEF new

\* Before the first edit.
LEMMA ProgressBegins ==
  ASSUME NEW s \in Seq(Characters), NEW R, Within(Characters, s, R)
  PROVE  \E Q : Progress(s, R, {}, Q, s)
<1> DEFINE n == Len(R)
           Q == [k \in 1 .. n |-> [from |-> R[k].from, to |-> R[k].to, new |-> Part(s, R[k].from, R[k].to)]]
<1>1. /\ R \in Seq(RegionType(Characters)) /\ LeftToRight(R) /\ n \in Nat /\ DOMAIN R = 1 .. n
      /\ \A k \in 1 .. n : R[k].from <= R[k].to /\ R[k].to <= Len(s)
  BY DEF Within
<1>2. ASSUME NEW k \in 1 .. n
      PROVE  /\ Q[k].from = R[k].from /\ Q[k].to = R[k].to /\ Q[k].new = Part(s, R[k].from, R[k].to)
             /\ Q[k] \in RegionType(Characters)
  <2> DEFINE lo == R[k].from  hi == R[k].to  new == Part(s, lo, hi)
  <2>1. lo \in Nat /\ hi \in Nat /\ lo <= hi /\ hi <= Len(s)
    BY WithinFacts
  <2>2. Q[k] = [from |-> lo, to |-> hi, new |-> new]
    OBVIOUS
  <2> HIDE DEF Q, lo, hi
  <2>3. lo \in 0 .. Len(s) /\ hi \in lo .. Len(s)
    BY <2>1
  <2>4. new \in Seq(Characters)
    BY <2>3, PartFacts
  <2> HIDE DEF new
  <2>5. Q[k] \in RegionType(Characters)
    BY <2>1, <2>2, <2>4 DEF RegionType
  <2>6. Q[k].from = lo /\ Q[k].to = hi /\ Q[k].new = new
    BY <2>2
  <2> QED
    BY <2>5, <2>6 DEF lo, hi, new
<1>3. DOMAIN Q = 1 .. n /\ Q = [k \in 1 .. n |-> Q[k]]
  OBVIOUS
<1> HIDE DEF Q
<1>4. Q \in Seq(RegionType(Characters)) /\ Len(Q) = n
  <2>1. Q \in [1 .. n -> RegionType(Characters)]
    BY <1>2, <1>3
  <2> QED
    BY <1>1, <2>1
<1>5. SamePlaces(Q, R)
  BY <1>2, <1>4 DEF SamePlaces
<1>6. Within(Characters, s, Q)
  <2>1. LeftToRight(Q)
    BY <1>1, <1>2, <1>3 DEF LeftToRight
  <2>2. \A k \in 1 .. Len(Q) : Q[k].from <= Q[k].to /\ Q[k].to <= Len(s)
    BY <1>1, <1>2, <1>4
  <2> QED
    BY <1>4, <2>1, <2>2 DEF Within
<1>7. AtOnce(s, Q) = s
  <2>1. \A k \in 1 .. Len(Q) : Q[k].new = Part(s, Q[k].from, Q[k].to)
    BY <1>2, <1>4
  <2> QED
    BY <1>6, <2>1, AllAsTheyWere
<1>8. ASSUME OneKindOfLineEnd(s) PROVE KeptEnd(s, R, {}, Q, s)
  BY <1>8, OneKindFacts DEF KeptEnd
<1>9. \A k \in 1 .. n : Q[k].new = Part(s, R[k].from, R[k].to)
  BY <1>2
<1> QED
  BY <1>5, <1>6, <1>7, <1>8, <1>9 DEF Progress

LEMMA InsteadOver ==
  ASSUME NEW cur \in Seq(Characters), NEW p \in 0 .. Len(cur), NEW q \in p .. Len(cur), NEW c, NEW new,
         cur \in Seq(Characters \ {c}), new \in Seq(Characters \ {c})
  PROVE  Instead(cur, p, q, new) \in Seq(Characters \ {c})
<1> DEFINE S == Characters \ {c}
<1>1. cur \in Seq(S) /\ new \in Seq(S) /\ p \in 0 .. Len(cur) /\ q \in p .. Len(cur)
  OBVIOUS
<1> HIDE DEF S
<1>2. Instead(cur, p, q, new) \in Seq(S)
  BY <1>1, InsteadType
<1> QED
  BY <1>2 DEF S

LEMMA PartOver ==
  ASSUME NEW S, NEW s \in Seq(S), NEW p \in 0 .. Len(s), NEW q \in p .. Len(s)
  PROVE  Part(s, p, q) \in Seq(S)
BY PartFacts

\* One more edit: the kind stays, or the last of the line ends goes.
LEMMA LineEndStep ==
  ASSUME NEW s \in Seq(Characters), OneKindOfLineEnd(s), NEW edit, edit.old \in Seq(Characters), edit.new \in Seq(Characters),
         NEW r, AtPlace(s, edit, r),
         NEW cur \in Seq(Characters), NEW p \in 0 .. Len(cur), NEW q \in p .. Len(cur),
         Part(cur, p, q) = Part(s, r.from, r.to)
  PROVE  LET e == DetectLineEnding(s)  new == Replacement(cur, p, q, edit.new)  t == Instead(cur, p, q, new) IN
         /\ cur \in Seq(Characters \ {Other(e)}) =>
               (new = r.new /\ t \in Seq(Characters \ {Other(e)})) \/ LostEnd(s, t)
         /\ LostEnd(s, cur) => LostEnd(s, t)
<1> DEFINE e == DetectLineEnding(s)  a == r.from  b == r.to  own == Part(s, a, b)  put == EndingFor(cur, own)
           new == Replacement(cur, p, q, edit.new)  t == Instead(cur, p, q, new)  text == edit.new
           With(ending) == RestoreLineEndings(NormalizeToLF(text), ending)
<1>1. a \in 0 .. Len(s) /\ b \in a .. Len(s) /\ r.new = Replacement(s, a, b, text) /\ text \in Seq(Characters)
  BY DEF AtPlace
<1>2. e \in {"lf", "crlf"}
  BY DetectFacts
<1>3. /\ EndingFor(s, own) = e
      /\ cur \in Seq(Characters \ {Other(e)}) =>
            put = e \/ (e = "crlf" /\ put = "lf" /\ cur \in Seq(Characters \ {"crlf"}))
      /\ e = "crlf" /\ cur \in Seq(Characters \ {"crlf"}) /\ own \in Seq(Characters \ {"crlf"}) => put = "lf"
  <2> HIDE DEF a, b
  <2>1. EndOfNew(s, own, cur)
    BY <1>1, EndingKept
  <2> QED
    BY <2>1, Zenon DEF EndOfNew
<1>4. new = With(put)
  <2>1. Replacement(cur, p, q, text) = RestoreLineEndings(NormalizeToLF(text), EndingFor(cur, Part(cur, p, q)))
    BY <1>1, ReplacementFacts
  <2> QED
    BY <2>1
<1>5. r.new = With(e)
  <2>1. Replacement(s, a, b, text) = RestoreLineEndings(NormalizeToLF(text), EndingFor(s, own))
    <3> HIDE DEF a, b, text
    <3> QED
      BY <1>1, ReplacementFacts
  <2> QED
    BY <1>1, <1>3, <2>1
<1> HIDE DEF text, put, new, e
<1>6. ASSUME NEW ending \in {"lf", "crlf"}, NEW c \in LineEnds, c # ending PROVE With(ending) \in Seq(Characters \ {c})
  BY <1>1, <1>6, RestoredText
<1> HIDE DEF With, own
<1>7. "lf" \in LineEnds /\ "crlf" \in LineEnds /\ Other(e) \in LineEnds /\ Other(e) # e
  BY <1>2 DEF LineEnds, Other
<1>8. ASSUME cur \in Seq(Characters \ {"crlf"}), e = "crlf", put = "lf" PROVE LostEnd(s, t)
  <2>1. new \in Seq(Characters \ {"crlf"})
    BY <1>4, <1>6, <1>7, <1>8
  <2>2. t \in Seq(Characters \ {"crlf"})
    BY <1>8, <2>1, InsteadOver
  <2> QED
    BY <1>8, <2>2 DEF LostEnd, e
<1>9. ASSUME cur \in Seq(Characters \ {Other(e)}), put = e PROVE new = r.new /\ t \in Seq(Characters \ {Other(e)})
  <2>1. new \in Seq(Characters \ {Other(e)})
    BY <1>2, <1>4, <1>6, <1>7, <1>9
  <2>2. t \in Seq(Characters \ {Other(e)})
    BY <1>9, <2>1, InsteadOver
  <2> QED
    BY <1>4, <1>5, <1>9, <2>2
<1>10. ASSUME cur \in Seq(Characters \ {Other(e)})
       PROVE  (new = r.new /\ t \in Seq(Characters \ {Other(e)})) \/ LostEnd(s, t)
  BY <1>3, <1>8, <1>9, <1>10
<1>11. ASSUME LostEnd(s, cur) PROVE LostEnd(s, t)
  <2>1. cur \in Seq(Characters \ {"crlf"}) /\ e = "crlf"
    BY <1>11 DEF LostEnd, e
  <2>2. own \in Seq(Characters \ {"crlf"})
    <3>1. Part(cur, p, q) \in Seq(Characters \ {"crlf"})
      BY <2>1, PartOver
    <3> QED
      BY <3>1 DEF own
  <2>3. put = "lf"
    BY <1>3, <2>1, <2>2
  <2> QED
    BY <1>8, <2>1, <2>3
<1> QED
  BY <1>10, <1>11 DEF e, new

LEMMA AtPlaceNew ==
  ASSUME NEW s \in Seq(Characters), NEW edit, edit.new \in Seq(Characters), NEW r, AtPlace(s, edit, r)
  PROVE  NormalizeToLF(r.new) = NormalizeToLF(edit.new) /\ r.new \in Seq(Characters)
<1> DEFINE a == r.from  b == r.to  new == edit.new
<1>1. a \in 0 .. Len(s) /\ b \in a .. Len(s) /\ r.new = Replacement(s, a, b, new) /\ new \in Seq(Characters)
  BY DEF AtPlace
<1> HIDE DEF a, b, new
<1>2. Replacement(s, a, b, new) \in Seq(Characters) /\ NormalizeToLF(Replacement(s, a, b, new)) = NormalizeToLF(new)
  BY <1>1, ReplacementFacts
<1> QED
  BY <1>1, <1>2 DEF new

\* One more edit is found where it belongs, and only there, whichever
\* edits were done before.
LEMMA ProgressStep ==
  ASSUME NEW s \in Seq(Characters), NEW R, Within(Characters, s, R), NEW D, D \subseteq 1 .. Len(R), NEW Q, NEW cur, Progress(s, R, D, Q, cur),
         NEW k \in 1 .. Len(R), k \notin D,
         NEW edit, edit.old \in Seq(Characters), edit.old # <<>>, edit.new \in Seq(Characters),
         ~edit.fuzzyIndent, ~SelfOverlaps(NormalizeToLF(edit.old)), AtPlace(s, edit, R[k]),
         ApplyEdit(cur, edit) \notin {NotFound, ManyFound}
  PROVE  \E P : Progress(s, R, D \cup {k}, P, ApplyEdit(cur, edit).text)
<1> DEFINE own == Part(s, R[k].from, R[k].to)  n == Len(R)
<1>1. /\ Within(Characters, s, Q) /\ SamePlaces(Q, R) /\ cur = AtOnce(s, Q)
      /\ \A i \in D : NormalizeToLF(Q[i].new) = NormalizeToLF(R[i].new)
      /\ \A i \in 1 .. n : i \notin D => Q[i].new = Part(s, R[i].from, R[i].to)
      /\ OneKindOfLineEnd(s) => KeptEnd(s, R, D, Q, cur) \/ LostEnd(s, cur)
  BY DEF Progress
<1>2. own \in Seq(Characters) /\ Piece(own, edit)
  BY PieceFacts
<1>3. Q[k].new = own /\ Len(Q) = n /\ k \in 1 .. Len(Q) /\ n \in Nat
  <2>1. Len(Q) = n
    BY <1>1 DEF SamePlaces
  <2>2. n \in Nat
    BY WithinFacts
  <2> QED
    BY <1>1, <2>1, <2>2
<1>4. cur \in Seq(Characters)
  BY <1>1, AtOnceType
<1> HIDE DEF own
<1>5. PICK p \in 0 .. Len(cur) :
         LET q == p + Len(own)  new == Replacement(cur, p, q, edit.new) IN
         /\ q \in p .. Len(cur) /\ Part(cur, p, q) = own
         /\ ApplyEdit(cur, edit) = Put(cur, p, q, edit.new)
         /\ Instead(cur, p, q, new) = AtOnce(s, WithNew(Q, k, new))
  BY <1>1, <1>2, <1>3, <1>4, PutAt
<1> DEFINE q == p + Len(own)  new == Replacement(cur, p, q, edit.new)  P == WithNew(Q, k, new)  t == Instead(cur, p, q, new)
<1>6. q \in p .. Len(cur) /\ Part(cur, p, q) = own /\ t = AtOnce(s, P)
  BY <1>5
<1>7. ApplyEdit(cur, edit).text = t
  <2>1. ApplyEdit(cur, edit) = Put(cur, p, q, edit.new)
    BY <1>5
  <2>2. Put(cur, p, q, edit.new).text = t
    BY Zenon DEF Put
  <2> QED
    BY <2>1, <2>2, Zenon
<1> HIDE DEF q
<1>8. new \in Seq(Characters) /\ NormalizeToLF(new) = NormalizeToLF(edit.new)
  BY <1>4, <1>6, ReplacementFacts
<1>9. NormalizeToLF(R[k].new) = NormalizeToLF(edit.new)
  BY AtPlaceNew
<1>10. OneKindOfLineEnd(s) =>
        LET e == DetectLineEnding(s) IN
         /\ cur \in Seq(Characters \ {Other(e)}) =>
               (new = R[k].new /\ t \in Seq(Characters \ {Other(e)})) \/ LostEnd(s, t)
         /\ LostEnd(s, cur) => LostEnd(s, t)
  BY <1>4, <1>6, LineEndStep DEF own
<1> HIDE DEF new, t
<1>11. /\ Within(Characters, s, P) /\ SamePlaces(P, Q) /\ P[k].new = new
       /\ \A i \in 1 .. Len(Q) : i # k => P[i].new = Q[i].new
  BY <1>1, <1>3, <1>8, WithNewFacts
<1> HIDE DEF P
<1>12. SamePlaces(P, R)
  BY <1>1, <1>11 DEF SamePlaces
<1>13. ASSUME NEW i \in D \cup {k} PROVE NormalizeToLF(P[i].new) = NormalizeToLF(R[i].new)
  <2>1. CASE i = k
    BY <1>8, <1>9, <1>11, <2>1
  <2>2. CASE i # k
    <3>1. i \in D /\ i \in 1 .. Len(Q)
      BY <1>3, <2>2
    <3>2. P[i].new = Q[i].new
      BY <1>11, <2>2, <3>1
    <3> QED
      BY <1>1, <3>1, <3>2
  <2> QED
    BY <2>1, <2>2
<1>14. ASSUME NEW i \in 1 .. n, i \notin D \cup {k} PROVE P[i].new = Part(s, R[i].from, R[i].to)
  <2>1. i # k /\ i \notin D /\ i \in 1 .. Len(Q)
    BY <1>3, <1>14
  <2>2. P[i].new = Q[i].new
    BY <1>11, <2>1
  <2> QED
    BY <1>1, <2>1, <2>2
<1>15. ASSUME OneKindOfLineEnd(s) PROVE KeptEnd(s, R, D \cup {k}, P, t) \/ LostEnd(s, t)
  <2>1. CASE LostEnd(s, cur)
    BY <1>10, <1>15, <2>1
  <2>2. CASE KeptEnd(s, R, D, Q, cur)
    <3> DEFINE e == DetectLineEnding(s)
    <3>1. cur \in Seq(Characters \ {Other(e)}) /\ \A i \in D : Q[i].new = R[i].new
      BY <2>2 DEF KeptEnd
    <3>2. (new = R[k].new /\ t \in Seq(Characters \ {Other(e)})) \/ LostEnd(s, t)
      BY <1>10, <1>15, <3>1
    <3>3. ASSUME new = R[k].new, NEW i \in D \cup {k} PROVE P[i].new = R[i].new
      <4>1. CASE i = k
        BY <1>11, <3>3, <4>1
      <4>2. CASE i # k
        <5>1. i \in D /\ i \in 1 .. Len(Q)
          BY <1>3, <4>2
        <5>2. P[i].new = Q[i].new
          BY <1>11, <4>2, <5>1
        <5> QED
          BY <3>1, <5>1, <5>2
      <4> QED
        BY <4>1, <4>2
    <3> QED
      BY <3>2, <3>3 DEF KeptEnd
  <2> QED
    BY <1>1, <1>15, <2>1, <2>2
<1>16. Progress(s, R, D \cup {k}, P, t)
  BY <1>6, <1>11, <1>12, <1>13, <1>14, <1>15 DEF Progress
<1> QED
  BY <1>7, <1>16

\* When all are done.
LEMMA ProgressEnds ==
  ASSUME NEW s \in Seq(Characters), NEW R, Within(Characters, s, R), NEW Q, NEW cur, Progress(s, R, 1 .. Len(R), Q, cur)
  PROVE  LandApart(s, cur, R)
<1> DEFINE n == Len(R)
<1>1. /\ Within(Characters, s, Q) /\ SamePlaces(Q, R) /\ cur = AtOnce(s, Q)
      /\ \A i \in 1 .. n : NormalizeToLF(Q[i].new) = NormalizeToLF(R[i].new)
      /\ OneKindOfLineEnd(s) => KeptEnd(s, R, 1 .. n, Q, cur) \/ LostEnd(s, cur)
  BY DEF Progress
<1>2. Len(Q) = n /\ n \in Nat
  BY <1>1, WithinFacts DEF SamePlaces
<1>3. NormalizeToLF(cur) = NormalizeToLF(AtOnce(s, R))
  <2>1. \A i \in 1 .. Len(Q) : NormalizeToLF(Q[i].new) = NormalizeToLF(R[i].new)
    BY <1>1, <1>2
  <2> QED
    BY <1>1, <2>1, NormalAtOnce
<1>4. cur \in Seq(Characters)
  BY <1>1, AtOnceType
<1>5. ASSUME OneKindOfLineEnd(s), DetectLineEnding(s) = DetectLineEnding(cur) PROVE cur = AtOnce(s, R)
  <2>1. ~LostEnd(s, cur)
    <3> SUFFICES ASSUME LostEnd(s, cur) PROVE FALSE
      OBVIOUS
    <3>1. cur \in Seq(Characters \ {"crlf"}) /\ DetectLineEnding(s) = "crlf"
      BY DEF LostEnd
    <3>2. DetectLineEnding(cur) = "lf"
      BY <1>4, <3>1, DetectFacts
    <3> QED
      BY <1>5, <3>1, <3>2
  <2>2. \A i \in 1 .. n : Q[i].new = R[i].new
    BY <1>1, <1>5, <2>1 DEF KeptEnd
  <2>3. Q = R
    <3>1. Q \in Seq(RegionType(Characters)) /\ R \in Seq(RegionType(Characters))
      BY <1>1 DEF Within
    <3>2. ASSUME NEW i \in 1 .. n PROVE Q[i] = R[i]
      <4>1. Q[i] \in RegionType(Characters) /\ R[i] \in RegionType(Characters)
        BY <1>2, <3>1
      <4>2. Q[i].from = R[i].from /\ Q[i].to = R[i].to /\ Q[i].new = R[i].new
        BY <1>1, <1>2, <2>2 DEF SamePlaces
      <4> QED
        BY <4>1, <4>2 DEF RegionType
    <3> HIDE DEF n
    <3>3. Len(Q) = Len(R) /\ \A i \in 1 .. Len(Q) : Q[i] = R[i]
      BY <1>2, <3>2 DEF n
    <3> DEFINE T == RegionType(Characters)
    <3> HIDE DEF T
    <3>4. Q \in Seq(T) /\ R \in Seq(T)
      BY <3>1 DEF T
    <3> QED
      BY <3>3, <3>4, SeqEqual
  <2> QED
    BY <1>1, <2>3
<1> QED
  BY <1>3, <1>5 DEF LandApart, Within

\* What is done of the edits of a file: those that are not still to be done.
AppliedTo(files, f, edits, pairs) ==
    {k \in 1 .. Len(EditsOf(files, f, edits)) : <<f, Pair(edits[EditOrder(files, f, edits)[k]])>> \in pairs}
OnTheWay(files, f, edits, text, pairs) ==
    \E Q : Progress(files[f], EditsOf(files, f, edits), AppliedTo(files, f, edits, pairs), Q, text)
Accounted(f, edits, todo, pairs) ==
    \A i \in Here(f, edits) : (<<f, Pair(edits[i])>> \in pairs) <=> (\A j \in 1 .. Len(todo) : todo[j] # edits[i])
FileDone(files, f, edits, text, todo, pairs) ==
    OnTheWay(files, f, edits, text, pairs) /\ Accounted(f, edits, todo, pairs)

\* At the start nothing of the file is done.
LEMMA FileBegins ==
  ASSUME NEW files, NEW f, NEW edits, Edited(files, f, edits), NEW todo, SortedTo(edits, f, Len(edits), todo)
  PROVE  FileDone(files, f, edits, files[f], todo, {})
<1> DEFINE R == EditsOf(files, f, edits)
<1>1. files[f] \in Seq(Characters) /\ \A i \in Here(f, edits) : i \in 1 .. Len(edits)
  BY EditFacts
<1>2. Within(Characters, files[f], R)
  BY LayoutFacts DEF Layout
<1>3. \E Q : Progress(files[f], R, {}, Q, files[f])
  BY <1>1, <1>2, ProgressBegins
<1>4. AppliedTo(files, f, edits, {}) = {}
  BY DEF AppliedTo
<1>5. ASSUME NEW i \in Here(f, edits) PROVE ~(\A j \in 1 .. Len(todo) : todo[j] # edits[i])
  <2>1. i \in 1 .. Len(edits)
    BY <1>1
  <2>2. \E j \in 1 .. Len(todo) : todo[j] = edits[i]
    BY <2>1 DEF SortedTo
  <2> QED
    BY <2>2
<1> QED
  BY <1>3, <1>4, <1>5 DEF FileDone, OnTheWay, Accounted

LEMMA TailFacts ==
  ASSUME NEW W, NEW q \in Seq(W), q # <<>>
  PROVE  /\ Tail(q) \in Seq(W) /\ Len(Tail(q)) = Len(q) - 1 /\ Len(q) \in Nat /\ Len(q) > 0
         /\ \A j \in 1 .. Len(Tail(q)) : Tail(q)[j] = q[j + 1] /\ j + 1 \in 1 .. Len(q)
         /\ Head(q) = q[1] /\ 1 \in 1 .. Len(q)
         /\ \A j \in 1 .. Len(q) : j # 1 => j - 1 \in 1 .. Len(Tail(q)) /\ Tail(q)[j - 1] = q[j]
<1>1. Tail(q) \in Seq(W) /\ Len(Tail(q)) = Len(q) - 1 /\ Len(q) \in Nat /\ Len(q) > 0
  OBVIOUS
<1>2. \A j \in 1 .. Len(Tail(q)) : Tail(q)[j] = q[j + 1] /\ j + 1 \in 1 .. Len(q)
  BY <1>1
<1>3. Head(q) = q[1] /\ 1 \in 1 .. Len(q)
  BY <1>1
<1>4. ASSUME NEW j \in 1 .. Len(q), j # 1 PROVE j - 1 \in 1 .. Len(Tail(q)) /\ Tail(q)[j - 1] = q[j]
  <2>1. j - 1 \in 1 .. Len(Tail(q)) /\ (j - 1) + 1 = j
    BY <1>1, <1>4
  <2> QED
    BY <1>2, <2>1
<1> QED
  BY <1>1, <1>2, <1>3, <1>4

\* No edit of a file is there a second time.
LEMMA ApartTail ==
  ASSUME NEW W, NEW q \in Seq(W), q # <<>>, NEW f, Apart(f, q)
  PROVE  /\ Apart(f, Tail(q))
         /\ Head(q).file = f => \A j \in 1 .. Len(Tail(q)) : Tail(q)[j] # Head(q)
<1> DEFINE t == Tail(q)  n == Len(t)
<1>1. /\ t \in Seq(W) /\ Head(q) = q[1] /\ 1 \in 1 .. Len(q) /\ n \in Nat /\ DOMAIN q = 1 .. Len(q)
      /\ \A j \in 1 .. n : t[j] = q[j + 1] /\ j + 1 \in 1 .. Len(q)
  BY TailFacts
<1>2. DOMAIN t = 1 .. n
  BY <1>1
<1> HIDE DEF t, n
<1>3. ASSUME NEW i \in 1 .. Len(q), NEW j \in 1 .. Len(q), i # j, q[i].file = f
      PROVE  <<q[j].file, Pair(q[j])>> # <<f, Pair(q[i])>>
  BY <1>1, <1>3, Zenon DEF Apart
<1>4. ASSUME NEW i \in 1 .. n, NEW j \in 1 .. n, i # j, t[i].file = f
      PROVE  <<t[j].file, Pair(t[j])>> # <<f, Pair(t[i])>>
  <2>1. t[i] = q[i + 1] /\ t[j] = q[j + 1] /\ i + 1 \in 1 .. Len(q) /\ j + 1 \in 1 .. Len(q)
    BY <1>1
  <2>2. i + 1 # j + 1
    BY <1>1, <1>4
  <2>3. <<q[j + 1].file, Pair(q[j + 1])>> # <<f, Pair(q[i + 1])>>
    BY <1>3, <1>4, <2>1, <2>2
  <2> QED
    BY <2>1, <2>3, Zenon
<1>5. Apart(f, t)
  BY <1>2, <1>4, Zenon DEF Apart
<1>6. ASSUME Head(q).file = f, NEW j \in 1 .. n PROVE t[j] # Head(q)
  <2> SUFFICES ASSUME t[j] = Head(q) PROVE FALSE
    OBVIOUS
  <2>1. t[j] = q[j + 1] /\ j + 1 \in 1 .. Len(q) /\ 1 # j + 1 /\ q[1].file = f
    BY <1>1, <1>6
  <2>2. <<q[j + 1].file, Pair(q[j + 1])>> # <<f, Pair(q[1])>>
    BY <1>1, <1>3, <2>1
  <2>3. q[j + 1] = q[1]
    BY <1>1, <2>1
  <2> QED
    BY <2>1, <2>2, <2>3, Zenon
<1> QED
  BY <1>5, <1>6 DEF t, n

\* Still to be done is still to be done, apart from the one that is taken.
LEMMA AccountedStep ==
  ASSUME NEW W, NEW todo \in Seq(W), todo # <<>>, NEW f, NEW edits, NEW pairs, Accounted(f, edits, todo, pairs),
         NEW i \in Here(f, edits), edits[i] # Head(todo)
  PROVE  (<<f, Pair(edits[i])>> \in pairs) <=> (\A j \in 1 .. Len(Tail(todo)) : Tail(todo)[j] # edits[i])
<1>1. (<<f, Pair(edits[i])>> \in pairs) <=> (\A j \in 1 .. Len(todo) : todo[j] # edits[i])
  BY DEF Accounted
<1> DEFINE t == Tail(todo)
<1>2. /\ \A j \in 1 .. Len(t) : t[j] = todo[j + 1] /\ j + 1 \in 1 .. Len(todo)
      /\ Head(todo) = todo[1]
      /\ \A j \in 1 .. Len(todo) : j # 1 => j - 1 \in 1 .. Len(t) /\ t[j - 1] = todo[j]
  BY TailFacts
<1> HIDE DEF t
<1>3. ASSUME \A j \in 1 .. Len(todo) : todo[j] # edits[i], NEW j \in 1 .. Len(t) PROVE t[j] # edits[i]
  BY <1>2, <1>3
<1>4. ASSUME \A j \in 1 .. Len(t) : t[j] # edits[i], NEW j \in 1 .. Len(todo) PROVE todo[j] # edits[i]
  BY <1>2, <1>4
<1> QED
  BY <1>1, <1>3, <1>4 DEF t

\* An edit of another file.
LEMMA FileOther ==
  ASSUME NEW W, NEW todo \in Seq(W), todo # <<>>, NEW files, NEW f, NEW edits, NEW text, NEW pairs,
         FileDone(files, f, edits, text, todo, pairs), Head(todo).file # f,
         NEW more, \A x : (<<f, x>> \in more) <=> (<<f, x>> \in pairs)
  PROVE  FileDone(files, f, edits, text, Tail(todo), more)
<1>1. AppliedTo(files, f, edits, more) = AppliedTo(files, f, edits, pairs)
  BY Zenon DEF AppliedTo
<1>2. OnTheWay(files, f, edits, text, more)
  BY <1>1 DEF FileDone, OnTheWay
<1>3. ASSUME NEW i \in Here(f, edits)
      PROVE  (<<f, Pair(edits[i])>> \in more) <=> (\A j \in 1 .. Len(Tail(todo)) : Tail(todo)[j] # edits[i])
  <2>1. edits[i] # Head(todo)
    BY DEF Here
  <2>2. Accounted(f, edits, todo, pairs)
    BY DEF FileDone
  <2>3. (<<f, Pair(edits[i])>> \in pairs) <=> (\A j \in 1 .. Len(Tail(todo)) : Tail(todo)[j] # edits[i])
    BY <2>1, <2>2, AccountedStep
  <2>4. (<<f, Pair(edits[i])>> \in more) <=> (<<f, Pair(edits[i])>> \in pairs)
    BY Zenon
  <2> QED
    BY <2>3, <2>4, Zenon
<1> QED
  BY <1>2, <1>3, Zenon DEF FileDone, Accounted

\* An edit that is still to be done was not done before.
LEMMA NotBefore ==
  ASSUME NEW W, NEW todo \in Seq(W), todo # <<>>, NEW files, NEW f, NEW edits, NEW text, NEW pairs,
         FileDone(files, f, edits, text, todo, pairs), NEW i \in Here(f, edits), Head(todo) = edits[i]
  PROVE  <<f, Pair(edits[i])>> \notin pairs
<1>1. todo[1] = edits[i] /\ 1 \in 1 .. Len(todo)
  BY TailFacts
<1>2. (<<f, Pair(edits[i])>> \in pairs) <=> (\A j \in 1 .. Len(todo) : todo[j] # edits[i])
  BY DEF FileDone, Accounted
<1> QED
  BY <1>1, <1>2

\* An edit of this one.
LEMMA FileStep ==
  ASSUME NEW W, NEW todo \in Seq(W), todo # <<>>, NEW files, NEW f, NEW edits, Edited(files, f, edits), Apart(f, todo),
         NEW text, NEW pairs, FileDone(files, f, edits, text, todo, pairs),
         NEW h \in Here(f, edits), Head(todo) = edits[h],
         ApplyEdit(text, Head(todo)) \notin {NotFound, ManyFound}
  PROVE  FileDone(files, f, edits, ApplyEdit(text, Head(todo)).text, Tail(todo), pairs \cup {<<f, Pair(Head(todo))>>})
<1> DEFINE s == files[f]  R == EditsOf(files, f, edits)  order == EditOrder(files, f, edits)  edit == edits[h]
           D == AppliedTo(files, f, edits, pairs)  more == pairs \cup {<<f, Pair(edit)>>}  n == Len(R)
<1>1. /\ Within(Characters, s, R) /\ n \in Nat /\ order \in [1 .. n -> Here(f, edits)]
      /\ \A i \in Here(f, edits) : \E k \in 1 .. n : order[k] = i
      /\ \A k, l \in 1 .. n : order[k] = order[l] => k = l
      /\ \A k \in 1 .. n : AtPlace(s, edits[order[k]], R[k])
  BY LayoutFacts DEF Layout
<1>2. /\ s \in Seq(Characters) /\ edit.old \in Seq(Characters) /\ edit.old # <<>> /\ edit.new \in Seq(Characters)
      /\ ~edit.fuzzyIndent /\ ~SelfOverlaps(NormalizeToLF(edit.old)) /\ edit.file = f
  BY EditFacts
<1>3. PICK k \in 1 .. n : order[k] = h
  BY <1>1
<1>4. <<f, Pair(edit)>> \notin pairs
  BY NotBefore
<1>5. D \subseteq 1 .. n /\ k \notin D
  BY <1>3, <1>4 DEF AppliedTo
<1>6. PICK Q : Progress(s, R, D, Q, text)
  BY DEF FileDone, OnTheWay
<1>7. ASSUME NEW i \in Here(f, edits), NEW j \in Here(f, edits), i # j
      PROVE  <<f, Pair(edits[j])>> # <<f, Pair(edits[i])>>
  <2>1. i \in DOMAIN edits /\ j \in DOMAIN edits /\ edits[i].file = f /\ edits[j].file = f
    BY DEF Here
  <2>2. <<edits[j].file, Pair(edits[j])>> # <<f, Pair(edits[i])>>
    BY <1>7, <2>1, Zenon DEF Edited, FoundAsIs
  <2> QED
    BY <2>1, <2>2, Zenon
<1>8. AppliedTo(files, f, edits, more) = D \cup {k}
  <2>1. ASSUME NEW l \in 1 .. n PROVE (<<f, Pair(edits[order[l]])>> \in more) <=> (<<f, Pair(edits[order[l]])>> \in pairs \/ l = k)
    <3>1. order[l] \in Here(f, edits)
      BY <1>1
    <3>2. l # k => order[l] # h
      BY <1>1, <1>3
    <3>3. l # k => <<f, Pair(edits[order[l]])>> # <<f, Pair(edit)>>
      BY <1>7, <3>1, <3>2
    <3>4. l = k => <<f, Pair(edits[order[l]])>> = <<f, Pair(edit)>>
      BY <1>3
    <3> QED
      BY <3>3, <3>4, Zenon
  <2>2. AppliedTo(files, f, edits, more) = {l \in 1 .. n : <<f, Pair(edits[order[l]])>> \in more}
    BY Zenon DEF AppliedTo
  <2>3. D = {l \in 1 .. n : <<f, Pair(edits[order[l]])>> \in pairs}
    BY Zenon DEF AppliedTo
  <2> DEFINE key(l) == <<f, Pair(edits[order[l]])>>
  <2> HIDE DEF n, D, more
  <2>4. ASSUME NEW l PROVE l \in AppliedTo(files, f, edits, more) <=> l \in D \cup {k}
    BY <1>3, <2>1, <2>2, <2>3, Zenon
  <2> QED
    BY <2>4
<1> HIDE DEF n, D, more, order, s, R, edit
<1>9. OnTheWay(files, f, edits, ApplyEdit(text, edit).text, more)
  <2>1. AtPlace(s, edit, R[k])
    BY <1>1, <1>3 DEF edit
  <2>2. ApplyEdit(text, edit) \notin {NotFound, ManyFound}
    BY DEF edit
  <2>3. \E P : Progress(s, R, D \cup {k}, P, ApplyEdit(text, edit).text)
    BY <1>1, <1>2, <1>5, <1>6, <2>1, <2>2, ProgressStep DEF n
  <2> QED
    BY <1>8, <2>3 DEF OnTheWay, s, R
<1>10. ASSUME NEW i \in Here(f, edits)
       PROVE  (<<f, Pair(edits[i])>> \in more) <=> (\A j \in 1 .. Len(Tail(todo)) : Tail(todo)[j] # edits[i])
  <2>1. CASE i = h
    <3>1. \A j \in 1 .. Len(Tail(todo)) : Tail(todo)[j] # edits[i]
      BY <1>2, <2>1, ApartTail DEF edit
    <3>2. <<f, Pair(edits[i])>> \in more
      BY <2>1 DEF more, edit
    <3> QED
      BY <3>1, <3>2
  <2>2. CASE i # h
    <3>1. <<f, Pair(edits[i])>> # <<f, Pair(edit)>>
      BY <1>7, <2>2 DEF edit
    <3>2. edits[i] # Head(todo)
      BY <3>1, Zenon DEF edit
    <3>3. Accounted(f, edits, todo, pairs)
      BY DEF FileDone
    <3>4. (<<f, Pair(edits[i])>> \in pairs) <=> (\A j \in 1 .. Len(Tail(todo)) : Tail(todo)[j] # edits[i])
      BY <3>2, <3>3, AccountedStep
    <3>5. (<<f, Pair(edits[i])>> \in more) <=> (<<f, Pair(edits[i])>> \in pairs)
      BY <3>1, Zenon DEF more
    <3> QED
      BY <3>4, <3>5, Zenon
  <2> QED
    BY <2>1, <2>2
<1>11. FileDone(files, f, edits, ApplyEdit(text, edit).text, Tail(todo), more)
  BY <1>9, <1>10, Zenon DEF FileDone, Accounted
<1> QED
  BY <1>11, Zenon DEF edit, more

\* With nothing left to do, EditsLand holds of the file.
LEMMA FileEnds ==
  ASSUME NEW files, NEW f, NEW edits, Edited(files, f, edits),
         NEW text, NEW pairs, FileDone(files, f, edits, text, <<>>, pairs)
  PROVE  /\ Cardinality(DOMAIN EditsOf(files, f, edits)) = Cardinality(Here(f, edits))
         /\ LandApart(files[f], text, EditsOf(files, f, edits))
<1> DEFINE R == EditsOf(files, f, edits)  order == EditOrder(files, f, edits)  n == Len(R)
<1>1. /\ Within(Characters, files[f], R) /\ n \in Nat /\ n = Cardinality(Here(f, edits)) /\ DOMAIN R = 1 .. n
      /\ order \in [1 .. n -> Here(f, edits)]
  BY LayoutFacts DEF Layout
<1>2. files[f] \in Seq(Characters)
  BY EditFacts
<1>3. ASSUME NEW i \in Here(f, edits) PROVE <<f, Pair(edits[i])>> \in pairs
  <2>1. (<<f, Pair(edits[i])>> \in pairs) <=> (\A j \in 1 .. Len(<<>>) : <<>>[j] # edits[i])
    BY Zenon DEF FileDone, Accounted
  <2>2. 1 .. Len(<<>>) = {}
    OBVIOUS
  <2> QED
    BY <2>1, <2>2, Zenon
<1>4. AppliedTo(files, f, edits, pairs) = 1 .. n
  <2>1. ASSUME NEW k \in 1 .. n PROVE <<f, Pair(edits[order[k]])>> \in pairs
    <3>1. order[k] \in Here(f, edits)
      BY <1>1
    <3> QED
      BY <1>3, <3>1
  <2>2. AppliedTo(files, f, edits, pairs) = {k \in 1 .. n : <<f, Pair(edits[order[k]])>> \in pairs}
    BY Zenon DEF AppliedTo
  <2> QED
    BY <2>1, <2>2, Zenon
<1>5. PICK Q : Progress(files[f], R, 1 .. n, Q, text)
  BY <1>4 DEF FileDone, OnTheWay
<1>6. LandApart(files[f], text, R)
  <2> HIDE DEF R
  <2> QED
    BY <1>1, <1>2, <1>5, ProgressEnds
<1>7. Cardinality(DOMAIN R) = n
  <2>1. Cardinality(1 .. n) = n
    <3> HIDE DEF n
    <3>1. 1 \in Int /\ n \in Int
      BY <1>1
    <3>2. Cardinality(1 .. n) = IF 1 > n THEN 0 ELSE n - 1 + 1
      BY <3>1, FS_Interval
    <3> QED
      BY <1>1, <3>2
  <2> QED
    BY <1>1, <2>1
<1> QED
  BY <1>1, <1>6, <1>7

-----------------------------------------------------------------------------
(* The calls.                                                              *)

\* multi_edit: each file whose edits the property is about has the new texts of
\* the edits that are done, and those still to be done are the others.
DoneSoFar ==
    \A f \in DOMAIN editCall.files :
        FoundAsIs(editCall.files, f, editCall.edits) =>
            Apart(f, editTodo) /\ FileDone(editCall.files, f, editCall.edits, editText[f], editTodo, editPairs)
Editing ==
    /\ ~DetectOverlaps(editCall.files, editCall.edits) /\ DOMAIN editText = DOMAIN editCall.files
    /\ editTodo \in Seq(EditIn(editCall.files))
    /\ \A j \in 1 .. Len(editTodo) : \E i \in 1 .. Len(editCall.edits) : editTodo[j] = editCall.edits[i]
    /\ editErrors = {} => DoneSoFar
EditsDone ==
    \A f \in DOMAIN editCall.files :
        FoundAsIs(editCall.files, f, editCall.edits) =>
            /\ Cardinality(DOMAIN EditsOf(editCall.files, f, editCall.edits)) = Cardinality(Here(f, editCall.edits))
            /\ LandApart(editCall.files[f], editText[f], EditsOf(editCall.files, f, editCall.edits))
ThisMulti ==
    /\ editPc \in {"start", "edit", "done", "refused"}
    /\ editPc = "start" => editText = editCall.files /\ editPairs = {}
    /\ editPc = "edit" => Editing
    /\ editPc = "done" => EditsDone

\* What EditAssumption says of the call: multi_edit.
LEMMA MultiCall ==
  ASSUME editCall \in EditCalls, editCall.kind = "multi"
  PROVE  /\ editCall.files \in [DOMAIN editCall.files -> Seq(Characters)]
         /\ editCall.edits \in Seq(EditIn(editCall.files))
BY EditAssumption, Zenon DEF EditIn

LEMMA EditedHere ==
  ASSUME editCall \in EditCalls, editCall.kind = "multi", NEW f \in DOMAIN editCall.files,
         FoundAsIs(editCall.files, f, editCall.edits), ~DetectOverlaps(editCall.files, editCall.edits)
  PROVE  Edited(editCall.files, f, editCall.edits)
BY MultiCall, Zenon DEF Edited

\* multiEditLocked: the overlaps are refused, the edits are sorted.
LEMMA MultiBegins ==
  ASSUME editCall \in EditCalls, editCall.kind = "multi", ThisMulti, MultiEdit
  PROVE  ThisMulti'
<1> DEFINE files == editCall.files  edits == editCall.edits  W == EditIn(files)
<1>1. /\ editPc = "start" /\ editText = files /\ editPairs = {}
      /\ UNCHANGED <<editCall, editText, editPlaces, editPairs, editErrors>>
  BY DEF MultiEdit, ThisMulti
<1>2. CASE DetectOverlaps(files, edits)
  <2>1. editPc' = "refused"
    BY <1>2 DEF MultiEdit, Result
  <2> QED
    BY <2>1 DEF ThisMulti
<1>3. CASE ~DetectOverlaps(files, edits)
  <2> DEFINE todo == SortRawEntriesPositional(files, edits)
  <2>1. editPc' = "edit" /\ editTodo' = todo
    BY <1>3 DEF MultiEdit, Result
  <2>2. edits \in Seq(W)
    BY MultiCall
  <2> HIDE DEF files, edits, W
  <2>3. todo \in Seq(W) /\ \A f : SortedTo(edits, f, Len(edits), todo)
    BY <2>2, SortedFacts
  <2> HIDE DEF todo
  <2>4. \A j \in 1 .. Len(todo) : \E i \in 1 .. Len(edits) : todo[j] = edits[i]
    BY <2>3 DEF SortedTo
  <2>5. ASSUME NEW f \in DOMAIN files, FoundAsIs(files, f, edits)
        PROVE  Apart(f, todo) /\ FileDone(files, f, edits, files[f], todo, {})
    <3>1. Apart(f, edits)
      BY <2>5, Zenon DEF FoundAsIs, Apart
    <3>2. Edited(files, f, edits)
      BY <1>3, <2>5, EditedHere DEF files, edits
    <3>3. SortedTo(edits, f, Len(edits), todo)
      BY <2>3
    <3> QED
      BY <3>1, <3>2, <3>3, FileBegins DEF SortedTo
  <2>6. DoneSoFar'
    <3> SUFFICES ASSUME NEW f \in DOMAIN files, FoundAsIs(files, f, edits)
                 PROVE  Apart(f, todo) /\ FileDone(files, f, edits, files[f], todo, {})
      BY <1>1, <2>1 DEF DoneSoFar, files, edits
    <3> QED
      BY <2>5
  <2>7. Editing'
    BY <1>1, <1>3, <2>1, <2>3, <2>4, <2>6 DEF Editing, files, edits, W
  <2> QED
    BY <2>1, <2>7 DEF ThisMulti
<1> QED
  BY <1>2, <1>3

LEMMA ErrorsNamed == NotFound.error # "" /\ ManyFound.error # ""
BY Zenon DEF NotFound, ManyFound

\* applyPendingEdits: one edit, or the one that fails.
LEMMA MultiApplies ==
  ASSUME editCall \in EditCalls, editCall.kind = "multi", ThisMulti, ApplyPendingEdit
  PROVE  ThisMulti'
<1> DEFINE files == editCall.files  edits == editCall.edits  W == EditIn(files)  edit == Head(editTodo)
           text == editText[edit.file]  applied == ApplyEdit(text, edit)
<1>1. /\ editPc = "edit" /\ editTodo # <<>> /\ editTodo' = Tail(editTodo)
      /\ Pend(edit, applied) /\ UNCHANGED <<editCall, editPc, editPlaces>>
  BY DEF ApplyPendingEdit
<1>2. /\ ~DetectOverlaps(files, edits) /\ DOMAIN editText = DOMAIN files /\ editTodo \in Seq(W)
      /\ \A j \in 1 .. Len(editTodo) : \E i \in 1 .. Len(edits) : editTodo[j] = edits[i]
      /\ editErrors = {} => DoneSoFar
  BY <1>1 DEF ThisMulti, Editing
<1>3. edits \in Seq(W)
  BY MultiCall
<1> HIDE DEF files, edits, W
<1>4. /\ Tail(editTodo) \in Seq(W) /\ edit = editTodo[1] /\ 1 \in 1 .. Len(editTodo)
      /\ \A j \in 1 .. Len(Tail(editTodo)) : Tail(editTodo)[j] = editTodo[j + 1] /\ j + 1 \in 1 .. Len(editTodo)
  BY <1>1, <1>2, TailFacts
<1>5. PICK h \in 1 .. Len(edits) : edit = edits[h]
  BY <1>2, <1>4
<1>6. edit.file \in DOMAIN files /\ h \in Here(edit.file, edits)
  <2>1. edits[h] \in W /\ h \in DOMAIN edits
    BY <1>3
  <2> QED
    BY <1>5, <2>1 DEF W, EditIn, Here
<1>7. \A j \in 1 .. Len(editTodo') : \E i \in 1 .. Len(edits) : editTodo'[j] = edits[i]
  BY <1>1, <1>2, <1>4
<1> HIDE DEF edit, applied
<1>8. /\ Redundant(edit, applied) => editText' = editText /\ editPairs' = editPairs /\ editErrors' = editErrors
      /\ ~Redundant(edit, applied) /\ EditFailed(edit, applied) =>
            editErrors' = editErrors \cup {edit} /\ editText' = editText /\ editPairs' = editPairs
      /\ ~Redundant(edit, applied) /\ ~EditFailed(edit, applied) =>
            /\ editText' = [editText EXCEPT ![edit.file] = applied.text]
            /\ editPairs' = editPairs \cup {<<edit.file, Pair(edit)>>} /\ editErrors' = editErrors
  BY <1>1, Zenon DEF Pend
<1>9. DOMAIN editText' = DOMAIN files
  BY <1>2, <1>8
<1>10. ASSUME editErrors' = {} PROVE DoneSoFar'
  <2>1. editErrors = {} /\ (Redundant(edit, applied) \/ ~EditFailed(edit, applied))
    BY <1>8, <1>10
  <2> SUFFICES ASSUME NEW f \in DOMAIN files, FoundAsIs(files, f, edits)
               PROVE  Apart(f, Tail(editTodo)) /\ FileDone(files, f, edits, editText'[f], Tail(editTodo), editPairs')
    BY <1>1 DEF DoneSoFar, files, edits
  <2>2. Apart(f, editTodo) /\ FileDone(files, f, edits, editText[f], editTodo, editPairs)
    BY <1>2, <2>1 DEF DoneSoFar, files, edits
  <2>3. Apart(f, Tail(editTodo))
    BY <1>1, <1>2, <2>2, ApartTail
  <2>4. CASE edit.file # f
    <3>1. editText'[f] = editText[f]
      BY <1>2, <1>8, <2>1, <2>4
    <3>2. \A x : (<<f, x>> \in editPairs') <=> (<<f, x>> \in editPairs)
      BY <1>8, <2>1, <2>4
    <3>3. FileDone(files, f, edits, editText[f], Tail(editTodo), editPairs')
      BY <1>1, <1>2, <2>2, <2>4, <3>2, FileOther DEF edit
    <3> QED
      BY <2>3, <3>1, <3>3
  <2>5. CASE edit.file = f
    <3>1. h \in Here(f, edits) /\ Head(editTodo) = edits[h]
      BY <1>5, <1>6, <2>5 DEF edit
    <3>2. <<f, Pair(edits[h])>> \notin editPairs
      BY <1>1, <1>2, <2>2, <3>1, NotBefore
    <3>3. ~Redundant(edit, applied)
      BY <1>5, <2>5, <3>2, Zenon DEF Redundant
    <3>4. ~EditFailed(edit, applied)
      BY <2>1, <3>3
    <3>5. applied \notin {NotFound, ManyFound}
      <4>1. applied.error = ""
        BY <3>4, Zenon DEF EditFailed
      <4> QED
        BY <4>1, ErrorsNamed, Zenon
    <3>6. editText'[f] = applied.text /\ editPairs' = editPairs \cup {<<f, Pair(edit)>>}
      BY <1>2, <1>8, <2>5, <3>3, <3>4
    <3>7. applied = ApplyEdit(editText[f], Head(editTodo))
      BY <2>5 DEF applied, edit
    <3>8. Edited(files, f, edits)
      BY <1>2, EditedHere DEF files, edits
    <3>9. FileDone(files, f, edits, ApplyEdit(editText[f], Head(editTodo)).text, Tail(editTodo),
                   editPairs \cup {<<f, Pair(Head(editTodo))>>})
      BY <1>1, <1>2, <2>2, <3>1, <3>5, <3>7, <3>8, FileStep
    <3> QED
      BY <2>3, <3>6, <3>7, <3>9 DEF edit
  <2> QED
    BY <2>4, <2>5
<1>11. Editing'
  BY <1>1, <1>2, <1>4, <1>7, <1>9, <1>10 DEF Editing, files, edits, W
<1> QED
  BY <1>1, <1>11 DEF ThisMulti

LEMMA MultiEnds ==
  ASSUME editCall \in EditCalls, editCall.kind = "multi", ThisMulti, EditsApplied
  PROVE  ThisMulti'
<1>1. /\ editPc = "edit" /\ editTodo = <<>> /\ editPc' = (IF editErrors = {} THEN "done" ELSE "refused")
      /\ UNCHANGED <<editCall, editText>>
  BY DEF EditsApplied, Result
<1>2. ~DetectOverlaps(editCall.files, editCall.edits) /\ (editErrors = {} => DoneSoFar)
  BY <1>1 DEF ThisMulti, Editing
<1>3. ASSUME editErrors = {} PROVE EditsDone
  <2> SUFFICES ASSUME NEW f \in DOMAIN editCall.files, FoundAsIs(editCall.files, f, editCall.edits)
               PROVE  /\ Cardinality(DOMAIN EditsOf(editCall.files, f, editCall.edits)) = Cardinality(Here(f, editCall.edits))
                      /\ LandApart(editCall.files[f], editText[f], EditsOf(editCall.files, f, editCall.edits))
    BY DEF EditsDone
  <2>1. FileDone(editCall.files, f, editCall.edits, editText[f], <<>>, editPairs)
    BY <1>1, <1>2, <1>3 DEF DoneSoFar
  <2>2. Edited(editCall.files, f, editCall.edits)
    BY <1>2, EditedHere
  <2> QED
    BY <2>1, <2>2, FileEnds
<1>4. EditsDone' <=> EditsDone
  BY <1>1 DEF EditsDone
<1> QED
  BY <1>1, <1>3, <1>4 DEF ThisMulti

\* search_replace: all at once.
ThisReplace ==
    /\ editPc \in {"start", "done"}
    /\ editPc = "start" => editText = editCall.text
    /\ editPc = "done" => editText = AtOnce(editCall.text, MatchRegions(editCall.text, editCall.pattern, editCall.by))
EditInv ==
    /\ editCall \in EditCalls
    /\ editCall.kind = "multi" => ThisMulti
    /\ editCall.kind = "replace" => ThisReplace
    /\ PatchInv

\* What EditAssumption says of the call: search_replace.
LEMMA ReplaceCall ==
  ASSUME editCall \in EditCalls, editCall.kind = "replace"
  PROVE  /\ editCall.text \in Seq(Characters) /\ editCall.pattern \in Seq(Characters) /\ editCall.pattern # <<>>
         /\ editCall.by \in Seq(Characters)
<1>1. "replace" # "multi"
  OBVIOUS
<1> QED
  BY <1>1, EditAssumption, Zenon

LEMMA Replaces ==
  ASSUME editCall \in EditCalls, editCall.kind = "replace", ThisReplace, SearchReplace
  PROVE  ThisReplace'
<1> DEFINE s == editCall.text  pattern == editCall.pattern  by == editCall.by
<1>1. /\ editPc = "start" /\ editPc' = "done" /\ editText' = SrApplyOne(editText, pattern, by) /\ editCall' = editCall
  BY DEF SearchReplace, Result
<1>2. editText = s
  BY <1>1 DEF ThisReplace
<1>3. s \in Seq(Characters) /\ pattern \in Seq(Characters) /\ pattern # <<>> /\ by \in Seq(Characters)
  BY ReplaceCall
<1> HIDE DEF s, pattern, by
<1>4. SrApplyOne(s, pattern, by) = AtOnce(s, MatchRegions(s, pattern, by))
  BY <1>3, ReplacedIsAtOnce
<1>5. editText' = AtOnce(s, MatchRegions(s, pattern, by))
  BY <1>1, <1>2, <1>4
<1>6. editText' = AtOnce(editCall.text, MatchRegions(editCall.text, editCall.pattern, editCall.by))'
  BY <1>1, <1>5 DEF s, pattern, by
<1> QED
  BY <1>1, <1>6 DEF ThisReplace

LEMMA Kinds == "multi" # "replace" /\ "multi" # "patch" /\ "replace" # "patch"
OBVIOUS

LEMMA EditBegins ==
  ASSUME EditInit
  PROVE  EditInv
<1>1. editCall \in EditCalls /\ editPc = "start" /\ editPlaces = <<>> /\ editPairs = {}
  BY DEF EditInit
<1>2. /\ editCall.kind = "multi" => editText = editCall.files
      /\ editCall.kind = "patch" => editText = SplitLineRecords(editCall.text)
      /\ editCall.kind = "replace" => editText = editCall.text
  <2>1. editText = CASE editCall.kind = "multi" -> editCall.files
                     [] editCall.kind = "patch" -> SplitLineRecords(editCall.text)
                     [] OTHER -> editCall.text
    BY DEF EditInit
  <2> QED
    BY <2>1, Kinds, Zenon
<1>3. editCall.kind = "multi" => ThisMulti
  BY <1>1, <1>2 DEF ThisMulti
<1>4. editCall.kind = "replace" => ThisReplace
  BY <1>1, <1>2 DEF ThisReplace
<1>5. PatchInv
  BY <1>1, <1>2 DEF PatchInv, ThisPatch
<1> QED
  BY <1>1, <1>3, <1>4, <1>5 DEF EditInv

LEMMA MultiStep ==
  ASSUME editCall \in EditCalls, editCall.kind = "multi", ThisMulti, EditNext
  PROVE  ThisMulti'
<1>1. editPc \in {"start", "edit", "done", "refused"}
  BY DEF ThisMulti
<1>2. CASE MultiEdit
  BY <1>2, MultiBegins
<1>3. CASE ApplyPendingEdit
  BY <1>3, MultiApplies
<1>4. CASE EditsApplied
  BY <1>4, MultiEnds
<1>5. ~SearchReplace /\ ~ApplyPatch
  BY Kinds DEF SearchReplace, ApplyPatch
<1>6. ~ResolveNext /\ ~DeriveUpdatedContent
  <2>1. editPc # "resolve" /\ editPc # "derive"
    BY <1>1
  <2> QED
    BY <2>1 DEF ResolveNext, DeriveUpdatedContent
<1> QED
  BY <1>2, <1>3, <1>4, <1>5, <1>6 DEF EditNext

LEMMA ReplaceStep ==
  ASSUME editCall \in EditCalls, editCall.kind = "replace", ThisReplace, EditNext
  PROVE  ThisReplace'
<1>1. editPc \in {"start", "done"}
  BY DEF ThisReplace
<1>2. CASE SearchReplace
  BY <1>2, Replaces
<1>3. ~MultiEdit /\ ~ApplyPatch
  BY Kinds DEF MultiEdit, ApplyPatch
<1>4. ~ApplyPendingEdit /\ ~EditsApplied /\ ~ResolveNext /\ ~DeriveUpdatedContent
  <2>1. editPc # "edit" /\ editPc # "resolve" /\ editPc # "derive"
    BY <1>1
  <2> QED
    BY <2>1 DEF ApplyPendingEdit, EditsApplied, ResolveNext, DeriveUpdatedContent
<1> QED
  BY <1>2, <1>3, <1>4 DEF EditNext

LEMMA PatchStep ==
  ASSUME editCall \in EditCalls, editCall.kind = "patch", Sought(editCall.chunks), ThisPatch, EditNext
  PROVE  ThisPatch'
<1>1. editPc \in {"start", "resolve", "derive", "done", "refused"}
  BY DEF ThisPatch
<1>2. CASE ApplyPatch
  BY <1>2, PatchBegins
<1>3. CASE ResolveNext
  BY <1>3, PatchResolves
<1>4. CASE DeriveUpdatedContent
  BY <1>4, PatchDerives
<1>5. ~MultiEdit /\ ~SearchReplace
  BY Kinds DEF MultiEdit, SearchReplace
<1>6. ~ApplyPendingEdit /\ ~EditsApplied
  <2>1. editPc # "edit"
    BY <1>1
  <2> QED
    BY <2>1 DEF ApplyPendingEdit, EditsApplied
<1> QED
  BY <1>2, <1>3, <1>4, <1>5, <1>6 DEF EditNext

LEMMA EditStep ==
  ASSUME EditInv, EditNext
  PROVE  EditInv'
<1>1. editCall' = editCall
  BY DEF EditNext, MultiEdit, ApplyPendingEdit, EditsApplied, SearchReplace, ApplyPatch, ResolveNext, DeriveUpdatedContent
<1>2. editCall \in EditCalls /\ editCall' \in EditCalls
  BY <1>1 DEF EditInv
<1>3. editCall.kind = "multi" => ThisMulti'
  BY <1>2, MultiStep DEF EditInv
<1>4. editCall.kind = "replace" => ThisReplace'
  BY <1>2, ReplaceStep DEF EditInv
<1>5. editCall.kind = "patch" /\ Sought(editCall.chunks) => ThisPatch'
  BY <1>2, PatchStep DEF EditInv, PatchInv
<1>6. PatchInv'
  BY <1>1, <1>5 DEF PatchInv
<1> QED
  BY <1>1, <1>2, <1>3, <1>4, <1>6 DEF EditInv

LEMMA EditStutters ==
  ASSUME EditInv, UNCHANGED editVars
  PROVE  EditInv'
<1>1. /\ editCall' = editCall /\ editPc' = editPc /\ editText' = editText /\ editTodo' = editTodo
      /\ editPlaces' = editPlaces /\ editPairs' = editPairs /\ editErrors' = editErrors
  BY DEF editVars
<1>2. ThisMulti' <=> ThisMulti
  <2>1. DoneSoFar' <=> DoneSoFar
    BY <1>1 DEF DoneSoFar
  <2>2. Editing' <=> Editing
    BY <1>1, <2>1 DEF Editing
  <2>3. EditsDone' <=> EditsDone
    BY <1>1 DEF EditsDone
  <2> QED
    BY <1>1, <2>2, <2>3 DEF ThisMulti
<1>3. ThisReplace' <=> ThisReplace
  BY <1>1 DEF ThisReplace
<1>4. PatchInv' <=> PatchInv
  <2>1. FileLines' = FileLines
    BY <1>1 DEF FileLines
  <2>2. FilePlaces' = FilePlaces /\ Hunks' = Hunks
    BY <1>1, <2>1 DEF FilePlaces, Hunks
  <2>3. FileRegions' = FileRegions
    BY <2>2 DEF FileRegions
  <2>4. \A k : (TodoFrom(k)' <=> TodoFrom(k)) /\ (PlacesTo(k)' <=> PlacesTo(k)) /\ (ResolvedTo(k)' <=> ResolvedTo(k))
    BY <1>1, <2>1, <2>2 DEF TodoFrom, PlacesTo, ResolvedTo
  <2>5. Resolving' <=> Resolving
    BY <1>1, <2>1, <2>2 DEF Resolving, TodoFrom, PlacesTo, ResolvedTo
  <2>6. Deriving' <=> Deriving
    BY <1>1, <2>1, <2>2, <2>3 DEF Deriving, PlacesTo, ResolvedTo, DoneBehind
  <2> QED
    BY <1>1, <2>1, <2>3, <2>5, <2>6 DEF PatchInv, ThisPatch
<1> QED
  BY <1>1, <1>2, <1>3, <1>4 DEF EditInv

LEMMA EditInvLands == EditInv => EditsLand
<1> SUFFICES ASSUME EditInv PROVE EditsLand
  OBVIOUS
<1>1. CASE editCall.kind = "multi"
  <2>1. editPc = "done" => EditsDone
    BY <1>1 DEF EditInv, ThisMulti
  <2> QED
    BY <1>1, <2>1, Zenon DEF EditsLand, EditsDone
<1>2. CASE editCall.kind = "replace"
  <2>1. editPc = "done" => editText = AtOnce(editCall.text, MatchRegions(editCall.text, editCall.pattern, editCall.by))
    BY <1>2 DEF EditInv, ThisReplace
  <2> QED
    BY <1>2, <2>1, Kinds, Zenon DEF EditsLand
<1>3. CASE editCall.kind \notin {"multi", "replace"}
  <2>1. editCall.kind = "patch"
    BY <1>3, EditAssumption, Zenon DEF EditInv
  <2>2. ASSUME Sought(editCall.chunks)
        PROVE  HunksLandAt(TextsOf(SplitLineRecords(editCall.text)), editCall.chunks)
    <3>1. ThisPatch
      BY <2>1, <2>2 DEF EditInv, PatchInv
    <3>2. editPc # "panic"
      BY <3>1 DEF ThisPatch
    <3>3. editPc = "done" => TextsOf(editText) = AtOnce(FileLines, FileRegions)
      BY <3>1 DEF ThisPatch
    <3> QED
      BY <3>2, <3>3, Zenon DEF HunksLandAt, FileLines, FileRegions, FilePlaces
  <2>3. (\A i \in DOMAIN editCall.chunks : ~editCall.chunks[i].eof /\ (editCall.chunks[i].old # <<>> \/ i = Len(editCall.chunks)))
           => HunksLandAt(TextsOf(SplitLineRecords(editCall.text)), editCall.chunks)
    BY <2>2, Zenon DEF Sought
  <2> QED
    BY <1>3, <2>3, Zenon DEF EditsLand
<1> QED
  BY <1>1, <1>2, <1>3

\* Whatever the text and however many edits, matches or hunks there are: a
\* multi_edit call whose edits were found as they stand and apart leaves each
\* file as if all of them had been made at once, though each is looked for in
\* what the ones before it left (detectOverlaps, applyPendingEdits); so does
\* search_replace from the last match to the first (srApplyOne), and a patch
\* from the last hunk to the first, without an index out of range
\* (deriveUpdatedContent).
THEOREM EditsAlwaysLand == EditSpec => []EditsLand
<1>1. EditInit => EditInv
  BY EditBegins
<1>2. EditInv /\ [EditNext]_editVars => EditInv'
  BY EditStep, EditStutters
<1> QED
  BY <1>1, <1>2, EditInvLands, PTL DEF EditSpec
=============================================================================

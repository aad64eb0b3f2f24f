-------------------------- MODULE PlanEngineProofs --------------------------
(***************************************************************************)
(* Theorems about PlanEngine, for all plans, however deep they nest, and   *)
(* all limits.                                                             *)
(***************************************************************************)
EXTENDS PlanEngine, TLAPS

\* Of each run: its plan was validated, its operations under way were
\* admitted, and its path is as long as its depth says.
FrameInv(f) ==
  /\ f \in FrameT
  /\ f.node \in DOMAIN Plans[f.plan].nodes
  /\ Valid(Plans[f.plan])
  /\ f.pc # "enter" => DOMAIN f.ops = DOMAIN Commands(f) /\ f.depth <= f.maxDepth
  /\ \A i \in DOMAIN f.ops : f.ops[i] = "running" => f.pc = "ops" /\ Admits(f, Commands(f)[i])
  /\ f.path = IF f.pc = "enter" THEN f.depth ELSE f.depth + 1
  /\ f.depth <= f.maxDepth + 1
  /\ NodeOf(f).mutates => f.via # "match"

\* Of a run f and a run g nested in it, at any distance: g has authority only
\* if f and its current node say force, goes no deeper than f may, and hangs
\* below a command of a mutating node.
Encloses(f, g) ==
  /\ f.pc = "ops"
  /\ g.authorized => Forced(f)
  /\ g.maxDepth <= f.maxDepth
  /\ NodeOf(f).mutates

StackInv ==
  /\ stack \in Seq(FrameT)
  /\ \A k \in 1..Len(stack) : FrameInv(stack[k])
  /\ shellOff => \A k \in 1..Len(stack) : NoShell(Plans[stack[k].plan])
  /\ \A j, k \in 1..Len(stack) : j < k => Encloses(stack[j], stack[k])
  /\ stack # <<>> => stack[1].maxDepth = Outermost(Plans[stack[1].plan]).maxDepth

ScalarsInv ==
  /\ shellOff \in BOOLEAN /\ cancelled \in BOOLEAN /\ aborted \in BOOLEAN
  /\ reserved \in 0..MaxOperations /\ ran \in 0..(MaxOperations + 1)
  /\ outcome \in Reasons \cup {"none", "refused"}

\* Once a run was aborted, every run that remains is waiting for it.
AbortInv ==
  /\ stack # <<>> => outcome = "none"
  /\ aborted => /\ cancelled
                /\ \A k \in 1..Len(stack) : stack[k].pc = "ops"
                /\ stack = <<>> => outcome = "aborted"

IInv == StackInv /\ ScalarsInv /\ AbortInv

\* What the rest of the stack relies on in a run.
SameFrame(f, g) ==
  /\ g.plan = f.plan /\ g.node = f.node /\ g.authorized = f.authorized
  /\ g.maxDepth = f.maxDepth /\ g.pc = f.pc
-----------------------------------------------------------------------------
(* Facts about sequences and plans.                                        *)

LEMMA FunctionIsSeq ==
  ASSUME NEW S, NEW n \in Nat, NEW s \in [1..n -> S]
  PROVE  s \in Seq(S) /\ Len(s) = n
OBVIOUS

LEMMA AppendedAt ==
  ASSUME NEW S, NEW s \in Seq(S), NEW e \in S
  PROVE  /\ Append(s, e)[Len(s) + 1] = e
         /\ \A k \in 1..Len(s) : Append(s, e)[k] = s[k]
OBVIOUS

LEMMA PlanFacts ==
  ASSUME NEW p \in PlanNames
  PROVE  /\ Plans[p].maxDepth \in Nat /\ Plans[p].force \in BOOLEAN
         /\ \A n \in DOMAIN Plans[p].nodes :
              /\ Plans[p].nodes[n].commands \in Seq(Op)
              /\ Len(Plans[p].nodes[n].edges) \in Nat
              /\ DOMAIN Plans[p].nodes[n].edges = 1..Len(Plans[p].nodes[n].edges)
              /\ \A i \in DOMAIN Plans[p].nodes[n].edges : Plans[p].nodes[n].edges[i].when \in Conditions
              /\ Plans[p].nodes[n].parallel \in BOOLEAN /\ Plans[p].nodes[n].mutates \in BOOLEAN
              /\ Plans[p].nodes[n].force \in BOOLEAN
BY PlanAssumption

LEMMA ForcedBoolean ==
  ASSUME NEW f \in FrameT, f.node \in DOMAIN Plans[f.plan].nodes
  PROVE  Forced(f) \in BOOLEAN
<1>1. f.plan \in PlanNames /\ f.authorized \in BOOLEAN
  BY DEF FrameT
<1> QED
  BY <1>1, PlanFacts DEF Forced, NodeOf

LEMMA RootFrame ==
  ASSUME NEW p \in PlanNames, Valid(Plans[p]), NEW c, NEW path \in Nat,
         c.depth \in Nat, c.maxDepth \in Nat, c.authorized \in BOOLEAN,
         c.depth <= c.maxDepth + 1, path = c.depth
  PROVE  FrameInv(Frame(p, c, path))
<1> DEFINE f == Frame(p, c, path)
<1>1. Plans[p].root \in DOMAIN Plans[p].nodes
  BY DEF Valid
<1>2. f \in FrameT
  <2>1. Plans[p].root \in UNION {DOMAIN Plans[q].nodes : q \in PlanNames}
    BY <1>1
  <2>2. <<>> \in Seq(Results)
    OBVIOUS
  <2> QED
    BY <2>1, <2>2 DEF Frame, FrameT, Conditions
<1>3. /\ f.plan = p /\ f.node = Plans[p].root /\ f.pc = "enter" /\ f.ops = <<>>
      /\ f.via = "always" /\ f.path = path /\ f.depth = c.depth /\ f.maxDepth = c.maxDepth
  BY DEF Frame
<1>4. \A i \in DOMAIN f.ops : FALSE
  BY <1>3
<1> QED
  BY <1>1, <1>2, <1>3, <1>4 DEF FrameInv
-----------------------------------------------------------------------------
(* The three ways in which the stack changes.                              *)

\* The run on top goes on.
LEMMA Replace ==
  ASSUME StackInv, stack # <<>>, NEW g, FrameInv(g), Becomes(g),
         g.plan = Top.plan, g.authorized = Top.authorized, g.maxDepth = Top.maxDepth,
         shellOff' = shellOff
  PROVE  StackInv'
<1> DEFINE n == Len(stack)
<1>1. n \in Nat /\ n >= 1 /\ stack \in Seq(FrameT)
  BY DEF StackInv
<1>2. g \in FrameT
  BY DEF FrameInv
<1>3. stack' \in Seq(FrameT) /\ Len(stack') = n
  BY <1>1, <1>2 DEF Becomes
<1>4. \A k \in 1..n : stack'[k] = IF k = n THEN g ELSE stack[k]
  BY <1>1 DEF Becomes
<1>5. \A k \in 1..n : FrameInv(stack'[k]) /\ stack'[k].plan = stack[k].plan
  BY <1>1, <1>4 DEF StackInv, Top
<1>6. \A j, k \in 1..n : j < k => Encloses(stack'[j], stack'[k])
  <2> SUFFICES ASSUME NEW j \in 1..n, NEW k \in 1..n, j < k
               PROVE  Encloses(stack'[j], stack'[k])
    OBVIOUS
  <2>1. stack'[j] = stack[j] /\ Encloses(stack[j], stack[k])
    BY <1>1, <1>4 DEF StackInv
  <2>2. stack'[k].authorized = stack[k].authorized /\ stack'[k].maxDepth = stack[k].maxDepth
    BY <1>1, <1>4 DEF Top
  <2> QED
    BY <2>1, <2>2 DEF Encloses
<1>7. stack'[1].maxDepth = Outermost(Plans[stack'[1].plan]).maxDepth
  BY <1>1, <1>4 DEF StackInv, Top
<1> QED
  BY <1>3, <1>5, <1>6, <1>7 DEF StackInv

\* The run on top starts a nested one.
LEMMA Push ==
  ASSUME StackInv, stack # <<>>, NEW f, NEW g, FrameInv(f), FrameInv(g),
         stack' = Append([stack EXCEPT ![Len(stack)] = f], g),
         SameFrame(Top, f), Encloses(f, g), g.authorized => f.authorized,
         shellOff => NoShell(Plans[g.plan]), shellOff' = shellOff
  PROVE  StackInv'
<1> DEFINE n == Len(stack)
<1>1. n \in Nat /\ n >= 1 /\ stack \in Seq(FrameT)
  BY DEF StackInv
<1>2. f \in FrameT /\ g \in FrameT
  BY DEF FrameInv
<1>3. [stack EXCEPT ![n] = f] \in Seq(FrameT) /\ Len([stack EXCEPT ![n] = f]) = n
  BY <1>1, <1>2
<1>4. stack' \in Seq(FrameT) /\ Len(stack') = n + 1
  BY <1>2, <1>3
<1>5. \A k \in 1..(n + 1) : stack'[k] = IF k = n + 1 THEN g ELSE IF k = n THEN f ELSE stack[k]
  <2> SUFFICES ASSUME NEW k \in 1..(n + 1)
               PROVE  stack'[k] = IF k = n + 1 THEN g ELSE IF k = n THEN f ELSE stack[k]
    OBVIOUS
  <2> DEFINE s == [stack EXCEPT ![n] = f]
  <2>3. s \in Seq(FrameT) /\ Len(s) = n /\ stack' = Append(s, g)
    BY <1>3
  <2>1. CASE k = n + 1
    <3> HIDE DEF s
    <3>1. stack'[Len(s) + 1] = g
      BY <1>2, <2>3, AppendedAt
    <3> QED
      BY <2>1, <2>3, <3>1
  <2>2. CASE k # n + 1
    <3>1. k \in 1..n
      BY <1>1, <2>2
    <3>2. stack'[k] = [stack EXCEPT ![n] = f][k]
      BY <1>2, <1>3, <3>1, AppendedAt
    <3> QED
      BY <1>1, <2>2, <3>1, <3>2
  <2> QED
    BY <2>1, <2>2
<1>6. \A k \in 1..(n + 1) : FrameInv(stack'[k])
  BY <1>1, <1>5 DEF StackInv
<1>9. shellOff => \A k \in 1..(n + 1) : NoShell(Plans[stack'[k].plan])
  BY <1>1, <1>5 DEF StackInv, SameFrame, Top
<1>7. \A j, k \in 1..(n + 1) : j < k => Encloses(stack'[j], stack'[k])
  <2> SUFFICES ASSUME NEW j \in 1..(n + 1), NEW k \in 1..(n + 1), j < k
               PROVE  Encloses(stack'[j], stack'[k])
    OBVIOUS
  <2>1. j \in 1..n /\ (k <= n => k \in 1..n)
    BY <1>1
  <2>2. CASE k <= n
    <3>1. stack'[j] = stack[j] /\ Encloses(stack[j], stack[k])
      BY <1>1, <1>5, <2>1, <2>2 DEF StackInv
    <3>2. stack'[k].authorized = stack[k].authorized /\ stack'[k].maxDepth = stack[k].maxDepth
      BY <1>1, <1>5, <2>2 DEF Top, SameFrame
    <3> QED
      BY <3>1, <3>2 DEF Encloses
  <2>3. CASE k = n + 1 /\ j = n
    BY <1>1, <1>5, <2>3
  <2>4. CASE k = n + 1 /\ j < n
    <3>1. stack'[j] = stack[j] /\ stack'[k] = g
      BY <1>1, <1>5, <2>1, <2>4
    <3>2. Encloses(stack[j], Top)
      BY <1>1, <2>1, <2>4 DEF StackInv, Top
    <3>3. g.authorized => Top.authorized
      BY DEF SameFrame
    <3>4. g.maxDepth <= stack[j].maxDepth
      <4>1. g.maxDepth <= Top.maxDepth /\ Top.maxDepth <= stack[j].maxDepth
        BY <3>2 DEF Encloses, SameFrame
      <4>2. g.maxDepth \in Nat /\ Top.maxDepth \in Nat /\ stack[j].maxDepth \in Nat
        <5>1. Top \in FrameT /\ stack[j] \in FrameT
          BY <1>1, <2>1 DEF Top
        <5> QED
          BY <1>2, <5>1 DEF FrameT
      <4> QED
        BY <4>1, <4>2
    <3> QED
      BY <3>1, <3>2, <3>3, <3>4 DEF Encloses
  <2> QED
    BY <1>1, <2>1, <2>2, <2>3, <2>4
<1>8. stack'[1].maxDepth = Outermost(Plans[stack'[1].plan]).maxDepth
  BY <1>1, <1>5 DEF StackInv, SameFrame, Top
<1> QED
  BY <1>1, <1>4, <1>6, <1>7, <1>8, <1>9 DEF StackInv

\* What a run is told about its nested run leaves the run in order.
LEMMA ToldFrame ==
  ASSUME NEW f, FrameInv(f), NEW well
  PROVE  FrameInv(Told(f, well)) /\ SameFrame(f, Told(f, well))
<1> DEFINE g == Told(f, well)
<1>1. f \in FrameT
  BY DEF FrameInv
<1>2. f.ops \in Seq(Results)
  BY <1>1 DEF FrameT
<1>3. /\ g.ops = [i \in DOMAIN f.ops |->
                   IF f.ops[i] # "running" THEN f.ops[i] ELSE IF well THEN "ok" ELSE "failed"]
      /\ g.plan = f.plan /\ g.node = f.node /\ g.depth = f.depth /\ g.maxDepth = f.maxDepth
      /\ g.authorized = f.authorized /\ g.pc = f.pc /\ g.edge = f.edge /\ g.via = f.via
      /\ g.path = f.path
  BY <1>1 DEF Told, FrameT
<1>4. g.ops \in Seq(Results)
  <2>1. f.ops \in [1..Len(f.ops) -> Results] /\ Len(f.ops) \in Nat /\ DOMAIN f.ops = 1..Len(f.ops)
    BY <1>2
  <2>2. g.ops \in [1..Len(f.ops) -> Results]
    BY <1>3, <2>1 DEF Results
  <2> QED
    BY <2>1, <2>2
<1>5. g \in FrameT
  BY <1>1, <1>3, <1>4 DEF Told, FrameT
<1>6. \A i \in DOMAIN g.ops : g.ops[i] # "running"
  BY <1>3
<1>7. DOMAIN g.ops = DOMAIN f.ops
  BY <1>3
<1>8. NodeOf(g) = NodeOf(f) /\ Commands(g) = Commands(f)
  BY <1>3 DEF NodeOf, Commands
<1> QED
  BY <1>3, <1>5, <1>6, <1>7, <1>8 DEF FrameInv, SameFrame

\* The run on top ends.
LEMMA Pop ==
  ASSUME StackInv, stack # <<>>, NEW reason, Reports(reason), shellOff' = shellOff
  PROVE  StackInv' /\ Len(stack') = Len(stack) - 1
<1> DEFINE n == Len(stack) - 1
           well == reason = "leaf" /\ Succeeded(Top)
<1>1. n \in Nat /\ stack \in Seq(FrameT) /\ Len(stack) = n + 1
  BY DEF StackInv
<1>2. stack' = [k \in 1..n |-> IF k = n THEN Told(stack[k], well) ELSE stack[k]]
  BY DEF Reports
<1>3. \A k \in 1..n : FrameInv(stack'[k]) /\ SameFrame(stack[k], stack'[k])
  <2> SUFFICES ASSUME NEW k \in 1..n PROVE FrameInv(stack'[k]) /\ SameFrame(stack[k], stack'[k])
    OBVIOUS
  <2>1. FrameInv(stack[k])
    BY <1>1 DEF StackInv
  <2>2. CASE k = n
    BY <1>2, <2>1, <2>2, ToldFrame
  <2>3. CASE k # n
    BY <1>2, <2>1, <2>3 DEF SameFrame
  <2> QED
    BY <2>2, <2>3
<1>4. stack' \in Seq(FrameT) /\ Len(stack') = n
  <2>1. stack' \in [1..n -> FrameT]
    BY <1>2, <1>3 DEF FrameInv
  <2> QED
    BY <1>1, <2>1, FunctionIsSeq
<1>6. \A j, k \in 1..n : j < k => Encloses(stack'[j], stack'[k])
  <2> SUFFICES ASSUME NEW j \in 1..n, NEW k \in 1..n, j < k PROVE Encloses(stack'[j], stack'[k])
    OBVIOUS
  <2>1. Encloses(stack[j], stack[k])
    BY <1>1 DEF StackInv
  <2>2. SameFrame(stack[j], stack'[j]) /\ SameFrame(stack[k], stack'[k])
    BY <1>3
  <2> QED
    BY <2>1, <2>2 DEF Encloses, SameFrame, Forced, NodeOf
<1>7. n > 0 => stack'[1].maxDepth = Outermost(Plans[stack'[1].plan]).maxDepth
  BY <1>1, <1>3 DEF StackInv, SameFrame
<1>8. stack' # <<>> => n > 0
  BY <1>1, <1>4
<1> QED
  BY <1>1, <1>3, <1>4, <1>6, <1>7, <1>8 DEF StackInv, SameFrame
-----------------------------------------------------------------------------
(* The steps.                                                              *)

LEMMA TopFacts ==
  ASSUME StackInv, stack # <<>>
  PROVE  /\ Len(stack) \in Nat \ {0} /\ FrameInv(Top) /\ Top \in FrameT
         /\ Top.plan \in PlanNames /\ Top.node \in DOMAIN Plans[Top.plan].nodes
         /\ Commands(Top) \in Seq(Op)
<1>1. Len(stack) \in Nat \ {0} /\ FrameInv(Top)
  BY DEF StackInv, Top
<1>2. Top \in FrameT /\ Top.node \in DOMAIN Plans[Top.plan].nodes
  BY <1>1 DEF FrameInv
<1>3. Top.plan \in PlanNames
  BY <1>2 DEF FrameT
<1> QED
  BY <1>1, <1>2, <1>3, PlanFacts DEF Commands, NodeOf

LEMMA SetOp ==
  ASSUME NEW f, FrameInv(f), f.pc = "ops", NEW i \in DOMAIN f.ops, NEW r \in Results,
         r = "running" => Admits(f, Commands(f)[i])
  PROVE  /\ FrameInv([f EXCEPT !.ops[i] = r]) /\ SameFrame(f, [f EXCEPT !.ops[i] = r])
         /\ [f EXCEPT !.ops[i] = r].path = f.depth + 1
<1> DEFINE g == [f EXCEPT !.ops[i] = r]
<1>1. f \in FrameT
  BY DEF FrameInv
<1>2. /\ g.ops = [f.ops EXCEPT ![i] = r]
      /\ g.plan = f.plan /\ g.node = f.node /\ g.depth = f.depth /\ g.maxDepth = f.maxDepth
      /\ g.authorized = f.authorized /\ g.pc = f.pc /\ g.edge = f.edge /\ g.via = f.via
      /\ g.path = f.path
  BY <1>1 DEF FrameT
<1>3. f.ops \in Seq(Results)
  BY <1>1 DEF FrameT
<1>4. g.ops \in Seq(Results) /\ DOMAIN g.ops = DOMAIN f.ops
  BY <1>2, <1>3
<1>5. g \in FrameT
  BY <1>1, <1>2, <1>4 DEF FrameT
<1>6. NodeOf(g) = NodeOf(f) /\ Commands(g) = Commands(f) /\ Forced(g) = Forced(f)
  BY <1>2 DEF NodeOf, Commands, Forced
<1>7. \A j \in DOMAIN g.ops : g.ops[j] = "running" => g.pc = "ops" /\ Admits(g, Commands(g)[j])
  BY <1>2, <1>3, <1>4, <1>6 DEF FrameInv, Admits
<1> QED
  BY <1>2, <1>4, <1>5, <1>6, <1>7 DEF FrameInv, SameFrame

\* The effect of a report on the outcome.
LEMMA ReportScalars ==
  ASSUME IInv, stack # <<>>, NEW reason \in Reasons, Reports(reason),
         UNCHANGED <<shellOff, reserved, cancelled, ran>>,
         reason = "aborted" => cancelled,
         cancelled => reason = "aborted" \/ Top.pc = "edges"
  PROVE  IInv'
<1>1. StackInv' /\ Len(stack') = Len(stack) - 1
  BY Pop DEF IInv
<1>2. ScalarsInv'
  BY DEF IInv, ScalarsInv, Reports
<1>3. AbortInv'
  <2> DEFINE n == Len(stack) - 1
  <2>1. n \in Nat /\ Len(stack) = n + 1 /\ stack \in Seq(FrameT)
    BY DEF IInv, StackInv
  <2>2. outcome = "none"
    BY DEF IInv, AbortInv
  <2>3. /\ aborted' = (aborted \/ reason = "aborted")
        /\ outcome' = IF n = 0 THEN reason ELSE outcome
        /\ stack' = [k \in 1..n |-> IF k = n THEN Told(stack[k], reason = "leaf" /\ Succeeded(Top))
                                             ELSE stack[k]]
    BY DEF Reports
  <2>4. \A k \in 1..n : stack'[k].pc = "ops"
    <3> SUFFICES ASSUME NEW k \in 1..n PROVE stack'[k].pc = "ops"
      OBVIOUS
    <3>1. Encloses(stack[k], stack[n + 1]) /\ FrameInv(stack[k])
      BY <2>1 DEF IInv, StackInv
    <3> QED
      BY <2>3, <3>1, ToldFrame DEF Encloses, SameFrame
  <2>5. Len(stack') = n
    BY <1>1
  <2>6. stack' # <<>> <=> n # 0
    BY <1>1, <2>1, <2>5 DEF StackInv
  <2>7. aborted' => cancelled /\ reason = "aborted"
    <3>1. Top = stack[n + 1] /\ n + 1 \in 1..Len(stack)
      BY <2>1 DEF Top
    <3>2. aborted => cancelled /\ Top.pc = "ops"
      BY <3>1 DEF IInv, AbortInv
    <3> QED
      BY <2>3, <3>2
  <2> QED
    BY <2>2, <2>3, <2>4, <2>5, <2>6, <2>7 DEF AbortInv
<1> QED
  BY <1>1, <1>2, <1>3 DEF IInv

\* The effect of a step of the run on top.
LEMMA ReplaceScalars ==
  ASSUME IInv, stack # <<>>, NEW g, FrameInv(g), Becomes(g),
         g.plan = Top.plan, g.authorized = Top.authorized, g.maxDepth = Top.maxDepth,
         UNCHANGED <<shellOff, cancelled, outcome, aborted>>, ScalarsInv',
         aborted => g.pc = "ops"
  PROVE  IInv'
<1>1. StackInv'
  BY Replace DEF IInv
<1>2. AbortInv'
  <2>1. Len(stack) \in Nat /\ stack \in Seq(FrameT)
    BY DEF IInv, StackInv
  <2>2. Len(stack') = Len(stack) /\ \A k \in 1..Len(stack) : stack'[k] \in {g, stack[k]}
    BY <2>1 DEF Becomes
  <2> QED
    BY <2>1, <2>2 DEF IInv, AbortInv
<1> QED
  BY <1>1, <1>2 DEF IInv

LEMMA InitStep == Init => IInv
<1> SUFFICES ASSUME Init PROVE IInv
  OBVIOUS
<1>1. stack = <<>> /\ outcome = "none" /\ aborted = FALSE
  BY DEF Init
<1>2. StackInv
  BY <1>1 DEF StackInv
<1>3. ScalarsInv
  <2>1. 0 \in 0..MaxOperations /\ 0 \in 0..(MaxOperations + 1)
    BY PlanAssumption
  <2> QED
    BY <2>1 DEF Init, ScalarsInv
<1> QED
  BY <1>1, <1>2, <1>3 DEF IInv, AbortInv

LEMMA SubmitStep == IInv /\ Submit => IInv'
<1> SUFFICES ASSUME IInv, Submit PROVE IInv'
  OBVIOUS
<1>1. /\ stack = <<>> /\ outcome = "none"
      /\ UNCHANGED <<shellOff, reserved, cancelled, ran, aborted>>
  BY DEF Submit
<1>2. ~aborted
  BY <1>1 DEF IInv, AbortInv
<1>3. CASE UNCHANGED stack /\ outcome' = "refused"
  BY <1>1, <1>2, <1>3 DEF IInv, StackInv, ScalarsInv, AbortInv
<1>4. ASSUME NEW p \in Submitted, Accepted(Plans[p]), UNCHANGED outcome,
             stack' = <<Frame(p, Outermost(Plans[p]), 0)>>
      PROVE  IInv'
  <2> DEFINE f == Frame(p, Outermost(Plans[p]), 0)
  <2>1. p \in PlanNames
    BY PlanAssumption
  <2>2. Outermost(Plans[p]).maxDepth \in Nat
    BY <2>1, PlanFacts, PlanAssumption DEF Outermost
  <2>3. FrameInv(f)
    <3> DEFINE c == Outermost(Plans[p])
    <3>1. c.depth = 0 /\ c.authorized = TRUE /\ c.maxDepth \in Nat /\ Valid(Plans[p])
      BY <1>4, <2>2 DEF Outermost, Accepted
    <3> HIDE DEF c
    <3>2. \A m \in Nat : 0 <= m + 1
      OBVIOUS
    <3>3. c.depth <= c.maxDepth + 1
      BY <3>1, <3>2
    <3>4. FrameInv(Frame(p, c, 0))
      <4>1. c.depth \in Nat /\ 0 \in Nat /\ 0 = c.depth
        BY <3>1
      <4>2. c.authorized \in BOOLEAN
        BY <3>1
      <4> QED
        BY <2>1, <3>1, <3>3, <4>1, <4>2, RootFrame
    <3> QED
      BY <3>4 DEF c
  <2>4. f \in FrameT /\ f.plan = p /\ f.maxDepth = Outermost(Plans[p]).maxDepth
    BY <2>3 DEF FrameInv, Frame
  <2>5. stack' \in Seq(FrameT) /\ Len(stack') = 1 /\ stack'[1] = f
    BY <1>4, <2>4
  <2>6. shellOff => NoShell(Plans[p])
    BY <1>4 DEF Accepted
  <2>7. StackInv'
    BY <1>1, <2>3, <2>4, <2>5, <2>6 DEF StackInv
  <2> QED
    BY <1>1, <1>2, <1>4, <2>7 DEF IInv, ScalarsInv, AbortInv
<1> QED
  BY <1>3, <1>4 DEF Submit

LEMMA EnterStep == IInv /\ Enter => IInv'
<1> SUFFICES ASSUME IInv, Enter PROVE IInv'
  OBVIOUS
<1> DEFINE g == [Top EXCEPT !.pc = "ops", !.edge = 1, !.path = @ + 1,
                            !.ops = [i \in DOMAIN Commands(Top) |-> "pending"]]
<1>1. /\ stack # <<>> /\ Top.pc = "enter" /\ ~cancelled /\ Top.depth <= Top.maxDepth
      /\ ~OverBudget(Top) /\ reserved' = reserved + Len(Commands(Top)) /\ Becomes(g)
      /\ UNCHANGED <<shellOff, cancelled, outcome, ran, aborted>>
  BY DEF Enter
<1>2. FrameInv(Top) /\ Top \in FrameT /\ Commands(Top) \in Seq(Op)
  BY <1>1, TopFacts DEF IInv
<1>3. /\ g.ops = [i \in DOMAIN Commands(Top) |-> "pending"]
      /\ g.plan = Top.plan /\ g.node = Top.node /\ g.depth = Top.depth
      /\ g.maxDepth = Top.maxDepth /\ g.authorized = Top.authorized /\ g.pc = "ops"
      /\ g.edge = 1 /\ g.via = Top.via /\ g.path = Top.path + 1
  BY <1>2 DEF FrameT
<1>4. g.ops \in Seq(Results)
  <2>1. DOMAIN Commands(Top) = 1..Len(Commands(Top)) /\ Len(Commands(Top)) \in Nat
    BY <1>2
  <2>2. g.ops \in [1..Len(Commands(Top)) -> Results]
    BY <1>3, <2>1 DEF Results
  <2> QED
    BY <2>1, <2>2, FunctionIsSeq
<1>5. g \in FrameT
  <2> DEFINE o == g.ops
  <2>1. Top.path + 1 \in Nat
    BY <1>2 DEF FrameT
  <2>2. o \in Seq(Results) /\ g = [Top EXCEPT !.pc = "ops", !.edge = 1, !.path = @ + 1, !.ops = o]
    BY <1>3, <1>4
  <2> HIDE DEF o, g
  <2>3. [Top EXCEPT !.pc = "ops", !.edge = 1, !.path = @ + 1, !.ops = o] \in FrameT
    <3>1. 1 \in Nat \ {0}
      OBVIOUS
    <3>2. "ops" \in {"enter", "ops", "edges"}
      OBVIOUS
    <3>3. \A x \in Nat \ {0} : [Top EXCEPT !.edge = x] \in FrameT
      BY <1>2 DEF FrameT
    <3>4. \A f \in FrameT : \A y \in Nat : [f EXCEPT !.pc = "ops", !.path = y, !.ops = o] \in FrameT
      BY <2>2 DEF FrameT
    <3>5. [[Top EXCEPT !.edge = 1] EXCEPT !.pc = "ops", !.path = Top.path + 1, !.ops = o] \in FrameT
      BY <3>1, <3>3, <3>4, <2>1
    <3> QED
      BY <3>5, <1>2 DEF FrameT
  <2> QED
    BY <2>2, <2>3
<1>6. NodeOf(g) = NodeOf(Top) /\ Commands(g) = Commands(Top)
  BY <1>3 DEF NodeOf, Commands
<1>7. FrameInv(g)
  BY <1>1, <1>2, <1>3, <1>5, <1>6 DEF FrameInv
<1>8. ScalarsInv'
  <2>1. reserved' \in 0..MaxOperations
    BY <1>1, <1>2, PlanAssumption DEF OverBudget, IInv, ScalarsInv
  <2> QED
    BY <1>1, <2>1 DEF IInv, ScalarsInv
<1> QED
  BY <1>1, <1>3, <1>7, <1>8, ReplaceScalars

LEMMA NotEnteredStep == IInv /\ NotEntered => IInv'
<1> SUFFICES ASSUME IInv, NotEntered PROVE IInv'
  OBVIOUS
<1>1. stack # <<>> /\ UNCHANGED <<shellOff, reserved, cancelled, ran>>
  BY DEF NotEntered
<1>2. PICK reason \in Reasons : Reports(reason) /\ (cancelled <=> reason = "aborted")
  BY DEF NotEntered, Reasons
<1> QED
  BY <1>1, <1>2, ReportScalars

LEMMA SimpleOperationStep ==
  ASSUME IInv, stack # <<>>, Top.pc = "ops", NEW i \in DOMAIN Top.ops, NEW r \in Results,
         r = "running" => Admits(Top, Commands(Top)[i]),
         Becomes([Top EXCEPT !.ops[i] = r]),
         UNCHANGED <<shellOff, reserved, cancelled, outcome, aborted>>,
         ran' \in 0..(MaxOperations + 1)
  PROVE  IInv'
<1> DEFINE g == [Top EXCEPT !.ops[i] = r]
<1>1. FrameInv(Top)
  BY TopFacts DEF IInv
<1>2. FrameInv(g) /\ SameFrame(Top, g)
  BY <1>1, SetOp
<1>3. ScalarsInv'
  BY DEF IInv, ScalarsInv
<1>4. g.plan = Top.plan /\ g.authorized = Top.authorized /\ g.maxDepth = Top.maxDepth /\ g.pc = "ops"
  BY <1>2 DEF SameFrame
<1> HIDE DEF g
<1>5. Becomes(g)
  BY DEF g
<1> QED
  BY <1>2, <1>3, <1>4, <1>5, ReplaceScalars

LEMMA CountedType == IInv /\ Counted => ran' \in 0..(MaxOperations + 1)
BY PlanAssumption DEF IInv, ScalarsInv, Counted, Min2

\* Only a serial node runs a nested plan, and it looks at the context first.
LEMMA NestedNotCancelled ==
  ASSUME IInv, NEW i, StartNested(i)
  PROVE  /\ NodeOf(Top).mutates /\ ~cancelled /\ Commands(Top)[i].plan \in PlanNames
         /\ i \in DOMAIN Top.ops /\ Top.pc = "ops" /\ stack # <<>>
<1>1. /\ stack # <<>> /\ Top.pc = "ops" /\ i \in DOMAIN Top.ops /\ Turn(Top, i)
      /\ Admits(Top, Commands(Top)[i]) /\ Commands(Top)[i].kind = "run_plan"
  BY DEF StartNested, Ready
<1>2. /\ FrameInv(Top) /\ Top.plan \in PlanNames /\ Commands(Top) \in Seq(Op)
      /\ Top.node \in DOMAIN Plans[Top.plan].nodes
  BY <1>1, TopFacts DEF IInv
<1>3. NodeOf(Top).mutates
  BY <1>1 DEF Admits
<1>4. ~NodeOf(Top).parallel
  BY <1>2, <1>3 DEF FrameInv, Valid, NodeOf
<1>5. ~cancelled
  BY <1>1, <1>4 DEF Turn
<1>6. Commands(Top)[i] \in Op
  BY <1>1, <1>2 DEF FrameInv
<1> QED
  BY <1>1, <1>3, <1>5, <1>6 DEF Op

LEMMA NestedStep == IInv /\ (\E i \in DOMAIN Top.ops : StartNested(i)) => IInv'
<1> SUFFICES ASSUME IInv, NEW i \in DOMAIN Top.ops, StartNested(i) PROVE IInv'
  OBVIOUS
<1> DEFINE p == Commands(Top)[i].plan
           c == Nested(Top, Plans[p])
           f == [Top EXCEPT !.ops[i] = "running"]
           g == Frame(p, c, Top.path)
<1>1. /\ stack # <<>> /\ Top.pc = "ops" /\ Admits(Top, Commands(Top)[i]) /\ Counted
      /\ UNCHANGED <<shellOff, reserved, cancelled, outcome, aborted>>
  BY DEF StartNested, Ready
<1>2. NodeOf(Top).mutates /\ ~cancelled /\ p \in PlanNames
  BY NestedNotCancelled
<1>3. ran' \in 0..(MaxOperations + 1)
  BY <1>1, CountedType
<1>4. CASE Becomes([Top EXCEPT !.ops[i] = "failed"])
  BY <1>1, <1>3, <1>4, SimpleOperationStep DEF Results
<1>5. CASE /\ Accepted(Plans[p]) /\ c.depth <= c.maxDepth
           /\ stack' = Append([stack EXCEPT ![Len(stack)] = f], g)
  <2>1. FrameInv(Top) /\ Top \in FrameT /\ Top.node \in DOMAIN Plans[Top.plan].nodes
    BY <1>1, TopFacts DEF IInv
  <2>2. FrameInv(f) /\ SameFrame(Top, f)
    BY <1>1, <2>1, SetOp DEF Results
  <2>3. Top.path = Top.depth + 1 /\ Top.depth \in Nat /\ Top.maxDepth \in Nat
    BY <1>1, <2>1 DEF FrameInv, FrameT
  <2>4. c.depth = Top.depth + 1 /\ c.authorized = Forced(Top) /\ c.authorized \in BOOLEAN
    BY <2>1, ForcedBoolean DEF Nested
  <2>5. c.maxDepth \in Nat /\ c.maxDepth <= Top.maxDepth
    <3>1. Plans[p].maxDepth \in Nat
      BY <1>2, PlanFacts
    <3> QED
      BY <2>3, <3>1 DEF Nested, Min2
  <2>6. /\ g.authorized = c.authorized /\ g.maxDepth = c.maxDepth /\ g.plan = p /\ g.pc = "enter"
    BY DEF Frame
  <2>7. FrameInv(g)
    <3>1. Valid(Plans[p]) /\ c.depth \in Nat /\ c.depth <= c.maxDepth + 1 /\ Top.path \in Nat
      BY <1>5, <2>3, <2>4, <2>5 DEF Accepted
    <3> HIDE DEF c, p
    <3> QED
      BY <1>2, <2>3, <2>4, <2>5, <3>1, RootFrame
  <2>8. Encloses(f, g)
    <3>1. f.pc = "ops" /\ NodeOf(f).mutates /\ (Forced(Top) => Forced(f))
      BY <1>1, <1>2, <2>2 DEF SameFrame, NodeOf, Forced
    <3>2. g.maxDepth <= f.maxDepth
      BY <2>2, <2>5, <2>6 DEF SameFrame
    <3> QED
      BY <2>4, <2>6, <3>1, <3>2 DEF Encloses
  <2>9. g.authorized => f.authorized
    BY <2>2, <2>4, <2>6 DEF Forced, SameFrame
  <2>10. shellOff => NoShell(Plans[g.plan])
    BY <1>5, <2>6 DEF Accepted
  <2>11. StackInv'
    <3> HIDE DEF f, g
    <3> QED
      BY <1>1, <1>5, <2>2, <2>7, <2>8, <2>9, <2>10, Push DEF IInv
  <2>12. ScalarsInv'
    BY <1>1, <1>3 DEF IInv, ScalarsInv
  <2>13. ~aborted' /\ outcome' = "none"
    BY <1>1, <1>2 DEF IInv, AbortInv
  <2> QED
    BY <2>11, <2>12, <2>13 DEF IInv, AbortInv
<1> QED
  BY <1>4, <1>5 DEF StartNested

LEMMA OperationStep == IInv /\ stack # <<>> /\ Operation => IInv'
<1> SUFFICES ASSUME IInv, stack # <<>>, NEW i \in DOMAIN Top.ops,
                    Block(i) \/ Start(i) \/ Finish(i) \/ StartNested(i)
             PROVE  IInv'
  BY DEF Operation
<1>1. ran \in 0..(MaxOperations + 1)
  BY DEF IInv, ScalarsInv
<1>2. CASE Block(i)
  BY <1>1, <1>2, SimpleOperationStep DEF Block, Ready, Results
<1>3. CASE Start(i)
  BY <1>3, CountedType, SimpleOperationStep DEF Start, Ready, Results
<1>4. CASE Finish(i)
  <2>1. PICK r \in {"ok", "failed", "ok_nonzero"} : Becomes([Top EXCEPT !.ops[i] = r])
    BY <1>4 DEF Finish
  <2> QED
    BY <1>1, <1>4, <2>1, SimpleOperationStep DEF Finish, Results
<1>5. CASE StartNested(i)
  BY <1>5, NestedStep
<1> QED
  BY <1>2, <1>3, <1>4, <1>5

LEMMA JudgeStep == IInv /\ Judge => IInv'
<1> SUFFICES ASSUME IInv, Judge PROVE IInv'
  OBVIOUS
<1>1. stack # <<>> /\ Top.pc = "ops" /\ UNCHANGED <<shellOff, reserved, cancelled, ran>> /\ Settled(Top)
  BY DEF Judge
<1>2. ASSUME NEW reason \in Reasons, Reports(reason), cancelled <=> reason = "aborted" PROVE IInv'
  BY <1>1, <1>2, ReportScalars
<1>3. CASE /\ ~cancelled /\ UNCHANGED <<outcome, aborted>> /\ Becomes([Top EXCEPT !.pc = "edges"])
           /\ \A i \in DOMAIN Top.ops : Top.ops[i] # "blocked"
  <2> DEFINE g == [Top EXCEPT !.pc = "edges"]
  <2>1. FrameInv(Top) /\ Top \in FrameT
    BY <1>1, TopFacts DEF IInv
  <2>2. /\ g \in FrameT /\ g.plan = Top.plan /\ g.node = Top.node /\ g.depth = Top.depth
        /\ g.maxDepth = Top.maxDepth /\ g.authorized = Top.authorized /\ g.pc = "edges"
        /\ g.via = Top.via /\ g.path = Top.path /\ g.ops = Top.ops
    BY <2>1 DEF FrameT
  <2>3. NodeOf(g) = NodeOf(Top) /\ Commands(g) = Commands(Top)
    BY <2>2 DEF NodeOf, Commands
  <2>4. FrameInv(g)
    BY <1>1, <2>1, <2>2, <2>3 DEF FrameInv, Settled
  <2>5. ScalarsInv' /\ ~aborted
    BY <1>1, <1>3 DEF IInv, ScalarsInv, AbortInv
  <2> QED
    BY <1>1, <1>3, <2>2, <2>4, <2>5, ReplaceScalars
<1>4. {"aborted", "resource_limit", "mutation_blocked"} \subseteq Reasons
  BY DEF Reasons
<1> QED
  BY <1>2, <1>3, <1>4 DEF Judge

LEMMA EdgeHere ==
  ASSUME NEW f \in FrameT, f.node \in DOMAIN Plans[f.plan].nodes,
         f.edge <= Len(NodeOf(f).edges)
  PROVE  f.edge \in DOMAIN NodeOf(f).edges
<1>1. f.plan \in PlanNames /\ f.edge \in Nat /\ f.edge >= 1
  BY DEF FrameT
<1>2. Len(NodeOf(f).edges) \in Nat /\ DOMAIN NodeOf(f).edges = 1..Len(NodeOf(f).edges)
  BY <1>1, PlanFacts DEF NodeOf
<1> QED
  BY <1>1, <1>2

LEMMA EvaluateEdgeStep == IInv /\ EvaluateEdge => IInv'
<1> SUFFICES ASSUME IInv, EvaluateEdge PROVE IInv'
  OBVIOUS
<1> DEFINE e == NodeOf(Top).edges[Top.edge]
<1>1. /\ stack # <<>> /\ Top.pc = "edges" /\ UNCHANGED <<shellOff, reserved, cancelled, ran>>
      /\ Top.edge <= Len(NodeOf(Top).edges)
  BY DEF EvaluateEdge
<1>2. /\ FrameInv(Top) /\ Top \in FrameT /\ Top.plan \in PlanNames
      /\ Top.node \in DOMAIN Plans[Top.plan].nodes
  BY <1>1, TopFacts DEF IInv
<1>3. ASSUME NEW reason \in Reasons, Reports(reason), reason = "aborted" => cancelled PROVE IInv'
  BY <1>1, <1>3, ReportScalars
<1>4. ~aborted
  BY <1>1, <1>2, TopFacts DEF IInv, AbortInv, Top
<1>5. ASSUME NEW g \in FrameT, Becomes(g), UNCHANGED <<outcome, aborted>>,
             g.plan = Top.plan, g.authorized = Top.authorized, g.maxDepth = Top.maxDepth,
             FrameInv(g)
      PROVE  IInv'
  <2>1. ScalarsInv'
    BY <1>1, <1>5 DEF IInv, ScalarsInv
  <2> QED
    BY <1>1, <1>4, <1>5, <2>1, ReplaceScalars
<1>6. CASE Becomes([Top EXCEPT !.edge = @ + 1]) /\ UNCHANGED <<outcome, aborted>>
  <2> DEFINE g == [Top EXCEPT !.edge = @ + 1]
  <2>1. /\ g \in FrameT /\ g.plan = Top.plan /\ g.node = Top.node /\ g.depth = Top.depth
        /\ g.maxDepth = Top.maxDepth /\ g.authorized = Top.authorized /\ g.pc = Top.pc
        /\ g.via = Top.via /\ g.path = Top.path /\ g.ops = Top.ops
    BY <1>2 DEF FrameT
  <2>2. NodeOf(g) = NodeOf(Top) /\ Commands(g) = Commands(Top)
    BY <2>1 DEF NodeOf, Commands
  <2>3. FrameInv(g)
    BY <1>1, <1>2, <2>1, <2>2 DEF FrameInv
  <2> QED
    BY <1>5, <1>6, <2>1, <2>3
<1>7. CASE /\ UNCHANGED <<outcome, aborted>>
           /\ Becomes([Top EXCEPT !.pc = "enter", !.node = e.to, !.via = e.when, !.depth = @ + 1])
  <2> DEFINE g == [Top EXCEPT !.pc = "enter", !.node = e.to, !.via = e.when, !.depth = @ + 1]
  <2>1. /\ e.to \in DOMAIN Plans[Top.plan].nodes /\ e.when \in Conditions
        /\ e.when = "match" => ~Plans[Top.plan].nodes[e.to].mutates
    <3>1. Top.edge \in DOMAIN NodeOf(Top).edges
      BY <1>1, <1>2, EdgeHere
    <3>2. Valid(Plans[Top.plan])
      BY <1>2 DEF FrameInv
    <3> QED
      BY <1>2, <3>1, <3>2, PlanFacts DEF Valid, NodeOf
  <2>2. /\ g \in FrameT /\ g.plan = Top.plan /\ g.node = e.to /\ g.depth = Top.depth + 1
        /\ g.maxDepth = Top.maxDepth /\ g.authorized = Top.authorized /\ g.pc = "enter"
        /\ g.via = e.when /\ g.path = Top.path /\ g.ops = Top.ops
    <3>1. e.to \in UNION {DOMAIN Plans[q].nodes : q \in PlanNames}
      BY <1>2, <2>1
    <3>2. Top.depth \in Nat /\ Top.depth + 1 \in Nat
      BY <1>2 DEF FrameT
    <3> HIDE DEF e
    <3> QED
      BY <1>2, <2>1, <3>1, <3>2 DEF FrameT
  <2>3. \A i \in DOMAIN g.ops : g.ops[i] # "running"
    BY <1>1, <1>2, <2>2 DEF FrameInv
  <2>4. NodeOf(g).mutates => g.via # "match"
    BY <2>1, <2>2 DEF NodeOf
  <2>5. g.path = g.depth /\ g.depth <= g.maxDepth + 1
    BY <1>1, <1>2, <2>2 DEF FrameInv, FrameT
  <2>6. FrameInv(g)
    BY <1>2, <2>1, <2>2, <2>3, <2>4, <2>5 DEF FrameInv
  <2> QED
    BY <1>5, <1>7, <2>2, <2>6
<1>8. "aborted" \in Reasons /\ "error" \in Reasons
  BY DEF Reasons
<1>9. CASE cancelled /\ Reports("aborted")
  BY <1>3, <1>8, <1>9
<1>10. CASE ~cancelled
  <2>1. PICK result \in Outcomes(e.when, Top.ops[Len(Top.ops)]) :
          CASE result = "error" -> Reports("error")
            [] result = "yes" ->
                 /\ Becomes([Top EXCEPT !.pc = "enter", !.node = e.to, !.via = e.when,
                                        !.depth = @ + 1])
                 /\ UNCHANGED <<outcome, aborted>>
            [] result = "no" ->
                 Becomes([Top EXCEPT !.edge = @ + 1]) /\ UNCHANGED <<outcome, aborted>>
    BY <1>10 DEF EvaluateEdge
  <2>2. result \in {"yes", "no", "error"}
    <3>1. e.when \in Conditions
      BY <1>1, <1>2, EdgeHere, PlanFacts DEF NodeOf
    <3> QED
      BY <3>1 DEF Outcomes, Conditions
  <2> QED
    BY <1>3, <1>6, <1>7, <1>8, <2>1, <2>2
<1> QED
  BY <1>9, <1>10 DEF EvaluateEdge

LEMMA EdgesExhaustedStep == IInv /\ EdgesExhausted => IInv'
<1> SUFFICES ASSUME IInv, EdgesExhausted PROVE IInv'
  OBVIOUS
<1>1. stack # <<>> /\ Top.pc = "edges" /\ UNCHANGED <<shellOff, reserved, cancelled, ran>>
  BY DEF EdgesExhausted
<1>2. PICK reason \in Reasons : Reports(reason) /\ reason # "aborted"
  BY DEF EdgesExhausted, Reasons
<1> QED
  BY <1>1, <1>2, ReportScalars

\* Every step of the walk, and a cancellation, keep what is said of each run
\* under way and of the runs around it.
THEOREM InvStep == IInv /\ [Next]_vars => IInv'
<1> SUFFICES ASSUME IInv, [Next]_vars PROVE IInv'
  OBVIOUS
<1>1. CASE UNCHANGED vars
  BY <1>1 DEF vars, IInv, StackInv, ScalarsInv, AbortInv
<1>2. CASE Cancel
  BY <1>2 DEF Cancel, IInv, StackInv, ScalarsInv, AbortInv
<1> QED
  BY <1>1, <1>2, SubmitStep, EnterStep, NotEnteredStep, OperationStep, JudgeStep,
     EvaluateEdgeStep, EdgesExhaustedStep
  DEF Next, Walk, Returned

\* It holds of every run of every walk.
THEOREM Invariance == Spec => []IInv
BY InitStep, InvStep, PTL DEF Spec
-----------------------------------------------------------------------------
(* What the invariant says of the runs under way.                          *)

LEMMA AtRunning ==
  ASSUME IInv, NEW k \in DOMAIN stack, NEW i \in DOMAIN stack[k].ops, Running(stack[k], i)
  PROVE  /\ FrameInv(stack[k]) /\ stack[k] \in FrameT /\ stack[k].plan \in PlanNames
         /\ Admits(stack[k], Commands(stack[k])[i])
         /\ i \in DOMAIN Commands(stack[k])
         /\ \A j \in 1..(k - 1) : /\ FrameInv(stack[j]) /\ Encloses(stack[j], stack[k])
<1>1. stack \in Seq(FrameT) /\ DOMAIN stack = 1..Len(stack)
  BY DEF IInv, StackInv
<1>2. FrameInv(stack[k]) /\ stack[k] \in FrameT
  BY <1>1 DEF IInv, StackInv
<1>3. stack[k].plan \in PlanNames
  BY <1>2 DEF FrameT
<1>4. stack[k].pc = "ops" /\ Admits(stack[k], Commands(stack[k])[i])
  BY <1>2 DEF FrameInv, Running
<1>5. i \in DOMAIN Commands(stack[k])
  BY <1>2, <1>4 DEF FrameInv
<1>6. ASSUME NEW j \in 1..(k - 1) PROVE FrameInv(stack[j]) /\ Encloses(stack[j], stack[k])
  <2>1. j \in 1..Len(stack) /\ j < k /\ k \in 1..Len(stack)
    BY <1>1
  <2> QED
    BY <2>1 DEF IInv, StackInv
<1> QED
  BY <1>2, <1>3, <1>4, <1>5, <1>6

\* The shape of the stack and the bounds of the shared budget hold for every
\* set of plans: runPlanTree never stands at a node its plan does not have.
THEOREM TypeCorrect == Spec => []TypeOK
<1>1. IInv => TypeOK
  BY DEF IInv, StackInv, ScalarsInv, FrameInv, TypeOK
<1> QED
  BY <1>1, Invariance, PTL

\* Authority to run dangerous operations is never wider in a nested plan than
\* in the plans around it (planExecutionContextFor, runMutatingOp).
THEOREM ForceHeld == Spec => []ForceChain
<1>1. ASSUME IInv, NEW k \in DOMAIN stack, NEW i \in DOMAIN stack[k].ops,
             Running(stack[k], i), Commands(stack[k])[i].risk = "dangerous", NEW j \in 1..k
      PROVE  Plans[stack[j].plan].force /\ NodeOf(stack[j]).force
  <2>1. Forced(stack[k])
    BY <1>1, AtRunning DEF Admits
  <2>2. CASE j = k
    BY <2>1, <2>2 DEF Forced
  <2>3. CASE j # k
    <3>1. j \in 1..(k - 1)
      BY <1>1, <2>3 DEF IInv, StackInv
    <3>2. Encloses(stack[j], stack[k])
      BY <1>1, <3>1, AtRunning
    <3> QED
      BY <2>1, <3>2 DEF Forced, Encloses
  <2> QED
    BY <2>2, <2>3
<1>2. IInv => ForceChain
  BY <1>1 DEF ForceChain
<1> QED
  BY <1>2, Invariance, PTL

\* A run reached through a node that does not mutate can only read, whatever
\* the nested plans say of themselves (runPlanOp, planToolRisk).
THEOREM ReadOnly == Spec => []ReadOnlyHeld
<1>1. ASSUME IInv, NEW k \in DOMAIN stack, NEW i \in DOMAIN stack[k].ops,
             Running(stack[k], i), Commands(stack[k])[i].risk # "safe", NEW j \in 1..k
      PROVE  NodeOf(stack[j]).mutates
  <2>1. CASE j = k
    BY <1>1, <2>1, AtRunning DEF Admits
  <2>2. CASE j # k
    <3>1. j \in 1..(k - 1)
      BY <1>1, <2>2 DEF IInv, StackInv
    <3> QED
      BY <1>1, <3>1, AtRunning DEF Encloses
  <2> QED
    BY <2>1, <2>2
<1>2. IInv => ReadOnlyHeld
  BY <1>1 DEF ReadOnlyHeld
<1> QED
  BY <1>2, Invariance, PTL

\* No nesting of plans and no cycle of edges goes deeper than the outermost
\* plan allows (planExecutionContextFor, runPlanTree).
THEOREM DepthHeld == Spec => []PathBounded
<1>1. ASSUME IInv, NEW k \in DOMAIN stack
      PROVE  stack[k].path <= Outermost(Plans[stack[1].plan]).maxDepth + 1
  <2>1. stack \in Seq(FrameT) /\ k \in 1..Len(stack) /\ 1 \in 1..Len(stack) /\ stack # <<>>
    BY <1>1 DEF IInv, StackInv
  <2>2. FrameInv(stack[k]) /\ stack[k] \in FrameT /\ stack[1] \in FrameT
    BY <1>1, <2>1 DEF IInv, StackInv
  <2>3. stack[k].maxDepth <= stack[1].maxDepth
    <3>1. CASE k = 1
      BY <2>2, <3>1 DEF FrameT
    <3>2. CASE k # 1
      <4>1. 1 < k
        BY <2>1, <3>2
      <4> QED
        BY <1>1, <2>1, <4>1 DEF IInv, StackInv, Encloses
    <3> QED
      BY <3>1, <3>2
  <2>4. stack[k].path <= stack[k].maxDepth + 1
    BY <2>2 DEF FrameInv, FrameT
  <2>5. stack[1].maxDepth = Outermost(Plans[stack[1].plan]).maxDepth
    BY <1>1, <2>1 DEF IInv, StackInv
  <2>6. stack[k].path \in Nat /\ stack[k].maxDepth \in Nat /\ stack[1].maxDepth \in Nat
    BY <2>2 DEF FrameT
  <2>7. stack[k].path <= stack[1].maxDepth + 1
    BY <2>3, <2>4, <2>6
  <2> QED
    BY <2>5, <2>7
<1>2. IInv => PathBounded
  BY <1>1 DEF PathBounded
<1> QED
  BY <1>2, Invariance, PTL

\* Validation keeps every fuzzy match away from the nodes that mutate, in
\* nested plans too (validatePlan).
THEOREM GateHeld == Spec => []MatchGate
<1>1. IInv => MatchGate
  BY DEF IInv, StackInv, FrameInv, MatchGate
<1> QED
  BY <1>1, Invariance, PTL

\* A disabled shell stays disabled in every nested plan (dispatchPlanOps).
THEOREM ShellHeld == Spec => []ShellOff
<1>1. ASSUME IInv, shellOff, NEW k \in DOMAIN stack, NEW i \in DOMAIN stack[k].ops,
             Running(stack[k], i)
      PROVE  Commands(stack[k])[i].kind # "shell"
  <2>1. NoShell(Plans[stack[k].plan])
    BY <1>1 DEF IInv, StackInv
  <2>2. FrameInv(stack[k]) /\ i \in DOMAIN Commands(stack[k])
    BY <1>1, AtRunning
  <2> QED
    BY <2>1, <2>2 DEF NoShell, FrameInv, Commands, NodeOf
<1>2. IInv => ShellOff
  BY <1>1 DEF ShellOff
<1> QED
  BY <1>2, Invariance, PTL

\* A nested run that reports an abort has left the shared context done, so
\* the runs around it abort too (runPlanTree after runPlanNodeOps).
THEOREM AbortHeld == Spec => []AbortWins
<1>1. IInv => AbortWins
  BY DEF IInv, AbortInv, AbortWins
<1> QED
  BY <1>1, Invariance, PTL
-----------------------------------------------------------------------------
(* Blocked commands.                                                       *)

\* A serial node starts its commands in order and none after a blocked one; a
\* run that has left a node left no blocked command there.
BlockInv(f) ==
  /\ f.pc # "ops" => \A i \in DOMAIN f.ops : f.ops[i] # "blocked"
  /\ f.pc = "ops" /\ ~NodeOf(f).parallel =>
       \A i, j \in DOMAIN f.ops : i < j /\ f.ops[i] \in {"pending", "blocked"} => f.ops[j] = "pending"

AllBlockInv == \A k \in 1..Len(stack) : BlockInv(stack[k])

LEMMA BlockReplace ==
  ASSUME IInv, AllBlockInv, stack # <<>>, NEW g, BlockInv(g), Becomes(g)
  PROVE  AllBlockInv'
<1>1. stack \in Seq(FrameT) /\ Len(stack) \in Nat
  BY DEF IInv, StackInv
<1>2. Len(stack') = Len(stack) /\ \A k \in 1..Len(stack) : stack'[k] = IF k = Len(stack) THEN g ELSE stack[k]
  BY <1>1 DEF Becomes
<1> QED
  BY <1>2 DEF AllBlockInv

LEMMA BlockPop ==
  ASSUME IInv, AllBlockInv, stack # <<>>, NEW reason, Reports(reason)
  PROVE  AllBlockInv'
<1> DEFINE n == Len(stack) - 1
           well == reason = "leaf" /\ Succeeded(Top)
<1>1. n \in Nat /\ stack \in Seq(FrameT) /\ Len(stack) = n + 1
  BY DEF IInv, StackInv
<1>2. stack' = [k \in 1..n |-> IF k = n THEN Told(stack[k], well) ELSE stack[k]]
  BY DEF Reports
<1>3. ASSUME NEW f \in FrameT, BlockInv(f)
      PROVE  BlockInv(Told(f, well))
  <2> DEFINE g == Told(f, well)
  <2>1. /\ g.ops = [i \in DOMAIN f.ops |->
                     IF f.ops[i] # "running" THEN f.ops[i] ELSE IF well THEN "ok" ELSE "failed"]
        /\ g.plan = f.plan /\ g.node = f.node /\ g.pc = f.pc
    BY <1>3 DEF Told, FrameT
  <2>2. NodeOf(g) = NodeOf(f) /\ DOMAIN g.ops = DOMAIN f.ops
    BY <2>1 DEF NodeOf
  <2>3. \A i \in DOMAIN f.ops : \A r \in {"pending", "blocked"} : g.ops[i] = r <=> f.ops[i] = r
    BY <2>1
  <2> HIDE DEF g
  <2> QED
    <3>1. g.pc # "ops" => \A i \in DOMAIN g.ops : g.ops[i] # "blocked"
      BY <1>3, <2>1, <2>2, <2>3 DEF BlockInv
    <3>2. ASSUME g.pc = "ops", ~NodeOf(g).parallel, NEW i \in DOMAIN g.ops, NEW j \in DOMAIN g.ops,
                 i < j, g.ops[i] \in {"pending", "blocked"}
          PROVE  g.ops[j] = "pending"
      <4>1. f.ops[i] \in {"pending", "blocked"}
        BY <2>2, <2>3, <3>2
      <4>2. f.ops[j] = "pending"
        BY <1>3, <2>1, <2>2, <3>2, <4>1 DEF BlockInv
      <4> QED
        BY <2>2, <2>3, <4>2
    <3>3. BlockInv(g)
      BY <3>1, <3>2 DEF BlockInv
    <3> QED
      BY <3>3 DEF g
<1>4. \A k \in 1..n : BlockInv(stack'[k])
  <2> SUFFICES ASSUME NEW k \in 1..n
               PROVE  BlockInv(stack'[k])
    OBVIOUS
  <2>1. stack[k] \in FrameT /\ BlockInv(stack[k])
    BY <1>1 DEF AllBlockInv
  <2>2. CASE k = n
    BY <1>2, <1>3, <2>1, <2>2
  <2>3. CASE k # n
    BY <1>2, <2>1, <2>3
  <2> QED
    BY <2>2, <2>3
<1>5. Len(stack') = n
  <2> DEFINE S == {stack'[k] : k \in 1..n}
  <2>1. stack' \in [1..n -> S]
    BY <1>2
  <2> HIDE DEF S
  <2> QED
    BY <1>1, <2>1, FunctionIsSeq
<1> QED
  BY <1>4, <1>5 DEF AllBlockInv

\* A command whose turn it is comes to be blocked or to run.
LEMMA BlockTurn ==
  ASSUME NEW f, FrameInv(f), BlockInv(f), f.pc = "ops", NEW i \in DOMAIN f.ops, NEW r \in Results,
         \/ f.ops[i] = "pending" /\ Turn(f, i)
         \/ f.ops[i] = "running" /\ r # "blocked",
         r # "pending"
  PROVE  BlockInv([f EXCEPT !.ops[i] = r])
<1> DEFINE g == [f EXCEPT !.ops[i] = r]
<1>1. f \in FrameT /\ f.ops \in Seq(Results)
  BY DEF FrameInv, FrameT
<1>2. g.ops = [f.ops EXCEPT ![i] = r] /\ g.plan = f.plan /\ g.node = f.node /\ g.pc = f.pc
  BY <1>1 DEF FrameT
<1>3. NodeOf(g) = NodeOf(f) /\ DOMAIN g.ops = DOMAIN f.ops /\ DOMAIN f.ops = 1..Len(f.ops) /\ Len(f.ops) \in Nat
  BY <1>1, <1>2 DEF NodeOf
<1>4. \A j \in DOMAIN f.ops : g.ops[j] = IF j = i THEN r ELSE f.ops[j]
  BY <1>1, <1>2
<1> HIDE DEF g
<1>5. ASSUME ~NodeOf(f).parallel, NEW j \in DOMAIN f.ops, NEW k \in DOMAIN f.ops, j < k,
             g.ops[j] \in {"pending", "blocked"}
      PROVE  g.ops[k] = "pending"
  <2>1. \A l, m \in DOMAIN f.ops : l < m /\ f.ops[l] \in {"pending", "blocked"} => f.ops[m] = "pending"
    BY <1>5 DEF BlockInv
  <2>2. CASE f.ops[i] = "pending" /\ Turn(f, i)
    <3>1. \A l \in 1..(i - 1) : f.ops[l] \notin {"pending", "running", "blocked"}
      BY <1>5, <2>2 DEF Turn
    <3>2. CASE j = i
      BY <1>3, <1>4, <1>5, <2>1, <2>2, <3>2
    <3>3. CASE j # i
      <4>1. f.ops[j] \in {"pending", "blocked"}
        BY <1>4, <1>5, <3>3
      <4>2. j >= i
        BY <1>3, <3>1, <4>1
      <4>3. k # i
        BY <1>3, <1>5, <4>2
      <4> QED
        BY <1>4, <1>5, <2>1, <4>1, <4>3
    <3> QED
      BY <3>2, <3>3
  <2>3. CASE f.ops[i] = "running" /\ r # "blocked"
    <3>1. j # i /\ f.ops[j] \in {"pending", "blocked"}
      BY <1>4, <1>5, <2>3
    <3>2. f.ops[k] = "pending"
      BY <1>5, <2>1, <3>1
    <3> QED
      BY <1>4, <2>3, <3>2
  <2> QED
    BY <2>2, <2>3
<1>6. BlockInv(g)
  BY <1>2, <1>3, <1>5 DEF BlockInv
<1> QED
  BY <1>6 DEF g

LEMMA BlockOperation ==
  ASSUME IInv, AllBlockInv, stack # <<>>, Operation
  PROVE  AllBlockInv'
<1> PICK i \in DOMAIN Top.ops : Block(i) \/ Start(i) \/ Finish(i) \/ StartNested(i)
  BY DEF Operation
<1>1. FrameInv(Top) /\ BlockInv(Top) /\ Len(stack) \in Nat \ {0}
  BY TopFacts DEF IInv, AllBlockInv, Top
<1>2. Top.pc = "ops"
  BY DEF Block, Start, Finish, StartNested, Ready
<1>3. ASSUME NEW r \in Results, Becomes([Top EXCEPT !.ops[i] = r]), r # "pending",
             \/ Top.ops[i] = "pending" /\ Turn(Top, i)
             \/ Top.ops[i] = "running" /\ r # "blocked"
      PROVE  AllBlockInv'
  <2>1. BlockInv([Top EXCEPT !.ops[i] = r])
    BY <1>1, <1>2, <1>3, BlockTurn
  <2> QED
    BY <1>3, <2>1, BlockReplace
<1>4. CASE Block(i)
  BY <1>3, <1>4 DEF Block, Ready, Results
<1>5. CASE Start(i)
  BY <1>3, <1>5 DEF Start, Ready, Results
<1>6. CASE Finish(i)
  <2>1. PICK r \in {"ok", "failed", "ok_nonzero"} : Becomes([Top EXCEPT !.ops[i] = r])
    BY <1>6 DEF Finish
  <2> QED
    BY <1>3, <1>6, <2>1 DEF Finish, Results
<1>7. CASE StartNested(i)
  <2> DEFINE p == Commands(Top)[i].plan
             c == Nested(Top, Plans[p])
             f == [Top EXCEPT !.ops[i] = "running"]
             g == Frame(p, c, Top.path)
             s == [stack EXCEPT ![Len(stack)] = f]
  <2>1. Top.ops[i] = "pending" /\ Turn(Top, i)
    BY <1>7 DEF StartNested, Ready
  <2>2. CASE Becomes([Top EXCEPT !.ops[i] = "failed"])
    BY <1>3, <2>1, <2>2 DEF Results
  <2>3. CASE stack' = Append(s, g)
    <3>1. BlockInv(f)
      BY <1>1, <1>2, <2>1, BlockTurn DEF Results
    <3>2. BlockInv(g)
      BY DEF BlockInv, Frame
    <3>3. Len(stack') = Len(stack) + 1 /\ Len(s) = Len(stack)
      BY <2>3 DEF IInv, StackInv
    <3> HIDE DEF f, g
    <3>4. \A k \in 1..Len(stack) : s[k] = IF k = Len(stack) THEN f ELSE stack[k]
      BY DEF IInv, StackInv
    <3>5. \E S : s \in Seq(S) /\ g \in S
      <4>1. stack \in Seq(FrameT \cup {f, g})
        BY DEF IInv, StackInv
      <4>2. s \in Seq(FrameT \cup {f, g})
        BY <4>1
      <4> QED
        BY <4>2
    <3> HIDE DEF s
    <3>6. stack'[Len(stack) + 1] = g /\ \A k \in 1..Len(stack) : stack'[k] = s[k]
      BY <2>3, <3>3, <3>5, AppendedAt
    <3> QED
      BY <1>1, <3>1, <3>2, <3>3, <3>4, <3>6 DEF AllBlockInv
  <2> QED
    BY <1>7, <2>2, <2>3 DEF StartNested
<1> QED
  BY <1>4, <1>5, <1>6, <1>7

LEMMA BlockEdge ==
  ASSUME IInv, AllBlockInv, EvaluateEdge
  PROVE  AllBlockInv'
<1> DEFINE e == NodeOf(Top).edges[Top.edge]
<1>1. stack # <<>> /\ Top.pc = "edges"
  BY DEF EvaluateEdge
<1>2. FrameInv(Top) /\ Top \in FrameT /\ BlockInv(Top)
  BY <1>1, TopFacts DEF IInv, AllBlockInv, Top
<1>3. \A i \in DOMAIN Top.ops : Top.ops[i] # "blocked"
  BY <1>1, <1>2 DEF BlockInv
<1>4. ASSUME NEW g, Becomes(g), g.ops = Top.ops, g.pc # "ops"
      PROVE  AllBlockInv'
  BY <1>1, <1>3, <1>4, BlockReplace DEF BlockInv
<1>5. CASE Becomes([Top EXCEPT !.edge = @ + 1])
  BY <1>1, <1>2, <1>4, <1>5 DEF FrameT
<1>6. CASE Becomes([Top EXCEPT !.pc = "enter", !.node = e.to, !.via = e.when, !.depth = @ + 1])
  <2> DEFINE g == [Top EXCEPT !.pc = "enter", !.node = e.to, !.via = e.when, !.depth = @ + 1]
  <2>1. g.ops = Top.ops /\ g.pc = "enter"
    BY <1>2 DEF FrameT
  <2> HIDE DEF g
  <2> QED
    BY <1>4, <1>6, <2>1 DEF g
<1>7. ASSUME NEW reason, Reports(reason)
      PROVE  AllBlockInv'
  BY <1>1, <1>7, BlockPop
<1>8. CASE ~cancelled
  <2>1. e.when \in Conditions
    BY <1>1, <1>2, TopFacts, EdgeHere, PlanFacts DEF NodeOf, EvaluateEdge, FrameInv, IInv
  <2>2. PICK result \in Outcomes(e.when, Top.ops[Len(Top.ops)]) :
          CASE result = "error" -> Reports("error")
            [] result = "yes" ->
                 /\ Becomes([Top EXCEPT !.pc = "enter", !.node = e.to, !.via = e.when,
                                        !.depth = @ + 1])
                 /\ UNCHANGED <<outcome, aborted>>
            [] result = "no" ->
                 Becomes([Top EXCEPT !.edge = @ + 1]) /\ UNCHANGED <<outcome, aborted>>
    BY <1>8 DEF EvaluateEdge
  <2>3. result \in {"yes", "no", "error"}
    BY <2>1 DEF Outcomes, Conditions
  <2> QED
    BY <1>5, <1>6, <1>7, <2>2, <2>3
<1> QED
  BY <1>7, <1>8 DEF EvaluateEdge

LEMMA BlockStep == IInv /\ AllBlockInv /\ [Next]_vars => AllBlockInv'
<1> SUFFICES ASSUME IInv, AllBlockInv, [Next]_vars
             PROVE  AllBlockInv'
  OBVIOUS
<1>1. CASE Cancel \/ UNCHANGED vars
  BY <1>1 DEF Cancel, vars, AllBlockInv
<1>2. CASE Submit
  <2>1. \A p, c : BlockInv(Frame(p, c, 0))
    BY DEF BlockInv, Frame
  <2> QED
    BY <1>2, <2>1 DEF Submit, AllBlockInv
<1>3. CASE Enter
  <2> DEFINE ops == [i \in DOMAIN Commands(Top) |-> "pending"]
             g == [Top EXCEPT !.pc = "ops", !.edge = 1, !.path = @ + 1, !.ops = ops]
  <2>1. stack # <<>> /\ Becomes(g)
    BY <1>3 DEF Enter
  <2>2. Top \in FrameT
    BY <2>1, TopFacts DEF IInv
  <2>3. g.ops = ops /\ g.pc = "ops"
    BY <2>2 DEF FrameT
  <2> HIDE DEF g
  <2>4. BlockInv(g)
    BY <2>3 DEF BlockInv
  <2> QED
    BY <2>1, <2>4, BlockReplace
<1>4. ASSUME stack # <<>>, NEW reason, Reports(reason)
      PROVE  AllBlockInv'
  BY <1>4, BlockPop
<1>5. CASE NotEntered \/ EdgesExhausted
  BY <1>4, <1>5 DEF NotEntered, EdgesExhausted
<1>6. CASE stack # <<>> /\ Operation
  BY <1>6, BlockOperation
<1>7. CASE Judge
  <2>1. CASE Becomes([Top EXCEPT !.pc = "edges"]) /\ \A i \in DOMAIN Top.ops : Top.ops[i] # "blocked"
    <3> DEFINE g == [Top EXCEPT !.pc = "edges"]
    <3>1. stack # <<>> /\ Top \in FrameT
      BY <1>7, TopFacts DEF Judge, IInv
    <3>2. g.ops = Top.ops /\ g.pc = "edges"
      BY <3>1 DEF FrameT
    <3> HIDE DEF g
    <3>3. BlockInv(g)
      BY <2>1, <3>2 DEF BlockInv
    <3> QED
      BY <2>1, <3>1, <3>3, BlockReplace DEF g
  <2> QED
    BY <1>4, <1>7, <2>1 DEF Judge
<1>8. CASE EvaluateEdge
  BY <1>8, BlockEdge
<1> QED
  BY <1>1, <1>2, <1>3, <1>5, <1>6, <1>7, <1>8 DEF Next, Walk, Returned

\* A serial node never goes past a blocked command, and no run leaves a node
\* that has one, at any depth of nesting (runPlanNodeOps, runPlanTree).
THEOREM BlockHeld == Spec => []BlockedStops
<1>1. Init => AllBlockInv
  BY DEF Init, AllBlockInv
<1>2. IInv /\ AllBlockInv /\ [Next]_vars => AllBlockInv'
  BY BlockStep
<1>3. IInv /\ AllBlockInv => BlockedStops
  <2> SUFFICES ASSUME IInv, AllBlockInv, NEW k \in DOMAIN stack, NEW i \in DOMAIN stack[k].ops,
                      stack[k].ops[i] = "blocked"
               PROVE  /\ stack[k].pc = "ops"
                      /\ ~NodeOf(stack[k]).parallel =>
                           \A j \in DOMAIN stack[k].ops : j > i => stack[k].ops[j] = "pending"
    BY DEF BlockedStops
  <2>1. BlockInv(stack[k]) /\ stack[k].ops \in Seq(Results)
    <3>1. k \in 1..Len(stack) /\ stack[k] \in FrameT
      BY DEF IInv, StackInv
    <3> QED
      BY <3>1 DEF AllBlockInv, FrameT
  <2>2. \A j \in DOMAIN stack[k].ops : j > i <=> i < j
    BY <2>1
  <2> QED
    BY <2>1, <2>2 DEF BlockInv
<1> QED
  BY <1>1, <1>2, <1>3, Invariance, PTL DEF Spec
=============================================================================

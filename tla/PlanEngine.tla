----------------------------- MODULE PlanEngine -----------------------------
(***************************************************************************)
(* run_plan: the walk over a graph of condition-gated nodes, with runs     *)
(* nested in it by run_plan operations of mutating nodes.  A nested run    *)
(* shares the operation budget and the context of the outermost one, and   *)
(* inherits its depth and its authority over dangerous operations.         *)
(***************************************************************************)
EXTENDS Naturals, Sequences

CONSTANTS
  PlanNames,       \* what plans are called; a run_plan operation names the plan it runs
  Plans,           \* the plans
  Submitted,       \* names of the plans a caller may submit
  DefaultMaxDepth, \* max_depth of an outermost plan that names none
  MaxOperations    \* budget of operations of the outermost plan

Conditions == {"always", "exit0", "exitN", "data", "probe", "match"}

Op == [kind : {"shell", "tool", "web", "run_plan"}, risk : {"safe", "caution", "dangerous"},
       plan : PlanNames]

ASSUME PlanAssumption ==
  /\ DefaultMaxDepth \in Nat /\ MaxOperations \in Nat
  /\ Submitted \subseteq PlanNames /\ DOMAIN Plans = PlanNames
  /\ \A p \in PlanNames :
       /\ Plans[p].maxDepth \in Nat /\ Plans[p].force \in BOOLEAN
       /\ \A n \in DOMAIN Plans[p].nodes :
            LET node == Plans[p].nodes[n] IN
            /\ node.commands \in Seq(Op)
            /\ Len(node.edges) \in Nat /\ DOMAIN node.edges = 1..Len(node.edges)
            /\ \A i \in DOMAIN node.edges : node.edges[i].when \in Conditions
            /\ node.parallel \in BOOLEAN /\ node.mutates \in BOOLEAN /\ node.force \in BOOLEAN

VARIABLES
  shellOff,   \* the engine's shell mode is disabled
  stack,      \* the runs under way, the outermost first
  reserved,   \* operations reserved in the shared budget
  cancelled,  \* the context of the call is done
  outcome,    \* what the outermost run reports
  ran,        \* ghost: operations started, counted up to MaxOperations + 1
  aborted     \* ghost: some run reported that it was aborted

vars == <<shellOff, stack, reserved, cancelled, outcome, ran, aborted>>

Reasons == {"leaf", "no_edge_match", "max_depth", "mutation_blocked", "aborted", "error",
            "resource_limit"}
Results == {"pending", "running", "ok", "ok_nonzero", "failed", "blocked"}

Min2(a, b) == IF a < b THEN a ELSE b

Top      == stack[Len(stack)]
NodeOf(f) == Plans[f.plan].nodes[f.node]
Commands(f) == NodeOf(f).commands

\* The context of the outermost run, and that of a run nested in frame f.
Outermost(plan) ==
  [depth |-> 0, authorized |-> TRUE,
   maxDepth |-> IF plan.maxDepth = 0 THEN DefaultMaxDepth ELSE plan.maxDepth]

Forced(f) == Plans[f.plan].force /\ f.authorized /\ NodeOf(f).force

Nested_OwnForce(f, plan) ==  \* mutant: a nested plan brings its own authority
  [depth |-> f.depth + 1, authorized |-> NodeOf(f).force,
   maxDepth |-> IF plan.maxDepth = 0 THEN f.maxDepth
                ELSE Min2(f.maxDepth, f.depth + 1 + plan.maxDepth)]

Nested_OwnDepth(f, plan) ==  \* mutant: a nested plan may raise the limit
  [depth |-> f.depth + 1, authorized |-> Forced(f),
   maxDepth |-> IF plan.maxDepth = 0 THEN f.maxDepth ELSE f.depth + 1 + plan.maxDepth]

Nested(f, plan) ==
  [depth |-> f.depth + 1, authorized |-> Forced(f),
   maxDepth |-> IF plan.maxDepth = 0 THEN f.maxDepth
                ELSE Min2(f.maxDepth, f.depth + 1 + plan.maxDepth)]

\* A run at the root of plan p in context c.  `via` is the condition that led
\* to the current node, `path` how many nodes lie on the way to it, those of
\* the enclosing runs included (ghosts).
Frame(p, c, path) ==
  [plan |-> p, node |-> Plans[p].root, depth |-> c.depth, maxDepth |-> c.maxDepth,
   authorized |-> c.authorized, pc |-> "enter", ops |-> <<>>, edge |-> 1,
   via |-> "always", path |-> path]
-----------------------------------------------------------------------------
Valid_AnyGate(plan) ==  \* mutant: every condition may lead to a mutating node
  /\ plan.root \in DOMAIN plan.nodes
  /\ \A n \in DOMAIN plan.nodes :
       LET node == plan.nodes[n] IN
       /\ ~(node.parallel /\ node.mutates)
       /\ node.commands # <<>>
       /\ \A i \in DOMAIN node.commands : node.commands[i].kind # "web"
       /\ \A i \in DOMAIN node.edges : node.edges[i].to \in DOMAIN plan.nodes

\* validatePlan, but for the limits on sizes and the fields of conditions.
Valid(plan) ==
  /\ plan.root \in DOMAIN plan.nodes
  /\ \A n \in DOMAIN plan.nodes :
       LET node == plan.nodes[n] IN
       /\ ~(node.parallel /\ node.mutates)
       /\ node.commands # <<>>
       /\ \A i \in DOMAIN node.commands : node.commands[i].kind # "web"
       /\ \A i \in DOMAIN node.edges :
            /\ node.edges[i].to \in DOMAIN plan.nodes
            /\ node.edges[i].when = "match" => ~plan.nodes[node.edges[i].to].mutates

Accepted_RootOnly(plan) ==  \* mutant: looks for shell operations in the root only
  /\ Valid(plan)
  /\ shellOff => \A i \in DOMAIN plan.nodes[plan.root].commands :
                   plan.nodes[plan.root].commands[i].kind # "shell"

NoShell(plan) ==
  \A n \in DOMAIN plan.nodes : \A i \in DOMAIN plan.nodes[n].commands :
    plan.nodes[n].commands[i].kind # "shell"

Accepted(plan) == Valid(plan) /\ (shellOff => NoShell(plan))

Admits_Plans(f, op) ==  \* mutant: run_plan passes for a read-only tool
  IF NodeOf(f).mutates THEN op.risk = "dangerous" => Forced(f)
  ELSE op.kind = "run_plan" \/ op.risk = "safe"

\* May an operation of the current node of f start?  A tool is "safe" when it
\* is on the list of read-only tools.
Admits(f, op) ==
  IF NodeOf(f).mutates THEN op.risk = "dangerous" => Forced(f)
  ELSE op.kind # "run_plan" /\ op.risk = "safe"

\* How a condition may turn out on the result of the last operation.
Outcomes(when, last) ==
  CASE when = "always"            -> {"yes"}
    [] when = "exit0"             -> {IF last = "ok" THEN "yes" ELSE "no"}
    [] when = "exitN"             -> {IF last # "ok" THEN "yes" ELSE "no"}
    [] when \in {"data", "match"} -> {"yes", "no"}
    [] when = "probe"             -> {"yes", "no", "error"}

Init ==
  /\ shellOff \in BOOLEAN
  /\ stack = <<>> /\ reserved = 0 /\ ran = 0
  /\ cancelled = FALSE /\ aborted = FALSE
  /\ outcome = "none"

\* The new top of the stack.
Becomes(f) == stack' = [stack EXCEPT ![Len(stack)] = f]

Succeeded(f) == \A i \in DOMAIN f.ops : f.ops[i] \in {"ok", "ok_nonzero"}

\* What the enclosing run makes of the operation under way.
Told_Retries(f, well) ==  \* mutant: a nested run that fails is started again
  [f EXCEPT !.ops = [i \in DOMAIN @ |->
     IF @[i] # "running" THEN @[i] ELSE IF well THEN "ok" ELSE "pending"]]

Told(f, well) ==
  [f EXCEPT !.ops = [i \in DOMAIN @ |->
     IF @[i] # "running" THEN @[i] ELSE IF well THEN "ok" ELSE "failed"]]

\* The run on top ends.  An enclosing run sees its operation succeed only if
\* the nested walk came to a leaf and every operation there went well.
Reports(reason) ==
  LET n == Len(stack) - 1
      well == reason = "leaf" /\ Succeeded(Top)
  IN /\ aborted' = (aborted \/ reason = "aborted")
     /\ outcome' = IF n = 0 THEN reason ELSE outcome
     /\ stack' = [k \in 1..n |-> IF k = n THEN Told(stack[k], well) ELSE stack[k]]
-----------------------------------------------------------------------------
\* The call of run_plan: coerced, validated, and its working directory opened.
Submit ==
  /\ outcome = "none" /\ stack = <<>>
  /\ \E p \in Submitted :
       \/ /\ Accepted(Plans[p]) /\ UNCHANGED outcome
          /\ stack' = <<Frame(p, Outermost(Plans[p]), 0)>>
       \/ outcome' = "refused" /\ UNCHANGED stack
  /\ UNCHANGED <<shellOff, reserved, cancelled, ran, aborted>>

OverBudget_Late(f) ==  \* mutant: looks at the budget before it reserves
  reserved >= MaxOperations

OverBudget(f) == Len(Commands(f)) > MaxOperations - reserved

Enter ==
  /\ stack # <<>> /\ Top.pc = "enter"
  /\ ~cancelled /\ Top.depth <= Top.maxDepth /\ ~OverBudget(Top)
  /\ reserved' = reserved + Len(Commands(Top))
  /\ Becomes([Top EXCEPT !.pc = "ops", !.edge = 1, !.path = @ + 1,
                         !.ops = [i \in DOMAIN Commands(Top) |-> "pending"]])
  /\ UNCHANGED <<shellOff, cancelled, outcome, ran, aborted>>

NotEntered ==
  /\ stack # <<>> /\ Top.pc = "enter"
  /\ \/ cancelled /\ Reports("aborted")
     \/ ~cancelled /\ Top.depth > Top.maxDepth /\ Reports("max_depth")
     \/ ~cancelled /\ Top.depth <= Top.maxDepth /\ OverBudget(Top) /\ Reports("resource_limit")
  /\ UNCHANGED <<shellOff, reserved, cancelled, ran>>

Turn_AfterBlocked(f, i) ==  \* mutant: a serial node goes on after a blocked command
  IF NodeOf(f).parallel /\ Len(Commands(f)) > 1 THEN TRUE
  ELSE ~cancelled /\ \A j \in 1..(i - 1) : f.ops[j] \notin {"pending", "running"}

\* Whose turn it is: a parallel node starts all its commands, a serial one
\* looks at the context and starts them in order until one is blocked.
Turn(f, i) ==
  IF NodeOf(f).parallel /\ Len(Commands(f)) > 1 THEN TRUE
  ELSE ~cancelled /\ \A j \in 1..(i - 1) : f.ops[j] \notin {"pending", "running", "blocked"}

Ready(i) == /\ stack # <<>> /\ Top.pc = "ops"
            /\ i \in DOMAIN Top.ops /\ Top.ops[i] = "pending" /\ Turn(Top, i)

Counted == ran' = Min2(ran + 1, MaxOperations + 1)

Block(i) ==
  /\ Ready(i) /\ ~Admits(Top, Commands(Top)[i])
  /\ Becomes([Top EXCEPT !.ops[i] = "blocked"])
  /\ UNCHANGED <<shellOff, reserved, cancelled, outcome, ran, aborted>>

Start(i) ==
  /\ Ready(i) /\ Admits(Top, Commands(Top)[i]) /\ Commands(Top)[i].kind # "run_plan"
  /\ Becomes([Top EXCEPT !.ops[i] = "running"]) /\ Counted
  /\ UNCHANGED <<shellOff, reserved, cancelled, outcome, aborted>>

\* A command of the shell may exit with a code other than 0 and still go well.
Finish(i) ==
  /\ stack # <<>> /\ Top.pc = "ops"
  /\ i \in DOMAIN Top.ops /\ Top.ops[i] = "running"
  /\ \E result \in {"ok", "failed"} \cup
                   {r \in {"ok_nonzero"} : Commands(Top)[i].kind = "shell"} :
       Becomes([Top EXCEPT !.ops[i] = result])
  /\ UNCHANGED <<shellOff, reserved, cancelled, outcome, ran, aborted>>

\* A nested run_plan: it fails at once if it is refused, its working directory
\* cannot be opened or it starts too deep, and else becomes the run on top.
StartNested(i) ==
  /\ Ready(i) /\ Admits(Top, Commands(Top)[i]) /\ Commands(Top)[i].kind = "run_plan"
  /\ LET p == Commands(Top)[i].plan
         c == Nested(Top, Plans[p])
     IN \/ /\ Accepted(Plans[p]) /\ c.depth <= c.maxDepth
           /\ stack' = Append([stack EXCEPT ![Len(stack)] = [Top EXCEPT !.ops[i] = "running"]],
                              Frame(p, c, Top.path))
        \/ Becomes([Top EXCEPT !.ops[i] = "failed"])
  /\ Counted
  /\ UNCHANGED <<shellOff, reserved, cancelled, outcome, aborted>>

\* All commands of the node that run have run.
Settled(f) ==
  /\ \A i \in DOMAIN f.ops : f.ops[i] # "running"
  /\ \A i \in DOMAIN f.ops : f.ops[i] = "pending" => ~Turn(f, i)

Judge_LeafFirst ==  \* mutant: a node without edges ends the run at once
  /\ stack # <<>> /\ Top.pc = "ops" /\ Settled(Top)
  /\ \/ Reports(IF cancelled THEN "aborted" ELSE "resource_limit")
     \/ NodeOf(Top).edges = <<>> /\ Reports("leaf")
     \/ cancelled /\ Reports("aborted")
     \/ ~cancelled /\ (\E i \in DOMAIN Top.ops : Top.ops[i] = "blocked") /\ Reports("mutation_blocked")
     \/ /\ ~cancelled /\ \A i \in DOMAIN Top.ops : Top.ops[i] # "blocked"
        /\ Becomes([Top EXCEPT !.pc = "edges"]) /\ UNCHANGED <<outcome, aborted>>
  /\ UNCHANGED <<shellOff, reserved, cancelled, ran>>

\* After the commands: the transcript may have outgrown its budget, the
\* context may be done, a command may have been blocked.
Judge ==
  /\ stack # <<>> /\ Top.pc = "ops" /\ Settled(Top)
  /\ \/ Reports(IF cancelled THEN "aborted" ELSE "resource_limit")
     \/ cancelled /\ Reports("aborted")
     \/ ~cancelled /\ (\E i \in DOMAIN Top.ops : Top.ops[i] = "blocked") /\ Reports("mutation_blocked")
     \/ /\ ~cancelled /\ \A i \in DOMAIN Top.ops : Top.ops[i] # "blocked"
        /\ Becomes([Top EXCEPT !.pc = "edges"]) /\ UNCHANGED <<outcome, aborted>>
  /\ UNCHANGED <<shellOff, reserved, cancelled, ran>>

EvaluateEdge ==
  /\ stack # <<>> /\ Top.pc = "edges" /\ Top.edge <= Len(NodeOf(Top).edges)
  /\ LET e == NodeOf(Top).edges[Top.edge]
         last == Top.ops[Len(Top.ops)]
     IN \/ cancelled /\ Reports("aborted")
        \/ /\ ~cancelled
           /\ \E result \in Outcomes(e.when, last) :
                CASE result = "error" -> Reports("error")
                  [] result = "yes" ->
                       /\ Becomes([Top EXCEPT !.pc = "enter", !.node = e.to, !.via = e.when,
                                              !.depth = @ + 1])
                       /\ UNCHANGED <<outcome, aborted>>
                  [] result = "no" ->
                       Becomes([Top EXCEPT !.edge = @ + 1]) /\ UNCHANGED <<outcome, aborted>>
  /\ UNCHANGED <<shellOff, reserved, cancelled, ran>>

EdgesExhausted ==
  /\ stack # <<>> /\ Top.pc = "edges" /\ Top.edge > Len(NodeOf(Top).edges)
  /\ Reports(IF NodeOf(Top).edges = <<>> THEN "leaf" ELSE "no_edge_match")
  /\ UNCHANGED <<shellOff, reserved, cancelled, ran>>

Cancel ==
  /\ ~cancelled /\ outcome = "none"
  /\ cancelled' = TRUE
  /\ UNCHANGED <<shellOff, stack, reserved, outcome, ran, aborted>>
-----------------------------------------------------------------------------
Operation == \E i \in DOMAIN Top.ops : Block(i) \/ Start(i) \/ Finish(i) \/ StartNested(i)

Walk == Submit \/ Enter \/ NotEntered \/ (stack # <<>> /\ Operation) \/ Judge
          \/ EvaluateEdge \/ EdgesExhausted

Returned == outcome # "none" /\ UNCHANGED vars

Next == Walk \/ Cancel \/ Returned

Spec == Init /\ [][Next]_vars

\* The goroutine of the call runs on, and every operation ends: the tools have
\* no unbounded waits and the shell has a timeout.
FairSpec == Spec /\ WF_vars(Walk)
-----------------------------------------------------------------------------
Running(f, i) == f.ops[i] = "running"

FrameT ==
  [plan : PlanNames, node : UNION {DOMAIN Plans[p].nodes : p \in PlanNames},
   depth : Nat, maxDepth : Nat, authorized : BOOLEAN, pc : {"enter", "ops", "edges"},
   ops : Seq(Results), edge : Nat \ {0}, via : Conditions, path : Nat]

\* Type correctness of the stack of runs and the shared budget; a run is always
\* at a node of its plan.
TypeOK ==
  /\ shellOff \in BOOLEAN /\ cancelled \in BOOLEAN /\ aborted \in BOOLEAN
  /\ reserved \in 0..MaxOperations /\ ran \in 0..(MaxOperations + 1)
  /\ outcome \in Reasons \cup {"none", "refused"}
  /\ stack \in Seq(FrameT)
  /\ \A k \in DOMAIN stack : stack[k].node \in DOMAIN Plans[stack[k].plan].nodes

\* A dangerous operation runs only when the plan and the current node of its
\* own run and of every run around it say force: a nested plan cannot grant
\* itself what a plan around it withheld.
ForceChain ==
  \A k \in DOMAIN stack : \A i \in DOMAIN stack[k].ops :
    Running(stack[k], i) /\ Commands(stack[k])[i].risk = "dangerous"
      => \A j \in 1..k : Plans[stack[j].plan].force /\ NodeOf(stack[j]).force

\* Nothing but a safe operation runs below a node that does not mutate.
ReadOnlyHeld ==
  \A k \in DOMAIN stack : \A i \in DOMAIN stack[k].ops :
    Running(stack[k], i) /\ Commands(stack[k])[i].risk # "safe"
      => \A j \in 1..k : NodeOf(stack[j]).mutates

\* From the outermost root to the node under way, nested plans included, there
\* are never more nodes than the outermost plan allows.
PathBounded ==
  \A k \in DOMAIN stack : stack[k].path <= Outermost(Plans[stack[1].plan]).maxDepth + 1

\* A mutating node is never entered because of a fuzzy match.
MatchGate ==
  \A k \in DOMAIN stack : NodeOf(stack[k]).mutates => stack[k].via # "match"

\* With the shell disabled no run, however deep, starts a shell command.
ShellOff ==
  shellOff => \A k \in DOMAIN stack : \A i \in DOMAIN stack[k].ops :
                Running(stack[k], i) => Commands(stack[k])[i].kind # "shell"

\* A blocked command is the last thing a serial node does, and its run goes
\* to no further node.
BlockedStops ==
  \A k \in DOMAIN stack : \A i \in DOMAIN stack[k].ops :
    stack[k].ops[i] = "blocked" =>
      /\ stack[k].pc = "ops"
      /\ ~NodeOf(stack[k]).parallel =>
           \A j \in DOMAIN stack[k].ops : j > i => stack[k].ops[j] = "pending"

\* A cancellation that stopped a nested run stops the runs around it: the
\* call never reports that it came to an end of its own.
AbortWins == aborted /\ outcome # "none" => outcome = "aborted"

\* Every call of run_plan ends, even when its graph has cycles.
PlanEnds == <>(outcome # "none")
=============================================================================

---------------------------- MODULE MCPlanEngine ----------------------------
(* Instances of PlanEngine for TLC. *)
EXTENDS PlanEngine

Run(kind, risk) == [kind |-> kind, risk |-> risk, plan |-> 1]
Nest == [kind |-> "run_plan", risk |-> "caution", plan |-> 1]
When(w, n) == [when |-> w, to |-> n]

Cat == Run("shell", "safe")
Rm  == Run("shell", "dangerous")
ReadFile  == Run("tool", "safe")
WriteFile == Run("tool", "caution")
WebFetch  == Run("web", "safe")

Node(commands, flags, edges) ==
  [commands |-> commands, edges |-> edges, parallel |-> flags = "parallel",
   mutates |-> flags \in {"mutates", "forces"}, force |-> flags = "forces"]

Plan(nodes, force, maxDepth) ==
  [root |-> "a", force |-> force, maxDepth |-> maxDepth, nodes |-> nodes]

\* The k-th choice of a list, k counted in steps of base and around the list.
Pick(list, k, base) == list[((k \div base) % Len(list)) + 1]

OuterPlan(k) ==
  Plan([n \in {"a", "b"} |->
          IF n = "a"
            THEN Node(Pick(<<<<Nest>>, <<Nest, Rm>>, <<ReadFile, WriteFile, Cat>>>>, k, 1),
                      Pick(<<"reads", "parallel", "mutates", "forces">>, k, 3),
                      Pick(<<<<When("match", "b"), When("always", "a")>>,
                             <<When("exitN", "b"), When("probe", "a")>>>>, k, 12))
            ELSE Node(Pick(<<<<Cat>>, <<Nest>>>>, k, 24), Pick(<<"reads", "forces">>, k, 48), <<>>)],
       Pick(<<TRUE, FALSE>>, k, 96), Pick(<<0, 1>>, k, 192))

MiddlePlan(k) ==
  Plan([n \in {"a"} |->
          Node(Pick(<<<<Rm>>, <<WriteFile, Nest>>>>, k, 1), Pick(<<"mutates", "forces">>, k, 2),
               Pick(<<<<>>, <<When("exit0", "a")>>>>, k, 4))],
       Pick(<<TRUE, FALSE>>, k, 8), Pick(<<0, 2>>, k, 16))

InnerPlan(k) ==
  Plan([n \in {"a"} |-> Pick(<<Node(<<Rm>>, "forces", <<>>),
                               Node(<<ReadFile, WebFetch>>, "parallel", <<>>)>>, k, 1)], TRUE, 0)

Outers  == 384
Middles == 32
Inners  == 2
Copies  == Middles * Inners

Link(plan, child) ==
  [plan EXCEPT !.nodes = [n \in DOMAIN @ |->
     [@[n] EXCEPT !.commands = [i \in DOMAIN @ |-> [@[i] EXCEPT !.plan = child]]]]]

\* The innermost plans, a copy of each middle plan for each of them, and a
\* copy of each outer plan for each of those.
MCPlanNames == 1..(Inners + Copies + Outers * Copies)

MCPlans == [p \in MCPlanNames |->
  IF p <= Inners THEN InnerPlan(p - 1)
  ELSE LET k == p - Inners - 1
           j == k - Copies
       IN IF k < Copies THEN Link(MiddlePlan(k \div Inners), (k % Inners) + 1)
          ELSE Link(OuterPlan(j \div Copies), Inners + (j % Copies) + 1)]

\* One in eleven of the outermost plans: every choice of every list occurs.
MCSubmitted == {Inners + Copies + 11 * k : k \in 1..((Outers * Copies) \div 11)}
=============================================================================

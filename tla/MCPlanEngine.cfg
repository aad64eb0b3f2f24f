\* Plans nested three deep, with cycles, forces and depth limits, under fairness.
CONSTANTS
  PlanNames <- MCPlanNames
  Plans <- MCPlans
  Submitted <- MCSubmitted
  DefaultMaxDepth = 3
  MaxOperations = 5
SPECIFICATION FairSpec
INVARIANTS TypeOK ForceChain ReadOnlyHeld PathBounded MatchGate ShellOff BlockedStops AbortWins
PROPERTIES PlanEnds

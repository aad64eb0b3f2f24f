\* A command with a job and a daemon, every fault, under fairness.
CONSTANTS
  OwnCodes <- PlainCodes
  TailLimit = 1
  SpillMax = 3
  PipeSize = 2
  MaxWritten = 4
  Faults = {"start", "create", "write"}
SPECIFICATION FairSpec
INVARIANTS TypeOK OutputComplete GroupGone SpillWhole
PROPERTIES KeepsPromise EndsInTime

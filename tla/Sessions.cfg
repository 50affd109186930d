\* Three sessions at a time, whose names come back when they are free.
SPECIFICATION SessionsSpec
CONSTANTS
  Sess = {a, b, c}
  Nobody = Nobody
INVARIANTS
  ProcessorRuns
  QueuesBalanced

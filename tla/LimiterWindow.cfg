\* One client whose requests reach two workers; the clock is set back once.
SPECIFICATION Spec
CONSTANTS
  Worker = {w1, w2}
  Key = {k1}
  max_weight = 2
  window_secs = 2
  MaxTime = 3
  MaxStepsBack = 1
  MaxRequests = 5
  Wide = 64
SYMMETRY AnyWorkerOrKey
INVARIANTS
  LimitHolds
PROPERTY
  RefusedForCause

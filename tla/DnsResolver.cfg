SPECIFICATION FairSpec
CONSTANTS
  Reqs = {r1, r2}
  Linked = {r1}
  EnableCache = TRUE
  Workers = {w1}
  Canceler = canceler
  Owner = owner
INVARIANTS
  AnsweredOnce
  NoRequestLeftOver
PROPERTIES
  AwaitsAnswered
CHECK_DEADLOCK FALSE

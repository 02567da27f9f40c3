SPECIFICATION Spec
CONSTANTS
  w1 = w1
  w2 = w2
  leader = leader
  t1 = t1
  t2 = t2
  Workers <- MCWorkers
  Leader = leader
  Tuples <- MCTuples
  StoreLen <- MCStoreLen
  NLists = 4
INVARIANTS
  ListsCompactedOnce
  CounterSettled
PROPERTIES
  CompactionSeesAllInserts
  BuildEnds

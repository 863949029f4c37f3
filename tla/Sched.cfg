SPECIFICATION Spec
CONSTANTS
  NTasks = 3
  Queues = {q1, q2}
  DefPriority = 1
  MaxPriority = 1
  Nicer = {1}
  Ruder = {1}
INVARIANTS QueuePointers NoLostSleeper WorkConserving CreditBounded
SYMMETRY QueueSymmetry
VIEW Seen

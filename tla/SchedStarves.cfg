SPECIFICATION BusySpec
CONSTANTS
  NTasks = 3
  Queues = {q1}
  DefPriority = 2
  MaxPriority = 2
  Nicer = {}
  Ruder = {}
PROPERTIES BusyTasksProgress

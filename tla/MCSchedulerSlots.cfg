SPECIFICATION SchedSpec
CONSTANTS
  MaxTasks = 4
  Quantum = 3
INVARIANTS SlotsAreReused
CHECK_DEADLOCK FALSE

SPECIFICATION Spec
CONSTANTS
  MaxTasks = 3
  Quantum = 2
  Terminals = {0, 1}
  RingSize = 3
  Chars = {"a"}
  Functions = {}
  Cursors = {"left"}
  Commands = {"edit", "print", "yield", "syscall"}
  MaxKeys = 3
INVARIANTS OneRunning
PROPERTIES ImplementsKeyQueue PrefixIsOneShot NoStarvation KeysAreRead
CHECK_DEADLOCK FALSE

SPECIFICATION Spec
CONSTANTS
  MaxTasks = 3
  Quantum = 2
  Terminals = {0, 1}
  RingSize = 3
  Chars = {"a"}
  Functions = {}
  Cursors = {}
  Commands = {"edit", "print", "syscall"}
  MaxKeys = 3
INVARIANTS NeverWedged

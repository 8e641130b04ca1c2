SPECIFICATION Spec
CONSTANTS
  TerminalSlots = 3
  BootSessions = 2
  MaxTasks = 5
CONSTRAINT BeforeDrawing
VIEW Look
INVARIANTS ScreenIsFresh NeverLockedOut KeysHaveReader
PROPERTIES KillHitsHighlighted

CONSTANTS
  Threads = {t1, t2}
  Lists <- MCLists
SYMMETRY Symmetry
SPECIFICATION Spec
INVARIANTS TypeOK NothingForgotten NumbersKeepMeaning CleanupUndoesSetup

CONSTANTS
  Gpios = {g1, g2}
  Edges = {"rising"}
  Bounces = {FALSE}
  Callbacks = {c1}
  Fds = {f1, f2}
  Threads = {t1, t2}
  None = None
SYMMETRY Symmetry
SPECIFICATION Spec
INVARIANTS TypeOK ListsAgree ServedUnlessRaced EventHadEdge
CHECK_DEADLOCK FALSE

CONSTANTS
  Gpios = {g1, g2}
  Edges = {"rising", "falling"}
  Bounces = {FALSE, TRUE}
  Callbacks = {}
  Fds = {f1, f2}
  Threads = {t1}
  None = None
SPECIFICATION Spec
PROPERTIES TriggerIsLatched
CHECK_DEADLOCK FALSE

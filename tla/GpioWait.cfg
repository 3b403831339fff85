CONSTANTS
  Gpios = {g1}
  Edges = {"rising", "falling"}
  Bounces = {FALSE, TRUE}
  Callbacks = {}
  Fds = {f1}
  Threads = {t1}
  Waiters = {w1}
  None = None
SPECIFICATION WSpec
INVARIANTS WTypeOK SoleWaitIsTrue OneTimeout ServedBesideWaits
PROPERTIES TriggerEndsWait
CHECK_DEADLOCK FALSE

CONSTANTS
  Gpios = {0}
  Objects = {o1}
  Records = {r1, r2}
  Dutycycles = {0, 50, 100}
  Slices = {1001}
  Roundings = {1}
  None = None
SPECIFICATION Spec
INVARIANTS TypeOK NoUseAfterFree OneRunningPerPin UndisturbedTurnIsPeriod
PROPERTIES StoppedIsFreed Pulses ImplementsPwmOutput

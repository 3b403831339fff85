CONSTANTS
  Gpios = {0}
  Objects = {o1, o2}
  Records = {r1, r2}
  Dutycycles = {0, 50, 100}
  Slices = {999, 1001}
  Roundings = {1}
  None = None
SPECIFICATION Spec
PROPERTIES DuplicateIsHarmless

SPECIFICATION Spec
CONSTANTS
  Texts = {t1, t2}
  MaxArgs = 3
  Written = {"n", "f", "c", "l"}
  Unset = Unset
  NullArg = NullArg
  NameTail = NameTail
INVARIANTS TypeOK OnlySecondText DiesOnLoneOption
CHECK_DEADLOCK FALSE

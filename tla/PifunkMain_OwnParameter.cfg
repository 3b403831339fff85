SPECIFICATION Spec
CONSTANTS
  Texts = {t1, t2}
  MaxArgs = 2
  Written = {"n", "f", "c", "l"}
  Unset = Unset
  NullArg = NullArg
  NameTail = NameTail
INVARIANT OwnParameter
CHECK_DEADLOCK FALSE

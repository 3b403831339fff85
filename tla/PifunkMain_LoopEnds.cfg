SPECIFICATION FairSpec
CONSTANTS
  Texts = {t1, t2}
  MaxArgs = 2
  Written = {"n", "f", "c", "l"}
  Unset = Unset
  NullArg = NullArg
  NameTail = NameTail
PROPERTY AllReadEndsLoop
CHECK_DEADLOCK FALSE

SPECIFICATION FilesSpec
CONSTANTS
  Writers = {w1, w2}
  Data = {d1, d2}
  Names = {t1, t2}
  Blocks = 2
  None = None
  Callers = {c1, c2, c3, c4}
  Long = {c4}
  Asked = {0, 1, 2, 3, 9}
  DefaultLimit = 3
  MaxLimit = 3
INVARIANTS
  NeverTornByPowerLoss
  NoOrphanTmp
PROPERTIES
  ImplementsRegister
  AnswerIsTail
CHECK_DEADLOCK FALSE

SPECIFICATION TokenSpec
CONSTANTS
  Requests = {r1, r2}
  Tokens = {t0, t1, t2, t3}
  Short = {t0}
  NoToken = NoToken
  Torn = Torn
SYMMETRY Symmetry
INVARIANT
  OldTokenStaysDead

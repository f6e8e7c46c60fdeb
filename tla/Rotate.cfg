SPECIFICATION TokenSpec
CONSTANTS
  Requests = {r1, r2, r3}
  Tokens = {t0, t1, t2, t3, t4}
  Short = {t0}
  NoToken = NoToken
  Torn = Torn
SYMMETRY Symmetry
INVARIANTS
  LockedOutOnlyByFailure
  ReplacedTokenStaysDead
  FileTokenIsAccepted

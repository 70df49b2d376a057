\* Two requests at a time on one session, in which two users may log in.
SPECIFICATION Spec
CONSTANTS
  Client = {c1}
  User = {u1, u2}
  Request = {r1, r2}
  None = None
  MaxSessions = 1
  MaxCodes = 2
  MaxTokens = 3
SYMMETRY Symmetry
INVARIANTS
  CodesAreSpentOnce
  GrantsHaveOneLiveToken
  TokensNameTheirUser
CHECK_DEADLOCK FALSE

SPECIFICATION SessionSpec
CONSTANTS
  a1 = a1 b1 = b1 b2 = b2 c1 = c1 c2 = c2 c3 = c3 k1 = k1 k2 = k2 k3 = k3 k4 = k4 r1 = r1 r2 = r2
  Account = {a1}
  Token = {k1, k2, k3, k4}
  Request = {r1, r2}
  Tab = {b1, b2}
  Calls <- OneCallEach
  NoAccount = NoAccount NoToken = NoToken NoRequest = NoRequest
  RegistrationEnabled = TRUE
  MaxLosses = 0
CHECK_DEADLOCK FALSE
PROPERTY LiveTokenKept

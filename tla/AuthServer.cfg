SPECIFICATION Spec
CONSTANTS
  a1 = a1 a2 = a2 k1 = k1 k2 = k2 k3 = k3 r1 = r1 r2 = r2
  Account = {a1, a2}
  Token = {k1, k2, k3}
  Request = {r1, r2}
  NoAccount = NoAccount NoToken = NoToken
  RegistrationEnabled = TRUE
SYMMETRY AuthSymmetry
INVARIANT TypeOK
INVARIANT FirstIsAdmin
INVARIANT OldTokenIsDead
INVARIANT SameOwner
PROPERTY DeadIsFinal

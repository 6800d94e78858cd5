SPECIFICATION Spec
CONSTANTS
  Wallets = {w1, w2, w3, w4}
  V1Flags = {add, remove, pause, unpause}
  ReservedFlags = {reserved}
  MaxDelegates = 3
  AddRestricted = add
  RemoveRestricted = remove
  Pause = pause
  Unpause = unpause
SYMMETRY WalletSymmetry
INVARIANTS
  TypeOK
  CountExact
  NoNewPowers
PROPERTY
  UnrestrictedStand

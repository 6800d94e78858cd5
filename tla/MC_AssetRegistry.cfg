\* A closed Reserve is gone: no action is possible, legitimately.
SPECIFICATION Spec
CHECK_DEADLOCK FALSE
CONSTANTS
  Mints = {a1, a2, a3, a4}
  MaxReserveAssets = 3
  BpsDenominator = 2
INVARIANTS
  TypeOK
  OneAccountList
  TotalExact
PROPERTY
  ListImplemented

SPECIFICATION Spec
CONSTANTS
  Never = Never
  Cap = 5
  ObscuredRange <- Range12
  Configs <- Tables
INVARIANTS SecureNeedsTheUser ObscuredIsBounded UserKeepsTheDesk StrangerIsReported

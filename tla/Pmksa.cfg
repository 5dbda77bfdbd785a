SPECIFICATION Spec
CONSTANTS
  BSSs = {"a", "b", "c"}
  Others = {"t", "u"}
  Keys = {1, 2, 3, 4, 5}
  Lifetime = 2
  Configs <- MCConfigs
INVARIANTS NothingDangles PmkAgreement CurrentIsUsed NoExpiredEntry ExpiryScheduled OneEntryPerStation
PROPERTIES CurrentSpared

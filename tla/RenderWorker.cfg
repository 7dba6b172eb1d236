\* Two candidate passwords, so that the right one may be the first or the second,
\* and room for two events of each kind before the status.
SPECIFICATION FairSpec
CONSTANTS
  MaxCandidates = 2
  MaxEvents = 4
INVARIANTS
  OnlyPartsLeak
  PasswordVerdict
  RepairAsked
PROPERTIES
  
  KeepsContract

SPECIFICATION FairSpec
CONSTANTS
  m1 = m1
  Jobs = {m1}
  Initial = {}
  Startup = {m1}
  Deletable = {m1}
  Editable = {m1}
  MaxLosses = 2
INVARIANTS
  TypeOK
  PidIsOurs
  StopEndsChild
  StartupQuiet
  OneMount
PROPERTIES
  Healed

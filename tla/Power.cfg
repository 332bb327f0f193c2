SPECIFICATION FairSpec
CONSTANTS
  Voltages = {39, 57, 59}
  MIN_BATTERY_POWERED_VOLTAGE = 40
  MIN_CHARGING_VOLTAGE = 56
  MAX_CHARGING_VOLTAGE = 58
  keyDelayTime = 1
  BootTime = 2
  MaxTime = 3
  FilesMayFail = TRUE
INVARIANTS
  TypeOK
  FullPassEndsOff
  KeyTimeNeverAhead
PROPERTIES
  StartsOnlyWhenLow
  StopsOnlyWhenHigh
  LowEventuallyCharging

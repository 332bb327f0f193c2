SPECIFICATION FairSpec
CONSTANTS
  Voltages = {39, 57}
  MIN_BATTERY_POWERED_VOLTAGE = 40
  MIN_CHARGING_VOLTAGE = 56
  MAX_CHARGING_VOLTAGE = 58
  keyDelayTime = 1
  BootTime = 2
  MaxTime = 4
  FilesMayFail = FALSE
PROPERTIES
  IdleBatteryIsCut

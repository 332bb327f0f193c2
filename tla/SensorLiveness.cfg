SPECIFICATION FairSpec
CONSTANTS
  SENSOR_NUM = 2
  Readings <- MCReadings
  OBIS <- MCCodes
  ShmItem <- MCItems
  StatusSensors <- MCStatusSensors
  alarmValue <- MCalarmValue
  alarmOBIS <- MCownCode
  shmAddr <- MConeItem
  measures <- MCapart
  Watching = FALSE
  Noise = Noise
  Foreign = Foreign
  MaxLate = 2
  QueueCap = 1
PROPERTIES
  Resynchronises
  DroppedAlarmIsRetried

SPECIFICATION FairSpec
CONSTANTS
  LTU_DEVICE_NUM = 1
  LTU_PHASE_NUM = 1
  TMU_LED_NUM = 1
  HALF_WORD = 1
  Voltages = {0, 220}
  Currents = {0}
  Temperatures = {0, 61}
PROPERTIES
  LampsUpdated

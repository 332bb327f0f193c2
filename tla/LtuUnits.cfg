SPECIFICATION Spec
CONSTANTS
  LTU_DEVICE_NUM = 2
  LTU_PHASE_NUM = 1
  TMU_LED_NUM = 1
  HALF_WORD = 2
  Voltages = {0, 220}
  Currents = {0}
  Temperatures = {55}
INVARIANTS
  TypeOK
  LampsTellWhatIsStored

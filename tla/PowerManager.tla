----------------------------- MODULE PowerManager -----------------------------
(***************************************************************************)
(* The power-manager process (src/src/power-manager/main.cpp).  Three      *)
(* threads run beside each other without a lock and talk to the driver     *)
(* through files:                                                          *)
(*   power control  switches the battery supply on and off,                *)
(*   charging       starts and stops the charger,                          *)
(*   key monitor    copies the time of the last key press.                 *)
(* Every helper of the source opens its file, reads or writes it once and  *)
(* closes it, so one action is one such access with the branch it decides. *)
(***************************************************************************)
EXTENDS Integers

CONSTANTS
  Voltages,                     \* battery voltages, in tenths of a volt
  MIN_BATTERY_POWERED_VOLTAGE,  \* the limits of main.h
  MIN_CHARGING_VOLTAGE,
  MAX_CHARGING_VOLTAGE,
  keyDelayTime,                 \* the flag of the same name, in ticks
  BootTime,                     \* time(NULL) when the process starts
  MaxTime,                      \* bound: the clock stops here
  FilesMayFail                  \* opening, reading or writing a file may fail

ASSUME PowerAssumption ==
  /\ Voltages \subseteq Nat
  /\ MIN_BATTERY_POWERED_VOLTAGE \in Nat
  /\ MIN_CHARGING_VOLTAGE \in Nat /\ MAX_CHARGING_VOLTAGE \in Nat
  /\ 0 < MIN_CHARGING_VOLTAGE /\ MIN_CHARGING_VOLTAGE < MAX_CHARGING_VOLTAGE
  /\ keyDelayTime \in Nat /\ BootTime \in Nat /\ MaxTime \in Nat
  /\ keyDelayTime < BootTime /\ BootTime <= MaxTime
  /\ FilesMayFail \in BOOLEAN

VARIABLES
  pcPower, pcCharge, pcKey,  \* the access each thread makes next
  batteryPoweredStatus,      \* the static of IsJustSwitchedToExternalPower
  lastKeyPressedTime,        \* shared by the key and the power thread
  voltage,                   \* /proc/wfet/battery_adc
  charging,                  \* /proc/wfet/battery_charge
  supply,                    \* bit 4 of the gpio: the battery supply is on
  onBattery,                 \* /proc/wfet/poweroff_state is '1'
  keyTime,                   \* /proc/wfet/last_key_time
  now,                       \* time(NULL)
  full, low, high            \* auxiliary, see below

power  == <<pcPower, batteryPoweredStatus, supply>>
charge == <<pcCharge, charging, full, low, high>>
key    == <<pcKey, lastKeyPressedTime>>
world  == <<voltage, onBattery, keyTime, now>>
vars   == <<power, charge, key, world>>

Times == {0} \cup BootTime .. MaxTime

TypeOK ==
  /\ pcPower \in {"external", "firstFlag", "flag", "enable", "battery", "idle",
                  "low", "cut"}
  /\ pcCharge \in {"min", "isCharging", "enable", "max", "disable"}
  /\ pcKey \in {"compare", "assign"}
  /\ batteryPoweredStatus \in {"unset", "battery", "external"}
  /\ lastKeyPressedTime \in Times /\ keyTime \in Times
  /\ voltage \in Voltages
  /\ charging \in BOOLEAN /\ supply \in BOOLEAN /\ onBattery \in BOOLEAN
  /\ now \in BootTime .. MaxTime
  /\ full \in BOOLEAN /\ low \in BOOLEAN /\ high \in BOOLEAN

------------------------------------------------------------------------------
(* What the helpers of the source return.                                  *)

Failures == IF FilesMayFail THEN BOOLEAN ELSE {FALSE}

(* GetBatteryVoltage: sscanf leaves adcValue 0 when there is nothing to    *)
(* read, and 0 V is a voltage like any other for the callers.              *)
BatteryVoltage(failed) == IF failed THEN 0 ELSE voltage

(* GetLastKeyTime: atoll of an empty buffer is 0.                          *)
LastKeyTimeOrError(failed) == IF failed THEN -1 ELSE keyTime
LastKeyTime(failed) == IF failed THEN 0 ELSE keyTime

(* IsCharging: an empty buffer leaves chargeStatus 0.                      *)
AlwaysReadsCharging(failed) == TRUE
ReadsCharging(failed) == ~failed /\ charging

(* IsBatteryPowered asks GetData for 1 byte, and GetData reads size - 1    *)
(* bytes and puts a terminator after them: the buffer is always '\0' and   *)
(* the answer FALSE, whatever the file says.  When the file cannot be      *)
(* opened or read the buffer is not initialized and the answer is          *)
(* anything.                                                               *)
BatteryFlags == IF FilesMayFail THEN BOOLEAN ELSE {FALSE}

(* A write through SetData either reaches the device or is dropped; the    *)
(* callers do not look.                                                    *)
Written(old, new, failed) == IF failed THEN old ELSE new

------------------------------------------------------------------------------
(* main and DeviceInit, which switches the supply on unless the write      *)
(* fails.  What else an earlier run of the program left behind is unknown. *)
Init ==
  /\ pcPower = "external" /\ pcCharge = "min" /\ pcKey = "compare"
  /\ batteryPoweredStatus = "unset"
  /\ lastKeyPressedTime = 0
  /\ voltage \in Voltages
  /\ charging \in BOOLEAN
  /\ supply \in BOOLEAN /\ (~FilesMayFail => supply)
  /\ onBattery \in BOOLEAN
  /\ keyTime \in {0, BootTime}
  /\ now = BootTime
  /\ full = FALSE /\ low = FALSE /\ high = FALSE

------------------------------------------------------------------------------
(* ControlBatteryPower.                                                    *)

(* IsExternalPowered() && ...: the second operand only runs on external    *)
(* power.                                                                  *)
CheckExternal ==
  /\ pcPower = "external"
  /\ \E battery \in BatteryFlags :
       pcPower' = IF battery THEN "battery"
                  ELSE IF batteryPoweredStatus = "unset" THEN "firstFlag"
                  ELSE "flag"
  /\ UNCHANGED <<batteryPoweredStatus, supply, charge, key, world>>

(* The initializer of the static, on the first call only.                  *)
FirstFlag ==
  /\ pcPower = "firstFlag"
  /\ \E battery \in BatteryFlags :
       batteryPoweredStatus' = IF battery THEN "battery" ELSE "external"
  /\ pcPower' = "flag"
  /\ UNCHANGED <<supply, charge, key, world>>

JustSwitchedToExternal ==
  /\ pcPower = "flag"
  /\ \E battery \in BatteryFlags :
       /\ batteryPoweredStatus' = IF battery THEN "battery" ELSE "external"
       /\ pcPower' = IF batteryPoweredStatus = "battery" /\ ~battery
                     THEN "enable" ELSE "battery"
  /\ UNCHANGED <<supply, charge, key, world>>

EnableBatteryPowered ==
  /\ pcPower = "enable"
  /\ \E failed \in Failures : supply' = Written(supply, TRUE, failed)
  /\ pcPower' = "battery"
  /\ UNCHANGED <<batteryPoweredStatus, charge, key, world>>

CheckBattery ==
  /\ pcPower = "battery"
  /\ \E battery \in BatteryFlags :
       pcPower' = IF battery THEN "idle" ELSE "external"
  /\ UNCHANGED <<batteryPoweredStatus, supply, charge, key, world>>

CheckLongTimeNoKeyPressed ==
  /\ pcPower = "idle"
  /\ pcPower' = IF now - lastKeyPressedTime > keyDelayTime THEN "cut" ELSE "low"
  /\ UNCHANGED <<batteryPoweredStatus, supply, charge, key, world>>

CheckBatteryVoltageLow ==
  /\ pcPower = "low"
  /\ \E failed \in Failures :
       pcPower' = IF BatteryVoltage(failed) < MIN_BATTERY_POWERED_VOLTAGE
                  THEN "cut" ELSE "external"
  /\ UNCHANGED <<batteryPoweredStatus, supply, charge, key, world>>

DisableBatteryPowered ==
  /\ pcPower = "cut"
  /\ \E failed \in Failures : supply' = Written(supply, FALSE, failed)
  /\ pcPower' = "external"
  /\ UNCHANGED <<batteryPoweredStatus, charge, key, world>>

------------------------------------------------------------------------------
(* ControlBatteryCharging.  Auxiliary flags describe the current pass:     *)
(*   full  the battery has been above the upper limit since the pass began *)
(*         and no access of the pass has failed,                           *)
(*   low   the battery was below the lower limit at some moment of the     *)
(*         pass, or an access of the pass has failed,                      *)
(*   high  the battery was above the upper limit at some moment of it.     *)

(* Variant: the charger is started below the upper limit.                  *)
MinBelowMax(failed) ==
  /\ pcCharge = "min" /\ failed \in Failures
  /\ pcCharge' = IF BatteryVoltage(failed) < MAX_CHARGING_VOLTAGE
                 THEN "isCharging" ELSE "max"
  /\ full' = (~failed /\ voltage > MAX_CHARGING_VOLTAGE)
  /\ low' = (failed \/ voltage < MIN_CHARGING_VOLTAGE)
  /\ high' = (voltage > MAX_CHARGING_VOLTAGE)
  /\ UNCHANGED <<charging, power, key, world>>

CheckMinVoltage(failed) ==
  /\ pcCharge = "min"
  /\ failed \in Failures
  /\ pcCharge' = IF BatteryVoltage(failed) < MIN_CHARGING_VOLTAGE
                 THEN "isCharging" ELSE "max"
  /\ full' = (~failed /\ voltage > MAX_CHARGING_VOLTAGE)
  /\ low' = (failed \/ voltage < MIN_CHARGING_VOLTAGE)
  /\ high' = (voltage > MAX_CHARGING_VOLTAGE)
  /\ UNCHANGED <<charging, power, key, world>>

CheckIsCharging(failed) ==
  /\ pcCharge = "isCharging"
  /\ failed \in Failures
  /\ pcCharge' = IF ReadsCharging(failed) THEN "max" ELSE "enable"
  /\ full' = (full /\ ~failed)
  /\ low' = (low \/ failed)
  /\ UNCHANGED <<charging, high, power, key, world>>

EnableCharging(failed) ==
  /\ pcCharge = "enable"
  /\ failed \in Failures
  /\ charging' = Written(charging, TRUE, failed)
  /\ pcCharge' = "max"
  /\ full' = (full /\ ~failed)
  /\ low' = (low \/ failed)
  /\ UNCHANGED <<high, power, key, world>>

(* Variant: the upper limit is never found reached.                        *)
NeverMax(failed) ==
  /\ pcCharge = "max" /\ failed \in Failures
  /\ pcCharge' = "min"
  /\ full' = (full /\ ~failed) /\ low' = (low \/ failed)
  /\ UNCHANGED <<charging, high, power, key, world>>

(* Variant: the charger is stopped above the lower limit.                  *)
MaxAboveMin(failed) ==
  /\ pcCharge = "max" /\ failed \in Failures
  /\ pcCharge' = IF BatteryVoltage(failed) > MIN_CHARGING_VOLTAGE
                 THEN "disable" ELSE "min"
  /\ full' = (full /\ ~failed) /\ low' = (low \/ failed)
  /\ UNCHANGED <<charging, high, power, key, world>>

CheckMaxVoltage(failed) ==
  /\ pcCharge = "max"
  /\ failed \in Failures
  /\ pcCharge' = IF BatteryVoltage(failed) > MAX_CHARGING_VOLTAGE
                 THEN "disable" ELSE "min"
  /\ full' = (full /\ ~failed)
  /\ low' = (low \/ failed)
  /\ UNCHANGED <<charging, high, power, key, world>>

DisableCharging(failed) ==
  /\ pcCharge = "disable"
  /\ failed \in Failures
  /\ charging' = Written(charging, FALSE, failed)
  /\ pcCharge' = "min"
  /\ full' = (full /\ ~failed)
  /\ low' = (low \/ failed)
  /\ UNCHANGED <<high, power, key, world>>

------------------------------------------------------------------------------
(* KeyMonitorThread reads the file once to compare and again to assign.    *)

CompareKeyTime ==
  /\ pcKey = "compare"
  /\ \E failed \in Failures :
       /\ lastKeyPressedTime # LastKeyTime(failed)
       /\ pcKey' = "assign"
  /\ UNCHANGED <<lastKeyPressedTime, power, charge, world>>

(* Variant: the thread notes when it saw the change.                       *)
AssignNow ==
  /\ pcKey = "assign"
  /\ lastKeyPressedTime' = now
  /\ pcKey' = "compare"
  /\ UNCHANGED <<power, charge, world>>

AssignKeyTime ==
  /\ pcKey = "assign"
  /\ \E failed \in Failures : lastKeyPressedTime' = LastKeyTime(failed)
  /\ pcKey' = "compare"
  /\ UNCHANGED <<power, charge, world>>

------------------------------------------------------------------------------
(* The device.                                                             *)

VoltageChanges ==
  /\ voltage' \in Voltages \ {voltage}
  /\ full' = (full /\ voltage' > MAX_CHARGING_VOLTAGE)
  /\ low' = (low \/ voltage' < MIN_CHARGING_VOLTAGE)
  /\ high' = (high \/ voltage' > MAX_CHARGING_VOLTAGE)
  /\ UNCHANGED <<pcCharge, charging, power, key, onBattery, keyTime, now>>

SourceChanges ==
  /\ onBattery' = ~onBattery
  /\ UNCHANGED <<power, charge, key, voltage, keyTime, now>>

KeyPressed ==
  /\ keyTime # now
  /\ keyTime' = now
  /\ UNCHANGED <<power, charge, key, voltage, onBattery, now>>

Tick ==
  /\ now < MaxTime
  /\ now' = now + 1
  /\ UNCHANGED <<power, charge, key, voltage, onBattery, keyTime>>

------------------------------------------------------------------------------
PowerControl ==
  \/ CheckExternal \/ FirstFlag \/ JustSwitchedToExternal
  \/ EnableBatteryPowered \/ CheckBattery
  \/ CheckLongTimeNoKeyPressed \/ CheckBatteryVoltageLow
  \/ DisableBatteryPowered

Access(failed) ==
  \/ CheckMinVoltage(failed) \/ CheckIsCharging(failed)
  \/ EnableCharging(failed)
  \/ CheckMaxVoltage(failed) \/ DisableCharging(failed)

KeyMonitor == CompareKeyTime \/ AssignKeyTime

Device == VoltageChanges \/ SourceChanges \/ KeyPressed \/ Tick

Next ==
  \/ PowerControl
  \/ \E failed \in BOOLEAN : Access(failed)
  \/ KeyMonitor
  \/ Device

Spec == Init /\ [][Next]_vars

(* The threads never end and never wait for each other.  An access that is *)
(* tried again on every pass does not fail every time.                     *)
FairSpec ==
  /\ Spec
  /\ WF_vars(PowerControl)
  /\ WF_vars(\E failed \in BOOLEAN : Access(failed))
  /\ SF_vars(CheckMinVoltage(FALSE)) /\ SF_vars(EnableCharging(FALSE))
  /\ SF_vars(CheckMaxVoltage(FALSE)) /\ SF_vars(DisableCharging(FALSE))
  /\ WF_vars(KeyMonitor)

------------------------------------------------------------------------------
(* Properties.                                                             *)

(* A pass of ControlBatteryCharging during which the battery was full all  *)
(* along and every access worked ends with the charger off, whatever it    *)
(* was before: the pass may not start the charger and then not stop it.    *)
FullPassEndsOff == pcCharge = "min" /\ full => ~charging

(* The charger is only started when the battery was below the lower limit  *)
(* in the pass that starts it, or a file could not be read in that pass:   *)
(* between the limits it stays as it is.                                   *)
StartsOnlyWhenLow == [][~charging /\ charging' => low]_<<charging, low>>

(* And it is only stopped when the battery was above the upper limit in    *)
(* the pass that stops it: a failing file may start the charger, because a *)
(* voltage that cannot be read is 0, but never stops it.                   *)
StopsOnlyWhenHigh == [][charging /\ ~charging' => high]_<<charging, high>>

(* The idle time the power thread works with is never shorter than the     *)
(* real one: lastKeyPressedTime is a time the driver reported earlier, or  *)
(* 0, although the key thread reads the file twice and writes without a    *)
(* lock.  So the supply may be cut too early, never too late.              *)
KeyTimeNeverAhead == lastKeyPressedTime <= keyTime

(* A battery that stays low ends up being charged, and stays so.           *)
LowEventuallyCharging ==
  <>[](voltage < MIN_CHARGING_VOLTAGE) => <>[]charging

(* main.cpp:66: the program "handles battery power".  On battery and with  *)
(* no key pressed for longer than keyDelayTime, ControlBatteryPower        *)
(* switches the battery supply off.                                        *)
IdleBatteryIsCut ==
  <>[](onBattery /\ now - keyTime > keyDelayTime) => <>(~supply)
==============================================================================

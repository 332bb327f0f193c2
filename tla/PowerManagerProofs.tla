-------------------------- MODULE PowerManagerProofs --------------------------
(***************************************************************************)
(* Proofs about PowerManager, for all voltages, limits, delays and clocks, *)
(* with or without failing files.                                          *)
(***************************************************************************)
EXTENDS PowerManager, TLAPS

(***************************************************************************)
(* Which steps change what a thread works with.                            *)
(***************************************************************************)

(* The charging thread's variables and the voltage it compares change by   *)
(* its own accesses and by the battery.                                    *)
LEMMA ChargingSteps ==
  ASSUME [Next]_vars
  PROVE  \/ \E failed \in BOOLEAN : Access(failed)
         \/ VoltageChanges
         \/ UNCHANGED <<pcCharge, charging, full, low, high, voltage>>
<1> USE DEF charge, world, vars
<1>1. CASE PowerControl
  BY <1>1, Zenon DEF PowerControl, CheckExternal, FirstFlag,
     JustSwitchedToExternal, EnableBatteryPowered, CheckBattery,
     CheckLongTimeNoKeyPressed, CheckBatteryVoltageLow, DisableBatteryPowered
<1>2. CASE KeyMonitor
  BY <1>2, Zenon DEF KeyMonitor, CompareKeyTime, AssignKeyTime
<1>3. CASE Device
  BY <1>3, Zenon DEF Device, SourceChanges, KeyPressed, Tick
<1>4. QED
  BY <1>1, <1>2, <1>3, Zenon DEF Next

(* The times change by the key thread, a key press and the clock.          *)
LEMMA KeySteps ==
  ASSUME [Next]_vars
  PROVE  \/ KeyMonitor \/ KeyPressed \/ Tick
         \/ UNCHANGED <<pcKey, lastKeyPressedTime, keyTime, now>>
<1> USE DEF key, world, vars
<1>1. CASE PowerControl
  BY <1>1, Zenon DEF PowerControl, CheckExternal, FirstFlag,
     JustSwitchedToExternal, EnableBatteryPowered, CheckBattery,
     CheckLongTimeNoKeyPressed, CheckBatteryVoltageLow, DisableBatteryPowered
<1>2. ASSUME NEW failed \in BOOLEAN, Access(failed)
      PROVE  UNCHANGED <<pcKey, lastKeyPressedTime, keyTime, now>>
  BY <1>2, Zenon DEF Access, CheckMinVoltage, CheckIsCharging, EnableCharging,
     CheckMaxVoltage, DisableCharging
<1>3. CASE Device
  BY <1>3, Zenon DEF Device, VoltageChanges, SourceChanges
<1>4. QED
  BY <1>1, <1>2, <1>3, Zenon DEF Next

(* The power thread's variables change by its own accesses only, and       *)
(* onBattery only by the device.                                           *)
LEMMA PowerSteps ==
  ASSUME [Next]_vars
  PROVE  PowerControl \/ UNCHANGED <<pcPower, batteryPoweredStatus, supply>>
<1> USE DEF power, vars
<1>1. ASSUME NEW failed \in BOOLEAN, Access(failed) PROVE UNCHANGED power
  BY <1>1, Zenon DEF Access, CheckMinVoltage, CheckIsCharging, EnableCharging,
     CheckMaxVoltage, DisableCharging
<1>2. CASE KeyMonitor
  BY <1>2, Zenon DEF KeyMonitor, CompareKeyTime, AssignKeyTime
<1>3. CASE Device
  BY <1>3, Zenon DEF Device, VoltageChanges, SourceChanges, KeyPressed, Tick
<1>4. QED
  BY <1>1, <1>2, <1>3, Zenon DEF Next

(***************************************************************************)
(* Types, in the groups that the lemmas above separate.                    *)
(***************************************************************************)
ChargeType ==
  /\ pcCharge \in {"min", "isCharging", "enable", "max", "disable"}
  /\ charging \in BOOLEAN /\ full \in BOOLEAN /\ low \in BOOLEAN /\ high \in BOOLEAN
  /\ voltage \in Voltages

KeyType ==
  /\ pcKey \in {"compare", "assign"}
  /\ lastKeyPressedTime \in Times /\ keyTime \in Times
  /\ now \in BootTime .. MaxTime

PowerType ==
  /\ pcPower \in {"external", "firstFlag", "flag", "enable", "battery", "idle",
                  "low", "cut"}
  /\ batteryPoweredStatus \in {"unset", "battery", "external"}
  /\ supply \in BOOLEAN

(* The charging thread and the battery keep ChargeType.                    *)
LEMMA ChargeTypeStep == ChargeType /\ [Next]_vars => ChargeType'
<1> SUFFICES ASSUME ChargeType, [Next]_vars PROVE ChargeType'
  OBVIOUS
<1>1. ASSUME NEW failed \in BOOLEAN, Access(failed) PROVE ChargeType'
  <2>1. pcCharge' \in {"min", "isCharging", "enable", "max", "disable"}
    BY <1>1 DEF Access, CheckMinVoltage, CheckIsCharging, EnableCharging,
       CheckMaxVoltage, DisableCharging
  <2>2. charging' \in BOOLEAN
    BY <1>1, Zenon DEF Access, CheckMinVoltage, CheckIsCharging,
       EnableCharging, CheckMaxVoltage, DisableCharging, Written, ChargeType
  <2>3. full' \in BOOLEAN /\ low' \in BOOLEAN
    BY <1>1, Zenon DEF Access, CheckMinVoltage, CheckIsCharging,
       EnableCharging, CheckMaxVoltage, DisableCharging
  <2>6. high' \in BOOLEAN
    <3>1. CASE CheckMinVoltage(failed)
      BY <3>1, SMT DEF CheckMinVoltage
    <3>2. CASE CheckIsCharging(failed) \/ EnableCharging(failed) \/ CheckMaxVoltage(failed)
               \/ DisableCharging(failed)
      <4>1. high' = high
        BY <3>2 DEF CheckIsCharging, EnableCharging, CheckMaxVoltage, DisableCharging
      <4>2. QED
        BY <4>1 DEF ChargeType
    <3>3. QED
      BY <1>1, <3>1, <3>2 DEF Access
  <2>4. voltage' \in Voltages
    BY <1>1, Zenon DEF Access, CheckMinVoltage, CheckIsCharging,
       EnableCharging, CheckMaxVoltage, DisableCharging, ChargeType, world
  <2>5. QED
    BY <2>1, <2>2, <2>3, <2>4, <2>6 DEF ChargeType
<1>2. CASE VoltageChanges
  <2>1. full' \in BOOLEAN /\ low' \in BOOLEAN /\ high' \in BOOLEAN
    BY <1>2, Zenon DEF VoltageChanges
  <2>2. QED
    BY <1>2, <2>1 DEF VoltageChanges, ChargeType
<1>3. CASE UNCHANGED <<pcCharge, charging, full, low, high, voltage>>
  BY <1>3 DEF ChargeType
<1>4. QED
  BY <1>1, <1>2, <1>3, ChargingSteps

(* The key thread, the keys and the clock keep KeyType.                    *)
LEMMA KeyTypeStep == KeyType /\ [Next]_vars => KeyType'
<1> SUFFICES ASSUME KeyType, [Next]_vars PROVE KeyType'
  OBVIOUS
<1>1. CASE KeyMonitor
  BY <1>1 DEF KeyMonitor, CompareKeyTime, AssignKeyTime, LastKeyTime, KeyType,
     Times, world
<1>2. CASE KeyPressed
  BY <1>2 DEF KeyPressed, KeyType, Times, key
<1>3. CASE Tick
  BY <1>3, PowerAssumption DEF Tick, KeyType, key
<1>4. CASE UNCHANGED <<pcKey, lastKeyPressedTime, keyTime, now>>
  BY <1>4 DEF KeyType
<1>5. QED
  BY <1>1, <1>2, <1>3, <1>4, KeySteps

(* The power thread keeps PowerType.                                       *)
LEMMA PowerTypeStep == PowerType /\ [Next]_vars => PowerType'
<1> SUFFICES ASSUME PowerType, [Next]_vars PROVE PowerType'
  OBVIOUS
<1>1. CASE PowerControl
  <2>1. /\ pcPower' \in {"external", "firstFlag", "flag", "enable", "battery",
                         "idle", "low", "cut"}
        /\ batteryPoweredStatus' \in {"unset", "battery", "external"}
    BY <1>1 DEF PowerControl, CheckExternal, FirstFlag,
       JustSwitchedToExternal, EnableBatteryPowered, CheckBattery,
       CheckLongTimeNoKeyPressed, CheckBatteryVoltageLow,
       DisableBatteryPowered, PowerType
  <2>2. supply' \in BOOLEAN
    BY <1>1, Zenon DEF PowerControl, CheckExternal, FirstFlag,
       JustSwitchedToExternal, EnableBatteryPowered, CheckBattery,
       CheckLongTimeNoKeyPressed, CheckBatteryVoltageLow,
       DisableBatteryPowered, PowerType, Written
  <2>3. QED
    BY <2>1, <2>2 DEF PowerType
<1>2. CASE UNCHANGED <<pcPower, batteryPoweredStatus, supply>>
  BY <1>2 DEF PowerType
<1>3. QED
  BY <1>1, <1>2, PowerSteps

(* Only SourceChanges changes onBattery.                                   *)
LEMMA SourceTypeStep == onBattery \in BOOLEAN /\ [Next]_vars => onBattery' \in BOOLEAN
<1> SUFFICES ASSUME onBattery \in BOOLEAN, [Next]_vars PROVE onBattery' \in BOOLEAN
  OBVIOUS
<1> USE DEF world, vars
<1>1. CASE PowerControl
  BY <1>1, Zenon DEF PowerControl, CheckExternal, FirstFlag,
     JustSwitchedToExternal, EnableBatteryPowered, CheckBattery,
     CheckLongTimeNoKeyPressed, CheckBatteryVoltageLow, DisableBatteryPowered
<1>2. ASSUME NEW failed \in BOOLEAN, Access(failed) PROVE onBattery' = onBattery
  BY <1>2, Zenon DEF Access, CheckMinVoltage, CheckIsCharging, EnableCharging,
     CheckMaxVoltage, DisableCharging
<1>3. CASE KeyMonitor
  BY <1>3, Zenon DEF KeyMonitor, CompareKeyTime, AssignKeyTime
<1>4. CASE Device
  BY <1>4, Zenon DEF Device, VoltageChanges, SourceChanges, KeyPressed, Tick
<1>5. QED
  BY <1>1, <1>2, <1>3, <1>4, Zenon DEF Next

(* The initial state has the types.                                        *)
LEMMA InitTypes == Init => ChargeType /\ KeyType /\ PowerType /\ onBattery \in BOOLEAN
<1> SUFFICES ASSUME Init
             PROVE  ChargeType /\ KeyType /\ PowerType /\ onBattery \in BOOLEAN
  OBVIOUS
<1>1. full \in BOOLEAN /\ low \in BOOLEAN /\ high \in BOOLEAN /\ charging \in BOOLEAN
      /\ supply \in BOOLEAN /\ onBattery \in BOOLEAN
  BY Zenon DEF Init
<1>2. pcCharge = "min" /\ voltage \in Voltages
  BY DEF Init
<1>3. ChargeType
  BY <1>1, <1>2 DEF ChargeType
<1>4. KeyType
  <2>1. BootTime \in BootTime .. MaxTime
    BY PowerAssumption
  <2>2. /\ pcKey = "compare" /\ lastKeyPressedTime = 0 /\ now = BootTime
        /\ keyTime \in {0, BootTime}
    BY DEF Init
  <2>3. QED
    BY <2>1, <2>2 DEF KeyType, Times
<1>5. pcPower = "external" /\ batteryPoweredStatus = "unset"
  BY DEF Init
<1>6. PowerType
  BY <1>1, <1>5 DEF PowerType
<1>7. QED
  BY <1>1, <1>3, <1>4, <1>6

Types == ChargeType /\ KeyType /\ PowerType /\ onBattery \in BOOLEAN

LEMMA TypesCorrect == Spec => []Types
<1>1. Init => Types
  BY InitTypes DEF Types
<1>2. Types /\ [Next]_vars => Types'
  BY ChargeTypeStep, KeyTypeStep, PowerTypeStep, SourceTypeStep DEF Types
<1>3. QED
  BY <1>1, <1>2, PTL DEF Spec

(* Every variable keeps its type: in particular lastKeyPressedTime is      *)
(* always 0 or a time of the driver.                                       *)
THEOREM TypeCorrect == Spec => []TypeOK
<1>1. Types => TypeOK
  BY DEF Types, ChargeType, KeyType, PowerType, TypeOK
<1>2. QED
  BY <1>1, TypesCorrect, PTL

(***************************************************************************)
(* The charger.                                                            *)
(***************************************************************************)

(* While full holds the pass has not found the battery low, so it is not   *)
(* on its way to start the charger, and at its end the charger is off.     *)
FullInv ==
  full => /\ pcCharge \notin {"isCharging", "enable"}
          /\ pcCharge = "min" => ~charging
          /\ voltage > MAX_CHARGING_VOLTAGE

(* Who is about to start the charger saw the battery low.                  *)
StartInv == pcCharge \in {"isCharging", "enable"} => low

ChargeInv == ChargeType /\ FullInv /\ StartInv

(* Within a pass a voltage above the upper limit is noted when the pass    *)
(* begins and when the voltage changes, so that whoever is about to stop   *)
(* the charger saw such a voltage.                                         *)
StopInv ==
  /\ pcCharge # "min" /\ voltage > MAX_CHARGING_VOLTAGE => high
  /\ pcCharge = "disable" => high

LEMMA CheckMinKeeps ==
  ASSUME ChargeInv, NEW failed \in BOOLEAN, CheckMinVoltage(failed)
  PROVE  FullInv' /\ StartInv'
<1>1. voltage' = voltage
  BY Zenon DEF CheckMinVoltage, world
<1>2. voltage \in Nat
  BY PowerAssumption DEF ChargeInv, ChargeType
<1>3. CASE failed
  BY <1>3 DEF CheckMinVoltage, FullInv, StartInv
<1>4. CASE ~failed
  <2>1. pcCharge' = IF voltage < MIN_CHARGING_VOLTAGE THEN "isCharging" ELSE "max"
    BY <1>4 DEF CheckMinVoltage, BatteryVoltage
  <2>2. /\ full' <=> voltage > MAX_CHARGING_VOLTAGE
        /\ low' <=> voltage < MIN_CHARGING_VOLTAGE
    BY <1>4, Zenon DEF CheckMinVoltage
  <2>3. QED
    BY <1>1, <1>2, <2>1, <2>2, PowerAssumption DEF FullInv, StartInv
<1>5. QED
  BY <1>3, <1>4

LEMMA CheckIsChargingKeeps ==
  ASSUME ChargeInv, NEW failed \in BOOLEAN, CheckIsCharging(failed)
  PROVE  FullInv' /\ StartInv'
<1>1. low /\ ~full
  BY DEF ChargeInv, CheckIsCharging, FullInv, StartInv
<1>2. low' /\ ~full'
  BY <1>1, Zenon DEF CheckIsCharging
<1>3. QED
  BY <1>2 DEF FullInv, StartInv

LEMMA EnableChargingKeeps ==
  ASSUME ChargeInv, NEW failed \in BOOLEAN, EnableCharging(failed)
  PROVE  FullInv' /\ StartInv'
<1>1. low /\ ~full
  BY DEF ChargeInv, EnableCharging, FullInv, StartInv
<1>2. low' /\ ~full'
  BY <1>1, Zenon DEF EnableCharging
<1>3. QED
  BY <1>2 DEF FullInv, StartInv

LEMMA CheckMaxKeeps ==
  ASSUME ChargeInv, NEW failed \in BOOLEAN, CheckMaxVoltage(failed)
  PROVE  FullInv' /\ StartInv'
<1>1. voltage' = voltage
  BY Zenon DEF CheckMaxVoltage, world
<1>2. pcCharge' \in {"disable", "min"}
  BY DEF CheckMaxVoltage
<1>3. ASSUME full' PROVE ~failed /\ full
  BY <1>3, Zenon DEF CheckMaxVoltage
<1>4. ASSUME full' PROVE pcCharge' = "disable" /\ voltage' > MAX_CHARGING_VOLTAGE
  BY <1>1, <1>3, <1>4 DEF ChargeInv, FullInv, CheckMaxVoltage, BatteryVoltage
<1>5. QED
  BY <1>2, <1>4 DEF FullInv, StartInv

LEMMA DisableChargingKeeps ==
  ASSUME ChargeInv, NEW failed \in BOOLEAN, DisableCharging(failed)
  PROVE  FullInv' /\ StartInv'
<1>1. voltage' = voltage
  BY Zenon DEF DisableCharging, world
<1>2. pcCharge' = "min"
  BY DEF DisableCharging
<1>3. ASSUME full' PROVE ~failed /\ full
  BY <1>3, Zenon DEF DisableCharging
<1>4. ASSUME full' PROVE ~charging'
  BY <1>3, <1>4, Zenon DEF DisableCharging, Written
<1>5. QED
  BY <1>1, <1>2, <1>3, <1>4 DEF ChargeInv, FullInv, StartInv

LEMMA ChargeInvariant == Spec => []ChargeInv
<1>1. Init => ChargeInv
  <2> SUFFICES ASSUME Init PROVE ChargeInv
    OBVIOUS
  <2>1. ~full /\ pcCharge = "min"
    BY DEF Init
  <2>2. QED
    BY <2>1, InitTypes DEF ChargeInv, FullInv, StartInv
<1>2. ChargeInv /\ [Next]_vars => ChargeInv'
  <2> SUFFICES ASSUME ChargeInv, [Next]_vars PROVE FullInv' /\ StartInv'
    BY ChargeTypeStep DEF ChargeInv
  <2>1. ASSUME NEW failed \in BOOLEAN, Access(failed) PROVE FullInv' /\ StartInv'
    BY <2>1, CheckMinKeeps, CheckIsChargingKeeps, EnableChargingKeeps,
       CheckMaxKeeps, DisableChargingKeeps DEF Access
  <2>2. CASE VoltageChanges
    <3>1. /\ full' <=> full /\ voltage' > MAX_CHARGING_VOLTAGE
          /\ low' <=> low \/ voltage' < MIN_CHARGING_VOLTAGE
          /\ UNCHANGED <<pcCharge, charging>>
      BY <2>2, Zenon DEF VoltageChanges
    <3>2. QED
      BY <3>1 DEF ChargeInv, FullInv, StartInv
  <2>3. CASE UNCHANGED <<pcCharge, charging, full, low, high, voltage>>
    BY <2>3 DEF ChargeInv, FullInv, StartInv
  <2>4. QED
    BY <2>1, <2>2, <2>3, ChargingSteps
<1>3. QED
  BY <1>1, <1>2, PTL DEF Spec

(* A pass of ControlBatteryCharging during which the battery was full all  *)
(* along and no access failed leaves the charger off, for any limits.      *)
THEOREM FullPassEndsOffHolds == Spec => []FullPassEndsOff
<1>1. ChargeInv => FullPassEndsOff
  BY DEF ChargeInv, FullInv, FullPassEndsOff
<1>2. QED
  BY <1>1, ChargeInvariant, PTL

(* The charger is only started in a pass that saw the battery low or could *)
(* not read a file: the hysteresis between the limits, for any limits.     *)
THEOREM StartsOnlyWhenLowHolds == Spec => StartsOnlyWhenLow
<1>1. ChargeInv /\ [Next]_vars => [~charging /\ charging' => low]_<<charging, low>>
  <2> SUFFICES ASSUME ChargeInv, [Next]_vars, ~charging, charging' PROVE low
    OBVIOUS
  <2>1. PICK failed \in BOOLEAN : EnableCharging(failed)
    <3>1. \E failed \in BOOLEAN : Access(failed)
      BY ChargingSteps, Zenon DEF VoltageChanges
    <3>2. PICK failed \in BOOLEAN : Access(failed)
      BY <3>1
    <3>3. ~CheckMinVoltage(failed) /\ ~CheckIsCharging(failed) /\ ~CheckMaxVoltage(failed)
      BY Zenon DEF CheckMinVoltage, CheckIsCharging, CheckMaxVoltage
    <3>4. ~DisableCharging(failed)
      BY Zenon DEF DisableCharging, Written
    <3>5. QED
      BY <3>2, <3>3, <3>4, Zenon DEF Access
  <2>2. QED
    BY <2>1 DEF EnableCharging, ChargeInv, StartInv
<1>2. QED
  BY <1>1, ChargeInvariant, PTL DEF Spec, StartsOnlyWhenLow

LEMMA StopKept == ChargeType /\ StopInv /\ [Next]_vars => StopInv'
<1> SUFFICES ASSUME ChargeType, StopInv, [Next]_vars PROVE StopInv'
  OBVIOUS
<1>1. ASSUME NEW failed \in BOOLEAN, Access(failed) PROVE StopInv'
  <2>1. voltage' = voltage
    BY <1>1, Zenon DEF Access, CheckMinVoltage, CheckIsCharging, EnableCharging,
       CheckMaxVoltage, DisableCharging, world
  <2>2. CASE CheckMinVoltage(failed)
    <3>1. high' <=> voltage > MAX_CHARGING_VOLTAGE
      BY <2>2, Zenon DEF CheckMinVoltage
    <3>2. pcCharge' # "disable"
      BY <2>2 DEF CheckMinVoltage
    <3>3. QED
      BY <2>1, <3>1, <3>2 DEF StopInv
  <2>3. CASE CheckIsCharging(failed) \/ EnableCharging(failed)
    <3>1. pcCharge # "min" /\ pcCharge' # "disable" /\ high' = high
      BY <2>3 DEF CheckIsCharging, EnableCharging
    <3>2. QED
      BY <2>1, <3>1 DEF StopInv
  <2>4. CASE CheckMaxVoltage(failed)
    <3>1. high' = high /\ pcCharge = "max"
      BY <2>4 DEF CheckMaxVoltage
    <3>2. ASSUME pcCharge' # "min" PROVE voltage > MAX_CHARGING_VOLTAGE
      BY <2>4, <3>2, PowerAssumption DEF CheckMaxVoltage, BatteryVoltage
    <3>3. QED
      BY <2>1, <3>1, <3>2 DEF StopInv
  <2>5. CASE DisableCharging(failed)
    BY <2>5 DEF DisableCharging, StopInv
  <2>6. QED
    BY <1>1, <2>2, <2>3, <2>4, <2>5 DEF Access
<1>2. CASE VoltageChanges
  <2>1. /\ high' <=> high \/ voltage' > MAX_CHARGING_VOLTAGE
        /\ UNCHANGED pcCharge
    BY <1>2, Zenon DEF VoltageChanges
  <2>2. QED
    BY <2>1 DEF StopInv
<1>3. CASE UNCHANGED <<pcCharge, charging, full, low, high, voltage>>
  BY <1>3 DEF StopInv
<1>4. QED
  BY <1>1, <1>2, <1>3, ChargingSteps

(* The charger is only stopped in a pass in which the battery was above    *)
(* the upper limit, for any limits, and whatever cannot be read.           *)
THEOREM StopsOnlyWhenHighHolds == Spec => StopsOnlyWhenHigh
<1>1. Init => ChargeType /\ StopInv
  <2> SUFFICES ASSUME Init PROVE StopInv
    BY InitTypes
  <2>1. QED
    BY DEF Init, StopInv
<1>2. ChargeType /\ StopInv /\ [Next]_vars
        => [charging /\ ~charging' => high]_<<charging, high>>
  <2> SUFFICES ASSUME ChargeType, StopInv, [Next]_vars, charging, ~charging' PROVE high
    OBVIOUS
  <2>1. PICK failed \in BOOLEAN : Access(failed)
    BY ChargingSteps, Zenon DEF VoltageChanges
  <2>2. ~CheckMinVoltage(failed) /\ ~CheckIsCharging(failed) /\ ~CheckMaxVoltage(failed)
    BY Zenon DEF CheckMinVoltage, CheckIsCharging, CheckMaxVoltage
  <2>3. ~EnableCharging(failed)
    BY Zenon DEF EnableCharging, Written
  <2>4. DisableCharging(failed)
    BY <2>1, <2>2, <2>3, Zenon DEF Access
  <2>5. QED
    BY <2>4 DEF DisableCharging, StopInv
<1>3. QED
  BY <1>1, <1>2, ChargeTypeStep, StopKept, PTL DEF Spec, StopsOnlyWhenHigh

(***************************************************************************)
(* The key time.                                                           *)
(***************************************************************************)

(* The driver's time is not ahead of the clock either.                     *)
KeyInv == KeyType /\ lastKeyPressedTime <= keyTime /\ keyTime <= now

(* The idle time that the power thread computes is at least the real one,  *)
(* for every interleaving of the key thread's two reads, key presses and   *)
(* failing reads.                                                          *)
THEOREM KeyTimeNeverAheadHolds == Spec => []KeyTimeNeverAhead
<1>1. Init => KeyInv
  <2> SUFFICES ASSUME Init PROVE lastKeyPressedTime <= keyTime /\ keyTime <= now
    BY InitTypes DEF KeyInv
  <2>1. lastKeyPressedTime = 0 /\ keyTime \in {0, BootTime} /\ now = BootTime
    BY DEF Init
  <2>2. QED
    BY <2>1, PowerAssumption
<1>2. KeyInv /\ [Next]_vars => KeyInv'
  <2> SUFFICES ASSUME KeyInv, [Next]_vars
               PROVE  lastKeyPressedTime' <= keyTime' /\ keyTime' <= now'
    BY KeyTypeStep DEF KeyInv
  <2> USE PowerAssumption DEF KeyInv, KeyType, Times
  <2>1. CASE KeyMonitor
    BY <2>1 DEF KeyMonitor, CompareKeyTime, AssignKeyTime, LastKeyTime, world
  <2>2. CASE KeyPressed
    BY <2>2 DEF KeyPressed, key
  <2>3. CASE Tick
    BY <2>3 DEF Tick, key
  <2>4. CASE UNCHANGED <<pcKey, lastKeyPressedTime, keyTime, now>>
    BY <2>4
  <2>5. QED
    BY <2>1, <2>2, <2>3, <2>4, KeySteps
<1>3. KeyInv => KeyTimeNeverAhead
  BY DEF KeyInv, KeyTimeNeverAhead
<1>4. QED
  BY <1>1, <1>2, <1>3, PTL DEF Spec

(***************************************************************************)
(* The battery supply.                                                     *)
(***************************************************************************)

(* The power thread never gets past its battery check.                     *)
NeverIdle == pcPower \in {"external", "firstFlag", "flag", "enable", "battery"}

(* As the code is, the battery supply is never switched off on a device    *)
(* whose files can be read and written: IsBatteryPowered asks GetData for  *)
(* a single byte and gets none, so ControlBatteryPower never reaches the   *)
(* checks of the key time and of the voltage.                              *)
THEOREM NeverCutWhileReadable == ASSUME ~FilesMayFail PROVE Spec => []supply
<1> DEFINE Inv == NeverIdle /\ supply
<1>1. Init => Inv
  <2> SUFFICES ASSUME Init PROVE Inv
    OBVIOUS
  <2>1. supply
    BY Zenon DEF Init
  <2>2. pcPower = "external"
    BY DEF Init
  <2>3. QED
    BY <2>1, <2>2 DEF NeverIdle
<1>2. Inv /\ [Next]_vars => Inv'
  <2> SUFFICES ASSUME NeverIdle, supply, [Next]_vars PROVE NeverIdle' /\ supply'
    OBVIOUS
  <2>1. \A battery \in BatteryFlags : ~battery
    BY DEF BatteryFlags
  <2>2. \A failed \in Failures : ~failed
    BY DEF Failures
  <2>3. CASE PowerControl
    <3>1. pcPower \notin {"idle", "low", "cut"}
      BY DEF NeverIdle
    <3>2. \/ CheckExternal \/ FirstFlag \/ JustSwitchedToExternal
          \/ EnableBatteryPowered \/ CheckBattery
      BY <2>3, <3>1 DEF PowerControl, CheckLongTimeNoKeyPressed,
         CheckBatteryVoltageLow, DisableBatteryPowered
    <3>3. NeverIdle'
      BY <2>1, <3>2 DEF CheckExternal, FirstFlag, JustSwitchedToExternal,
         EnableBatteryPowered, CheckBattery, NeverIdle
    <3>4. supply'
      BY <2>2, <3>2, Zenon DEF CheckExternal, FirstFlag,
         JustSwitchedToExternal, EnableBatteryPowered, CheckBattery, Written
    <3>5. QED
      BY <3>3, <3>4
  <2>4. CASE UNCHANGED <<pcPower, batteryPoweredStatus, supply>>
    BY <2>4 DEF NeverIdle
  <2>5. QED
    BY <2>3, <2>4, PowerSteps
<1>3. QED
  BY <1>1, <1>2, PTL DEF Spec
==============================================================================

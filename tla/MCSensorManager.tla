--------------------------- MODULE MCSensorManager ---------------------------
(***************************************************************************)
(* Instances of SensorManager for TLC.                                     *)
(***************************************************************************)
EXTENDS SensorManager, TLC

(* One shared memory item and one OBIS code per sensor, or one for all:    *)
(* the three leakage sensors of Sensor.cpp share an item, and each of them *)
(* has the code of a wireless temperature sensor.                          *)
MCItems == Sensor
MCownItem == [s \in Sensor |-> s]
MConeItem == [s \in Sensor |-> 0]

MCCodes == Sensor
MCownCode == [s \in Sensor |-> s]
MConeCode == [s \in Sensor |-> 0]

(* Sensor 0 is a temperature with alarms above 0, sensor 1 a contact with  *)
(* the alarm value 1.                                                      *)
MCReadings == 0 .. 1
MCStatusSensors == {1}
MCalarmValue == [s \in Sensor |-> IF s \in StatusSensors THEN 1 ELSE 0]

(* Either all sensors report the same, and raise an alarm, or the reading  *)
(* tells which sensor reported it.                                         *)
MCsame == [s \in Sensor |-> {1}]
MCapart == [s \in Sensor |-> IF s \in StatusSensors THEN {1} ELSE {0}]
==============================================================================

------------------------------ MODULE LtuManager ------------------------------
(***************************************************************************)
(* The ltu-manager process (src/src/ltu-manager/main.cpp).  The main loop  *)
(* reads the voltages and currents of the line units, stores them in       *)
(* shared memory and drives the lamps of the display board; a second       *)
(* thread drives the fan.  Both send their commands to the board through   *)
(* the same port, pmod2, without a lock, and neither looks at the result:  *)
(* a command may be lost, to a collision or to noise.                      *)
(***************************************************************************)
EXTENDS Integers

CONSTANTS
  LTU_DEVICE_NUM,    \* line units
  LTU_PHASE_NUM,     \* phases of a line unit
  TMU_LED_NUM,       \* lamps of the terminal's own phases (3 in the source)
  HALF_WORD,         \* bits in each half of the status word (16)
  Voltages,          \* voltages that may be read, in volts
  Currents,          \* currents that may be read
  Temperatures       \* what the temperature item of shared memory may hold:
                     \* a register that sensor-manager has read, as an int

Device == 0 .. LTU_DEVICE_NUM - 1
Phase  == 0 .. LTU_PHASE_NUM - 1
Cell   == Device \X Phase

(* The bit of g_LedStatusIndex that belongs to a phase of a line unit; the *)
(* terminal's own phases have the bits below.                              *)
Bit(c) == LTU_PHASE_NUM * c[1] + c[2] + TMU_LED_NUM

TmuLeds == 0 .. TMU_LED_NUM - 1
LtuLeds == {Bit(c) : c \in Cell}
Leds    == TmuLeds \cup LtuLeds

ASSUME LtuAssumption ==
  /\ LTU_DEVICE_NUM \in Nat \ {0} /\ LTU_PHASE_NUM \in Nat \ {0}
  /\ TMU_LED_NUM \in Nat \ {0} /\ HALF_WORD \in Nat \ {0}
  /\ \A b \in Leds : b < 2 * HALF_WORD
  /\ Voltages \subseteq Nat /\ 0 \in Voltages
  /\ Currents \subseteq Int /\ 0 \in Currents
  /\ Temperatures \subseteq Int

(* What a register of a sensor may hold.                                   *)
Registers == 0 .. 65535

ASSUME TemperatureAssumption == Temperatures \subseteq Registers

VARIABLES
  pc,                 \* of the threads "main" and "fan"
  cursor,             \* the unit, or the terminal's phase, main is at
  kind,               \* which of the two tables main is at
  value,              \* g_LTU_All_Volt and g_LTU_All_Curr
  g_LedStatusIndex,   \* the lamps that should be lit
  oldLedStatusIndex,  \* the local of ControlLTULEDs, {} outside of it
  shm,                \* the items of SHM_TERM_DATA that main writes
  board,              \* the outputs of the display board
  panel,              \* the lamps of the display board
  temperature,        \* the item of SHM_TERM_DATA with the temperature
  unstored,           \* auxiliary: cells whose voltage SetItem dropped in this
                      \* round of the loop
  lost                \* auxiliary: of panel and alarm LED, those whose last
                      \* command was lost

place   == <<cursor, kind>>
status  == <<g_LedStatusIndex, oldLedStatusIndex>>
memory  == <<shm, unstored>>
display == <<board, panel, lost>>
vars    == <<pc, place, value, status, memory, display, temperature>>

Port == {"alarm", "running", "fan", "output"}   \* 1 to 4 in the source

SwitchPc == {"enableFan", "enableOutput", "disableFan", "disableOutput"}
MainPc   == SwitchPc \cup {"running", "alarmOff", "panelOff", "read", "store",
                           "tmu", "ltu", "compare", "panel", "alarm"}
FanPc    == SwitchPc \cup {"none", "temperature", "sleep"}

Tables == [volt : [Cell -> Voltages], curr : [Cell -> Currents]]

TypeOK ==
  /\ pc \in [main : MainPc, fan : FanPc]
  /\ cursor \in Device \cup TmuLeds /\ kind \in {"volt", "curr"}
  /\ value \in Tables /\ shm \in Tables
  /\ g_LedStatusIndex \subseteq Leds /\ oldLedStatusIndex \subseteq Leds
  /\ board \in [Port -> BOOLEAN] /\ panel \subseteq Leds
  /\ temperature \in Temperatures
  /\ unstored \subseteq Cell
  /\ lost \subseteq {"panel", "alarm"}

------------------------------------------------------------------------------
(* Helpers.                                                                *)

IsVoltageNormal(v) == 110 <= v /\ v <= 300

(* sensor-manager writes this item as an int; ltu-manager copies its bytes *)
(* into a float.  The exponent of the float is what the int has above 23   *)
(* bits, so every register reads as a number below 10^-38, which the       *)
(* comparisons of ControlFans cannot tell from 0.  So does an item that is *)
(* not there.                                                              *)
AsFloat == [int \in Registers |-> 0]

GetTemperatureValue == AsFloat[temperature]

(* The frame of ControlLEDGroup carries the status word in two halves of   *)
(* two bytes each.                                                         *)
HighHalfUnshifted(s) == {b \in s : HALF_WORD <= b}   \* variant: >> left out
HighHalf(s) == {b - HALF_WORD : b \in {d \in s : HALF_WORD <= d /\ d < 2 * HALF_WORD}}
LowHalf(s)  == {b \in s : b < HALF_WORD}

(* The display board puts them together again.                             *)
Shown(index, low) == {b + HALF_WORD : b \in index} \cup low

Goto(t, next) == pc' = [pc EXCEPT ![t] = next]

(* Auxiliary: what becomes of lost when a command is sent.                 *)
LostAfter(command, arrives) ==
  IF arrives THEN lost \ {command} ELSE lost \cup {command}

SendRemoteControlCommand(port, on) ==
  /\ \E arrives \in BOOLEAN :
       /\ board' = IF arrives THEN [board EXCEPT ![port] = on] ELSE board
       /\ lost' = IF port = "alarm" THEN LostAfter("alarm", arrives) ELSE lost
  /\ UNCHANGED <<value, memory, panel, temperature>>

ControlLEDGroup(s) ==
  /\ \E arrives \in BOOLEAN :
       /\ panel' = IF arrives THEN Shown(HighHalf(s), LowHalf(s)) ELSE panel
       /\ lost' = LostAfter("panel", arrives)
  /\ UNCHANGED <<value, memory, board, temperature>>

------------------------------------------------------------------------------
(* The first commands of main depend on its argument.  The board and       *)
(* shared memory hold what an earlier run left.                            *)
Init ==
  /\ pc \in [main : {"enableFan", "disableFan", "running"}, fan : {"none"}]
  /\ cursor = 0 /\ kind = "volt"
  /\ value = [volt |-> [c \in Cell |-> 0], curr |-> [c \in Cell |-> 0]]
  /\ g_LedStatusIndex = {} /\ oldLedStatusIndex = {}
  /\ shm \in Tables
  /\ board \in [Port -> BOOLEAN] /\ panel \in SUBSET Leds
  /\ temperature \in Temperatures
  /\ unstored = {} /\ lost = {}

(* Both threads switch the fan and the alarm output together; main goes on *)
(* to its LEDs, the fan thread to sleep.                                   *)
EnableFan(t) ==
  /\ pc[t] = "enableFan" /\ Goto(t, "enableOutput")
  /\ SendRemoteControlCommand("fan", TRUE)
  /\ UNCHANGED <<place, status>>

EnableAlarmOutput(t) ==
  /\ pc[t] = "enableOutput"
  /\ Goto(t, IF t = "main" THEN "running" ELSE "sleep")
  /\ SendRemoteControlCommand("output", TRUE)
  /\ UNCHANGED <<place, status>>

DisableFan(t) ==
  /\ pc[t] = "disableFan" /\ Goto(t, "disableOutput")
  /\ SendRemoteControlCommand("fan", FALSE)
  /\ UNCHANGED <<place, status>>

DisableAlarmOutput(t) ==
  /\ pc[t] = "disableOutput"
  /\ Goto(t, IF t = "main" THEN "running" ELSE "sleep")
  /\ SendRemoteControlCommand("output", FALSE)
  /\ UNCHANGED <<place, status>>

EnableRunningLED ==
  /\ pc.main = "running" /\ Goto("main", "alarmOff")
  /\ SendRemoteControlCommand("running", TRUE)
  /\ UNCHANGED <<place, status>>

DisableAlarmLED ==
  /\ pc.main = "alarmOff" /\ Goto("main", "panelOff")
  /\ SendRemoteControlCommand("alarm", FALSE)
  /\ UNCHANGED <<place, status>>

(* The last command of the start; then the fan thread is created.          *)
DisableAllLEDs ==
  /\ pc.main = "panelOff"
  /\ pc' = [main |-> "read", fan |-> "temperature"]
  /\ ControlLEDGroup({})
  /\ UNCHANGED <<place, status>>

------------------------------------------------------------------------------
(* The main loop: ReadAndProcessLTUData for the voltages, then for the     *)
(* currents of each unit, then ControlLTULEDs.                             *)

ToTheControl ==
  /\ Goto("main", "tmu")
  /\ cursor' = 0 /\ kind' = "volt"
  /\ oldLedStatusIndex' = g_LedStatusIndex

NextItem ==
  \/ /\ kind = "volt" /\ kind' = "curr"
     /\ Goto("main", "read")
     /\ UNCHANGED <<cursor, oldLedStatusIndex>>
  \/ /\ kind = "curr" /\ cursor + 1 \in Device
     /\ kind' = "volt" /\ cursor' = cursor + 1
     /\ Goto("main", "read")
     /\ UNCHANGED oldLedStatusIndex
  \/ kind = "curr" /\ cursor + 1 \notin Device /\ ToTheControl

(* The table of the current kind after a reading of the current unit.      *)
Replaced(table, new) ==
  [c \in Cell |-> IF c[1] = cursor THEN new[c[2]] ELSE table[c]]

(* A reply was parsed.  After an exchange that failed the parser is given  *)
(* a buffer that was never written, since recvLen is 0 and not negative:   *)
(* it may find any reading in it.                                          *)
ReadLTUAllData ==
  /\ pc.main = "read" /\ Goto("main", "store")
  /\ \/ /\ kind = "volt"
        /\ \E new \in [Phase -> Voltages] :
             value' = [value EXCEPT !.volt = Replaced(@, new)]
     \/ /\ kind = "curr"
        /\ \E new \in [Phase -> Currents] :
             value' = [value EXCEPT !.curr = Replaced(@, new)]
  /\ UNCHANGED <<place, status, memory, display, temperature>>

(* The parser refused what it was given: the old values stay, and are      *)
(* stored again.                                                           *)
ReadFails ==
  /\ pc.main = "read" /\ Goto("main", "store")
  /\ UNCHANGED <<place, value, status, memory, display, temperature>>

(* One SetItem per phase, whose result is not looked at.                   *)
Stored(table, new, dropped) ==
  [c \in Cell |-> IF c[1] = cursor /\ c[2] \notin dropped THEN new[c] ELSE table[c]]

SetAllSharedMemoryData ==
  /\ pc.main = "store"
  /\ \E dropped \in SUBSET Phase :
       \/ /\ kind = "volt"
          /\ shm' = [shm EXCEPT !.volt = Stored(@, value.volt, dropped)]
          /\ unstored' = {c \in unstored : c[1] # cursor} \cup ({cursor} \X dropped)
       \/ /\ kind = "curr"
          /\ shm' = [shm EXCEPT !.curr = Stored(@, value.curr, dropped)]
          /\ UNCHANGED unstored
  /\ NextItem
  /\ UNCHANGED <<value, g_LedStatusIndex, display, temperature>>

(* One phase of UpdateTMUVoltageLEDs: the voltage is whatever the shared   *)
(* memory of the meter holds, 0 if it cannot be read.                      *)
UpdateTMUVoltageLED ==
  /\ pc.main = "tmu"
  /\ \E volt \in Voltages :
       g_LedStatusIndex' = IF IsVoltageNormal(volt)
                           THEN g_LedStatusIndex \ {cursor}
                           ELSE g_LedStatusIndex \cup {cursor}
  /\ IF cursor + 1 \in TmuLeds
     THEN cursor' = cursor + 1 /\ UNCHANGED pc
     ELSE cursor' = 0 /\ Goto("main", "ltu")
  /\ UNCHANGED <<kind, oldLedStatusIndex, value, memory, display, temperature>>

(* Variant: a lamp is lit, and not switched off again.                     *)
LedsOnlyLit ==
  /\ pc.main = "ltu" /\ Goto("main", "compare")
  /\ g_LedStatusIndex' = g_LedStatusIndex
       \cup {Bit(c) : c \in {d \in Cell : ~IsVoltageNormal(value.volt[d])}}
  /\ UNCHANGED <<place, oldLedStatusIndex, value, memory, display, temperature>>

UpdateLTUVoltageLEDs ==
  /\ pc.main = "ltu" /\ Goto("main", "compare")
  /\ g_LedStatusIndex' = (g_LedStatusIndex \ LtuLeds)
       \cup {Bit(c) : c \in {d \in Cell : ~IsVoltageNormal(value.volt[d])}}
  /\ UNCHANGED <<place, oldLedStatusIndex, value, memory, display, temperature>>

(* Variant: a change only counts when it lights a lamp.                    *)
CompareGrown ==
  /\ pc.main = "compare"
  /\ Goto("main", IF g_LedStatusIndex \subseteq oldLedStatusIndex THEN "read"
                  ELSE "panel")
  /\ oldLedStatusIndex' = {} /\ unstored' = {}
  /\ UNCHANGED <<place, g_LedStatusIndex, value, shm, display, temperature>>

CompareStatus ==
  /\ pc.main = "compare"
  /\ Goto("main", IF oldLedStatusIndex = g_LedStatusIndex THEN "read" ELSE "panel")
  /\ oldLedStatusIndex' = {} /\ unstored' = {}
  /\ UNCHANGED <<place, g_LedStatusIndex, value, shm, display, temperature>>

ShowStatus ==
  /\ pc.main = "panel" /\ Goto("main", "alarm")
  /\ ControlLEDGroup(g_LedStatusIndex)
  /\ UNCHANGED <<place, status>>

(* Variant: only enabled here, disabled at the start.                      *)
OnlyEnableAlarmLED ==
  /\ pc.main = "alarm" /\ Goto("main", "read")
  /\ SendRemoteControlCommand("alarm", board["alarm"] \/ g_LedStatusIndex # {})
  /\ UNCHANGED <<place, status>>

ControlAlarmLED ==
  /\ pc.main = "alarm" /\ Goto("main", "read")
  /\ SendRemoteControlCommand("alarm", g_LedStatusIndex # {})
  /\ UNCHANGED <<place, status>>

------------------------------------------------------------------------------
(* The fan thread.                                                         *)

ControlFans ==
  /\ pc.fan = "temperature"
  /\ Goto("fan", IF GetTemperatureValue > 60 THEN "enableFan"
                 ELSE IF GetTemperatureValue < 50 THEN "disableFan"
                 ELSE "sleep")
  /\ UNCHANGED <<place, value, status, memory, display, temperature>>

(* Variant: the thread ends after a pass.                                  *)
NoNextPass ==
  /\ pc.fan = "sleep" /\ Goto("fan", "none")
  /\ UNCHANGED <<place, value, status, memory, display, temperature>>

Sleep ==
  /\ pc.fan = "sleep" /\ Goto("fan", "temperature")
  /\ UNCHANGED <<place, value, status, memory, display, temperature>>

------------------------------------------------------------------------------
(* The process is killed and started again.                                *)
Restart ==
  /\ pc' \in [main : {"enableFan", "disableFan", "running"}, fan : {"none"}]
  /\ cursor' = 0 /\ kind' = "volt"
  /\ value' = [volt |-> [c \in Cell |-> 0], curr |-> [c \in Cell |-> 0]]
  /\ g_LedStatusIndex' = {} /\ oldLedStatusIndex' = {}
  /\ unstored' = {}
  /\ UNCHANGED <<shm, display, temperature>>

(* sensor-manager.                                                         *)
TemperatureStored ==
  /\ temperature' \in Temperatures \ {temperature}
  /\ UNCHANGED <<pc, place, value, status, memory, display>>

Switch(t) ==
  EnableFan(t) \/ EnableAlarmOutput(t) \/ DisableFan(t) \/ DisableAlarmOutput(t)

MainLoop ==
  \/ Switch("main")
  \/ EnableRunningLED \/ DisableAlarmLED \/ DisableAllLEDs
  \/ ReadLTUAllData \/ ReadFails \/ SetAllSharedMemoryData
  \/ UpdateTMUVoltageLED \/ UpdateLTUVoltageLEDs
  \/ CompareStatus \/ ShowStatus \/ ControlAlarmLED

FansControlThread == Switch("fan") \/ ControlFans \/ Sleep

Next == MainLoop \/ FansControlThread \/ Restart \/ TemperatureStored

Spec == Init /\ [][Next]_vars

(* Neither thread waits for the other, and an exchange ends at the latest  *)
(* with the timeout of the port.                                           *)
FairSpec == Spec /\ WF_vars(MainLoop) /\ WF_vars(FansControlThread)

------------------------------------------------------------------------------
(* Properties.                                                             *)

(* When a round of the loop compares the status, every lamp of a line unit *)
(* says of its phase what other programs find in shared memory, unless     *)
(* the item could not be set: no lamp of another phase, another unit or    *)
(* the terminal gets in its way.                                           *)
LampsTellWhatIsStored ==
  pc.main = "compare" =>
    \A c \in Cell \ unstored :
      Bit(c) \in g_LedStatusIndex <=> ~IsVoltageNormal(shm.volt[c])

(* The promise to the viewer.  The status counts as announced when the     *)
(* loop has compared it: while the lamps are recomputed bit by bit it is   *)
(* still the old one.                                                      *)
Announced ==
  IF pc.main \in {"tmu", "ltu", "compare"} THEN oldLedStatusIndex
  ELSE g_LedStatusIndex

Due ==
  CASE pc.main \in SwitchPc \cup {"running", "alarmOff", "panel"} -> {"panel", "alarm"}
    [] pc.main = "panelOff" -> {"panel"}
    [] pc.main = "alarm" -> {"alarm"}
    [] OTHER -> {}

Display == INSTANCE StatusPanel WITH
  status <- Announced, alarm <- board["alarm"], due <- Due

ShowsAnnounced == Display!Spec

(* However many commands were lost before, and across restarts: the panel  *)
(* and the alarm LED are wrong only if the last command to each was lost.  *)
LastCommandDecides == Display!LastCommandDecides

(* From some time on the commands of the fan thread arrive and the process *)
(* is not killed.                                                          *)
FanCommandsArrive ==
  /\ ~Restart
  /\ pc.fan \in {"enableFan", "disableFan"} /\ pc'.fan # pc.fan
       => board'["fan"] = (pc.fan = "enableFan")
  /\ pc.fan \in {"enableOutput", "disableOutput"} /\ pc'.fan # pc.fan
       => board'["output"] = (pc.fan = "enableOutput")

(* The fan and the alarm output follow the thread's reading, whatever was  *)
(* lost before and whatever main's argument has switched on: the command   *)
(* is repeated on every pass.  What the thread reads is below 50 at every  *)
(* temperature (GetTemperatureValue), so they end up off and stay off.     *)
FanFollowsReading ==
  <>[][FanCommandsArrive]_vars => <>[](~board["fan"] /\ ~board["output"])

(* From some time on every panel command arrives and the process is not    *)
(* killed.                                                                 *)
PanelArrives ==
  /\ ~Restart
  /\ pc.main \in {"panel", "panelOff"} /\ pc'.main # pc.main
       => panel' = g_LedStatusIndex

(* The comment of main.cpp:206 on the calls of ControlLTULEDs: "check and  *)
(* update the state of all LEDs".  Then the lamps show the status.         *)
LampsUpdated ==
  <>[][PanelArrives]_vars => []<>(panel = g_LedStatusIndex)
==============================================================================

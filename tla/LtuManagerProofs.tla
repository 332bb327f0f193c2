-------------------------- MODULE LtuManagerProofs --------------------------
(***************************************************************************)
(* Theorems about LtuManager, for any number of units and phases.          *)
(***************************************************************************)
EXTENDS LtuManager, TLAPS

(* The two halves of the frame of ControlLEDGroup lose no lamp.            *)
LEMMA FrameKeepsLamps ==
  ASSUME NEW s, s \subseteq Leds
  PROVE  Shown(HighHalf(s), LowHalf(s)) = s
<1>1. \A b \in Leds : b \in Nat
  BY LtuAssumption DEF Leds, TmuLeds, LtuLeds, Bit, Cell, Device, Phase
<1>2. \A b \in s : b \in Nat /\ b < 2 * HALF_WORD
  BY <1>1, LtuAssumption
<1>3. HALF_WORD \in Nat
  BY LtuAssumption
<1>4. ASSUME NEW b \in Shown(HighHalf(s), LowHalf(s)) PROVE b \in s
  BY <1>2, <1>3 DEF Shown, HighHalf, LowHalf
<1>5. ASSUME NEW b \in s PROVE b \in Shown(HighHalf(s), LowHalf(s))
  <2>1. CASE b < HALF_WORD
    BY <2>1 DEF Shown, LowHalf
  <2>2. CASE HALF_WORD <= b
    <3>1. b - HALF_WORD \in HighHalf(s)
      BY <1>2, <2>2 DEF HighHalf
    <3>2. (b - HALF_WORD) + HALF_WORD = b
      BY <1>2, <1>3
    <3> QED BY <3>1, <3>2 DEF Shown
  <2> QED BY <1>2, <1>3, <2>1, <2>2
<1> QED BY <1>4, <1>5

(***************************************************************************)
(* Types.  SetItem is given cells that exist because main only leaves the  *)
(* units for the terminal's phases at the end of a round.                  *)
(***************************************************************************)

Place == cursor \in IF pc.main = "tmu" THEN TmuLeds ELSE Device
TypeInv == TypeOK /\ Place

(* A command through SendRemoteControlCommand or ControlLEDGroup changes   *)
(* the outputs, the lamps and the lost commands, within their types.       *)
LEMMA SwitchTypes ==
  ASSUME NEW port \in Port, NEW on \in BOOLEAN, TypeOK,
         SendRemoteControlCommand(port, on)
  PROVE  /\ board' \in [Port -> BOOLEAN] /\ panel' \subseteq Leds
         /\ lost' \subseteq {"panel", "alarm"}
         /\ value' \in Tables /\ shm' \in Tables /\ unstored' \subseteq Cell
         /\ temperature' \in Temperatures
<1> USE DEF TypeOK, SendRemoteControlCommand, memory
<1>1. PICK arrives \in BOOLEAN :
        /\ board' = IF arrives THEN [board EXCEPT ![port] = on] ELSE board
        /\ lost' = IF port = "alarm" THEN LostAfter("alarm", arrives) ELSE lost
  OBVIOUS
<1>2. board' \in [Port -> BOOLEAN]
  BY <1>1
<1>3. lost' \subseteq {"panel", "alarm"}
  BY <1>1 DEF LostAfter
<1> QED BY <1>2, <1>3

LEMMA PanelTypes ==
  ASSUME NEW s, s \subseteq Leds, TypeOK, ControlLEDGroup(s)
  PROVE  /\ board' \in [Port -> BOOLEAN] /\ panel' \subseteq Leds
         /\ lost' \subseteq {"panel", "alarm"}
         /\ value' \in Tables /\ shm' \in Tables /\ unstored' \subseteq Cell
         /\ temperature' \in Temperatures
<1> USE DEF TypeOK, ControlLEDGroup, memory
<1>1. PICK arrives \in BOOLEAN :
        /\ panel' = IF arrives THEN Shown(HighHalf(s), LowHalf(s)) ELSE panel
        /\ lost' = LostAfter("panel", arrives)
  OBVIOUS
<1>2. panel' \subseteq Leds
  BY <1>1, FrameKeepsLamps
<1>3. lost' \subseteq {"panel", "alarm"}
  BY <1>1 DEF LostAfter
<1> QED BY <1>2, <1>3

LEMMA GotoMain ==
  ASSUME TypeOK, NEW next \in MainPc, Goto("main", next)
  PROVE  /\ pc' \in [main : MainPc, fan : FanPc]
         /\ pc'.main = next /\ pc'.fan = pc.fan
BY DEF TypeOK, Goto

LEMMA GotoFan ==
  ASSUME TypeOK, NEW next \in FanPc, Goto("fan", next)
  PROVE  /\ pc' \in [main : MainPc, fan : FanPc]
         /\ pc'.fan = next /\ pc'.main = pc.main
BY DEF TypeOK, Goto

LEMMA InitType == Init => TypeInv
<1> SUFFICES ASSUME Init PROVE TypeInv
  OBVIOUS
<1> USE DEF Init
<1>1. pc \in [main : MainPc, fan : FanPc]
  BY DEF MainPc, FanPc, SwitchPc
<1>2. 0 \in Device
  BY LtuAssumption DEF Device
<1>3. value \in Tables
  BY LtuAssumption DEF Tables
<1>4. pc.main # "tmu"
  BY DEF Init
<1> QED BY <1>1, <1>2, <1>3, <1>4 DEF TypeInv, TypeOK, Place

LEMMA SwitchStepTypes ==
  ASSUME TypeInv, NEW t \in {"main", "fan"}, Switch(t)
  PROVE  TypeInv'
<1> DEFINE Next4 == SwitchPc \cup {IF t = "main" THEN "running" ELSE "sleep"}
<1>1. PICK port \in Port, on \in BOOLEAN, next \in Next4 :
        /\ pc[t] \in SwitchPc
        /\ Goto(t, next) /\ SendRemoteControlCommand(port, on)
        /\ UNCHANGED <<place, status>>
  BY DEF Switch, EnableFan, EnableAlarmOutput, DisableFan, DisableAlarmOutput,
     Port, SwitchPc
<1>2. pc' \in [main : MainPc, fan : FanPc] /\ (pc'.main = "tmu" <=> pc.main = "tmu")
  <2>1. CASE t = "main"
    BY <1>1, <2>1, GotoMain DEF MainPc, SwitchPc, TypeInv
  <2>2. CASE t = "fan"
    BY <1>1, <2>2, GotoFan DEF FanPc, TypeInv
  <2> QED BY <2>1, <2>2
<1>3. TypeOK
  BY DEF TypeInv
<1> QED BY <1>1, <1>2, <1>3, SwitchTypes DEF TypeInv, TypeOK, Place, place, status

(* The table of the current kind changes in one unit.                      *)
LEMMA ReplacedType ==
  ASSUME NEW V, NEW table \in [Cell -> V], NEW new \in [Phase -> V]
  PROVE  Replaced(table, new) \in [Cell -> V]
BY DEF Replaced, Cell

LEMMA StoredType ==
  ASSUME NEW V, NEW table \in [Cell -> V], NEW new \in [Cell -> V], NEW dropped
  PROVE  Stored(table, new, dropped) \in [Cell -> V]
BY DEF Stored

LEMMA ReadTypes ==
  ASSUME TypeOK, ReadLTUAllData
  PROVE  value' \in Tables
<1>1. value.volt \in [Cell -> Voltages] /\ value.curr \in [Cell -> Currents]
  BY DEF TypeOK, Tables
<1>2. ASSUME NEW new \in [Phase -> Voltages],
             value' = [value EXCEPT !.volt = Replaced(@, new)]
      PROVE  value' \in Tables
  <2>1. Replaced(value.volt, new) \in [Cell -> Voltages]
    BY <1>1, ReplacedType
  <2> QED BY <1>2, <2>1 DEF TypeOK, Tables
<1>3. ASSUME NEW new \in [Phase -> Currents],
             value' = [value EXCEPT !.curr = Replaced(@, new)]
      PROVE  value' \in Tables
  <2>1. Replaced(value.curr, new) \in [Cell -> Currents]
    BY <1>1, ReplacedType
  <2> QED BY <1>3, <2>1 DEF TypeOK, Tables
<1> QED BY <1>2, <1>3 DEF ReadLTUAllData

LEMMA NextItemTypes ==
  ASSUME TypeOK, NextItem
  PROVE  /\ pc' \in [main : MainPc, fan : FanPc]
         /\ pc'.fan = pc.fan
         /\ cursor' \in Device \cup TmuLeds /\ kind' \in {"volt", "curr"}
         /\ cursor \in Device => Place'
         /\ oldLedStatusIndex' \subseteq Leds
<1> USE DEF Place
<1>1. CASE kind = "volt" /\ kind' = "curr" /\ Goto("main", "read")
           /\ UNCHANGED <<cursor, oldLedStatusIndex>>
  BY <1>1, GotoMain DEF TypeOK, MainPc
<1>2. CASE kind = "curr" /\ cursor + 1 \in Device /\ kind' = "volt"
           /\ cursor' = cursor + 1 /\ Goto("main", "read")
           /\ UNCHANGED oldLedStatusIndex
  BY <1>2, GotoMain DEF TypeOK, MainPc
<1>3. CASE ToTheControl
  <2>1. 0 \in TmuLeds
    BY LtuAssumption DEF TmuLeds
  <2> QED BY <1>3, <2>1, GotoMain DEF TypeOK, MainPc, ToTheControl
<1> QED BY <1>1, <1>2, <1>3 DEF NextItem

LEMMA StoreTypes ==
  ASSUME TypeInv, SetAllSharedMemoryData
  PROVE  shm' \in Tables /\ unstored' \subseteq Cell
<1> USE DEF TypeInv, TypeOK
<1>0. cursor \in Device
  BY DEF SetAllSharedMemoryData, Place
<1>1. PICK dropped \in SUBSET Phase :
       \/ /\ kind = "volt"
          /\ shm' = [shm EXCEPT !.volt = Stored(@, value.volt, dropped)]
          /\ unstored' = {c \in unstored : c[1] # cursor} \cup ({cursor} \X dropped)
       \/ /\ kind = "curr"
          /\ shm' = [shm EXCEPT !.curr = Stored(@, value.curr, dropped)]
          /\ UNCHANGED unstored
  BY DEF SetAllSharedMemoryData
<1>2. /\ Stored(shm.volt, value.volt, dropped) \in [Cell -> Voltages]
      /\ Stored(shm.curr, value.curr, dropped) \in [Cell -> Currents]
  BY StoredType DEF Tables
<1>3. CASE kind = "volt"
  BY <1>0, <1>1, <1>2, <1>3 DEF Tables, Cell
<1>4. CASE kind = "curr"
  BY <1>1, <1>2, <1>4 DEF Tables
<1> QED BY <1>3, <1>4

LEMMA StartTypes ==
  ASSUME TypeInv, EnableRunningLED \/ DisableAlarmLED \/ DisableAllLEDs
  PROVE  TypeInv'
<1> USE DEF TypeInv, place, status
<1>1. CASE EnableRunningLED
  <2>1. Goto("main", "alarmOff") /\ "alarmOff" \in MainPc
    BY <1>1 DEF EnableRunningLED, MainPc
  <2> QED BY <1>1, <2>1, GotoMain, SwitchTypes
          DEF EnableRunningLED, TypeOK, Place, Port
<1>2. CASE DisableAlarmLED
  <2>1. Goto("main", "panelOff") /\ "panelOff" \in MainPc
    BY <1>2 DEF DisableAlarmLED, MainPc
  <2> QED BY <1>2, <2>1, GotoMain, SwitchTypes
          DEF DisableAlarmLED, TypeOK, Place, Port
<1>3. CASE DisableAllLEDs
  <2>1. pc' \in [main : MainPc, fan : FanPc]
    BY <1>3 DEF DisableAllLEDs, MainPc, FanPc
  <2> QED BY <1>3, <2>1, PanelTypes DEF DisableAllLEDs, TypeOK, Place
<1> QED BY <1>1, <1>2, <1>3

LEMMA DataTypes ==
  ASSUME TypeInv, ReadLTUAllData \/ ReadFails \/ SetAllSharedMemoryData
  PROVE  TypeInv'
<1> USE DEF TypeInv, place, status, memory, display
<1>1. CASE ReadLTUAllData
  <2>1. Goto("main", "store") /\ "store" \in MainPc
    BY <1>1 DEF ReadLTUAllData, MainPc
  <2> QED BY <1>1, <2>1, GotoMain, ReadTypes DEF ReadLTUAllData, TypeOK, Place
<1>2. CASE ReadFails
  <2>1. Goto("main", "store") /\ "store" \in MainPc
    BY <1>2 DEF ReadFails, MainPc
  <2> QED BY <1>2, <2>1, GotoMain DEF ReadFails, TypeOK, Place
<1>3. CASE SetAllSharedMemoryData
  <2>1. cursor \in Device /\ NextItem
    BY <1>3 DEF SetAllSharedMemoryData, Place
  <2>2. shm' \in Tables /\ unstored' \subseteq Cell
    BY <1>3, StoreTypes
  <2>3. /\ pc' \in [main : MainPc, fan : FanPc] /\ Place'
        /\ cursor' \in Device \cup TmuLeds /\ kind' \in {"volt", "curr"}
        /\ oldLedStatusIndex' \subseteq Leds
    BY <2>1, NextItemTypes
  <2> QED BY <1>3, <2>2, <2>3 DEF SetAllSharedMemoryData, TypeOK
<1> QED BY <1>1, <1>2, <1>3

LEMMA ControlTypes ==
  ASSUME TypeInv,
         \/ UpdateTMUVoltageLED \/ UpdateLTUVoltageLEDs
         \/ CompareStatus \/ ShowStatus \/ ControlAlarmLED
  PROVE  TypeInv'
<1> USE DEF TypeInv, place, status, memory, display
<1>0. 0 \in Device
  BY LtuAssumption DEF Device
<1>1. CASE UpdateTMUVoltageLED
  <2> USE DEF UpdateTMUVoltageLED, Place
  <2>1. g_LedStatusIndex' \subseteq Leds
    BY <1>1 DEF TypeOK, Leds
  <2>2. CASE cursor + 1 \in TmuLeds
    BY <1>1, <2>1, <2>2 DEF TypeOK
  <2>3. CASE cursor + 1 \notin TmuLeds
    <3>1. Goto("main", "ltu") /\ cursor' = 0 /\ "ltu" \in MainPc
      BY <1>1, <2>3 DEF MainPc
    <3> QED BY <1>0, <1>1, <2>1, <3>1, GotoMain DEF TypeOK
  <2> QED BY <2>2, <2>3
<1>2. CASE UpdateLTUVoltageLEDs
  <2>1. Goto("main", "compare") /\ "compare" \in MainPc
    BY <1>2 DEF UpdateLTUVoltageLEDs, MainPc
  <2>2. g_LedStatusIndex' \subseteq Leds
    BY <1>2 DEF UpdateLTUVoltageLEDs, TypeOK, Leds, LtuLeds
  <2> QED BY <1>2, <2>1, <2>2, GotoMain DEF UpdateLTUVoltageLEDs, TypeOK, Place
<1>3. CASE CompareStatus
  <2>1. PICK next \in {"read", "panel"} : Goto("main", next)
    BY <1>3 DEF CompareStatus
  <2>2. next \in MainPc /\ next # "tmu"
    BY DEF MainPc
  <2> QED BY <1>3, <2>1, <2>2, GotoMain DEF CompareStatus, TypeOK, Place
<1>4. CASE ShowStatus
  <2>1. Goto("main", "alarm") /\ "alarm" \in MainPc
    BY <1>4 DEF ShowStatus, MainPc
  <2> QED BY <1>4, <2>1, GotoMain, PanelTypes DEF ShowStatus, TypeOK, Place
<1>5. CASE ControlAlarmLED
  <2>1. Goto("main", "read") /\ "read" \in MainPc
    BY <1>5 DEF ControlAlarmLED, MainPc
  <2>2. (g_LedStatusIndex # {}) \in BOOLEAN
    OBVIOUS
  <2> QED BY <1>5, <2>1, <2>2, GotoMain, SwitchTypes
          DEF ControlAlarmLED, TypeOK, Place, Port
<1> QED BY <1>1, <1>2, <1>3, <1>4, <1>5

LEMMA OtherTypes ==
  ASSUME TypeInv, ControlFans \/ Sleep \/ Restart \/ TemperatureStored
  PROVE  TypeInv'
<1> USE DEF TypeInv, place, status, memory, display
<1>1. CASE ControlFans
  <2>1. PICK next \in {"enableFan", "disableFan", "sleep"} : Goto("fan", next)
    BY <1>1 DEF ControlFans
  <2>2. next \in FanPc
    BY DEF FanPc, SwitchPc
  <2> QED BY <1>1, <2>1, <2>2, GotoFan DEF ControlFans, TypeOK, Place
<1>2. CASE Sleep
  <2>1. Goto("fan", "temperature") /\ "temperature" \in FanPc
    BY <1>2 DEF Sleep, FanPc
  <2> QED BY <1>2, <2>1, GotoFan DEF Sleep, TypeOK, Place
<1>3. CASE Restart
  <2>1. pc' \in [main : MainPc, fan : FanPc] /\ pc'.main # "tmu"
    BY <1>3 DEF Restart, MainPc, FanPc, SwitchPc
  <2>2. 0 \in Device
    BY LtuAssumption DEF Device
  <2>3. value' \in Tables
    BY <1>3, LtuAssumption DEF Restart, Tables
  <2> QED BY <1>3, <2>1, <2>2, <2>3 DEF Restart, TypeOK, Place
<1>4. CASE TemperatureStored
  BY <1>4 DEF TemperatureStored, TypeOK, Place
<1> QED BY <1>1, <1>2, <1>3, <1>4

LEMMA StepType == TypeInv /\ [Next]_vars => TypeInv'
<1> SUFFICES ASSUME TypeInv, [Next]_vars PROVE TypeInv'
  OBVIOUS
<1>1. CASE UNCHANGED vars
  BY <1>1 DEF TypeInv, TypeOK, Place, vars, place, status, memory, display
<1> QED BY <1>1, SwitchStepTypes, StartTypes, DataTypes, ControlTypes, OtherTypes
        DEF Next, MainLoop, FansControlThread

LEMMA TypeInvariant == Spec => []TypeInv
  BY InitType, StepType, PTL DEF Spec

(* Every variable of ltu-manager keeps its type: commands only name lamps  *)
(* that exist, and items are set for units that exist.                     *)
THEOREM TypeCorrect == Spec => []TypeOK
<1>1. TypeInv => TypeOK
  BY DEF TypeInv
<1> QED BY <1>1, TypeInvariant, PTL

(***************************************************************************)
(* The lamps.  Two phases never share a bit, and a round of the loop has   *)
(* stored the voltages of the units it has passed.                         *)
(***************************************************************************)

LEMMA RowsApart ==
  ASSUME NEW n \in Nat, NEW i \in Nat, NEW j \in Nat, i < j
  PROVE  n * i + n <= n * j
<1> DEFINE k == j - (i + 1)
<1>1. k \in Nat /\ j = i + 1 + k
  OBVIOUS
<1>2. n * j = n * i + n + n * k
  BY <1>1
<1>3. n * k >= 0
  BY <1>1
<1>4. n * i \in Int /\ n * k \in Int /\ n * j \in Int
  BY <1>1
<1> QED BY <1>2, <1>3, <1>4

LEMMA BitInjective ==
  ASSUME NEW c \in Cell, NEW d \in Cell, Bit(c) = Bit(d)
  PROVE  c = d
<1> DEFINE n == LTU_PHASE_NUM
<1>1. /\ n \in Nat /\ TMU_LED_NUM \in Nat
      /\ c[1] \in Nat /\ d[1] \in Nat
      /\ c[2] \in Nat /\ c[2] < n /\ d[2] \in Nat /\ d[2] < n
  BY LtuAssumption DEF Cell, Device, Phase
<1>2. n * c[1] \in Int /\ n * d[1] \in Int
  BY <1>1
<1>3. n * c[1] + c[2] = n * d[1] + d[2]
  <2>1. n * c[1] + c[2] + TMU_LED_NUM = n * d[1] + d[2] + TMU_LED_NUM
    BY DEF Bit
  <2>2. \A x, y \in Int, t \in Nat : x + t = y + t => x = y
    OBVIOUS
  <2>3. n * c[1] + c[2] \in Int /\ n * d[1] + d[2] \in Int
    BY <1>1, <1>2
  <2> QED BY <1>1, <2>1, <2>2, <2>3
<1>4. ~(c[1] < d[1])
  <2> SUFFICES ASSUME c[1] < d[1] PROVE FALSE
    OBVIOUS
  <2>1. n * c[1] + n <= n * d[1]
    BY <1>1, RowsApart
  <2> HIDE DEF n
  <2> QED BY <1>1, <1>2, <1>3, <2>1
<1>5. ~(d[1] < c[1])
  <2> SUFFICES ASSUME d[1] < c[1] PROVE FALSE
    OBVIOUS
  <2>1. n * d[1] + n <= n * c[1]
    BY <1>1, RowsApart
  <2> HIDE DEF n
  <2> QED BY <1>1, <1>2, <1>3, <2>1
<1>6. c[1] = d[1]
  BY <1>1, <1>4, <1>5
<1>7. c[2] = d[2]
  BY <1>1, <1>2, <1>3, <1>6
<1> QED BY <1>6, <1>7 DEF Cell

(* A round begins with the voltage of the first unit.                      *)
AtBegin ==
  /\ pc.main \notin {"read", "store"} => kind = "volt"
  /\ pc.main \notin {"read", "store", "tmu"} => cursor = 0

(* The cells whose voltage this round has stored.                          *)
Passed ==
  IF pc.main \in {"tmu", "ltu", "compare"} THEN Cell
  ELSE IF pc.main \in {"read", "store"}
       THEN {c \in Cell : c[1] < cursor \/ (c[1] = cursor /\ kind = "curr")}
       ELSE {}

PassedStored ==
  \A c \in Passed \ unstored : shm.volt[c] = value.volt[c]

LampsLit ==
  pc.main = "compare" =>
    \A c \in Cell : Bit(c) \in g_LedStatusIndex <=> ~IsVoltageNormal(value.volt[c])

LampInv == TypeInv /\ AtBegin /\ PassedStored /\ LampsLit

LEMMA LampInit == Init => LampInv
  BY InitType DEF Init, LampInv, AtBegin, PassedStored, Passed, LampsLit, SwitchPc

(* Steps that leave the loop where it is.                                  *)
LEMMA LampElsewhere ==
  ASSUME LampInv, TypeInv',
         \/ \E t \in {"main", "fan"} : Switch(t)
         \/ EnableRunningLED \/ DisableAlarmLED \/ DisableAllLEDs
         \/ ControlFans \/ Sleep \/ TemperatureStored \/ UNCHANGED vars
         \/ ShowStatus \/ ControlAlarmLED
  PROVE  LampInv'
<1> DEFINE In == {"read", "store", "tmu", "ltu", "compare"}
<1> USE DEF LampInv
<1>1. /\ UNCHANGED <<place, value, memory, status>>
      /\ \/ pc'.main = pc.main
         \/ pc.main \notin In /\ pc'.main \notin In
         \/ pc.main \notin In /\ pc'.main = "read"
  <2> USE DEF TypeInv, TypeOK, Goto
  <2>1. CASE \E t \in {"main", "fan"} : Switch(t)
    BY <2>1 DEF Switch, EnableFan, EnableAlarmOutput, DisableFan,
       DisableAlarmOutput, SendRemoteControlCommand
  <2>2. CASE EnableRunningLED \/ DisableAlarmLED \/ ControlAlarmLED
    BY <2>2 DEF EnableRunningLED, DisableAlarmLED, ControlAlarmLED,
       SendRemoteControlCommand
  <2>3. CASE DisableAllLEDs \/ ShowStatus
    BY <2>3 DEF DisableAllLEDs, ShowStatus, ControlLEDGroup
  <2>4. CASE ControlFans \/ Sleep
    BY <2>4 DEF ControlFans, Sleep
  <2>5. CASE TemperatureStored \/ UNCHANGED vars
    BY <2>5 DEF TemperatureStored, vars
  <2> QED BY <2>1, <2>2, <2>3, <2>4, <2>5
<1> USE DEF place, status, memory
<1>2. AtBegin'
  BY <1>1 DEF AtBegin
<1>3. PassedStored'
  <2>1. CASE pc'.main = "read" /\ pc.main \notin In
    <3>1. cursor' = 0 /\ kind' = "volt"
      BY <1>1, <2>1 DEF AtBegin
    <3>2. Passed' = {}
      BY <2>1, <3>1 DEF Passed, Cell, Device
    <3> QED BY <3>2 DEF PassedStored
  <2>2. CASE pc'.main = pc.main \/ pc'.main \notin In
    BY <1>1, <2>2 DEF PassedStored, Passed
  <2> QED BY <1>1, <2>1, <2>2
<1>4. LampsLit'
  BY <1>1 DEF LampsLit
<1> QED BY <1>2, <1>3, <1>4

LEMMA LampRead ==
  ASSUME LampInv, TypeInv', ReadLTUAllData \/ ReadFails
  PROVE  LampInv'
<1> USE DEF LampInv, place, status, memory
<1>1. /\ pc.main = "read" /\ pc'.main = "store"
      /\ UNCHANGED <<place, memory, status>>
  BY DEF ReadLTUAllData, ReadFails, Goto, TypeInv, TypeOK
<1>2. ASSUME NEW c \in Cell, c[1] # cursor \/ kind = "curr"
      PROVE  value'.volt[c] = value.volt[c]
  <2>1. CASE ReadFails
    BY <2>1 DEF ReadFails
  <2>2. ASSUME kind = "volt", NEW new \in [Phase -> Voltages],
               value' = [value EXCEPT !.volt = Replaced(@, new)]
        PROVE  value'.volt[c] = value.volt[c]
    <3>1. value'.volt = Replaced(value.volt, new)
      BY <2>2 DEF TypeInv, TypeOK, Tables
    <3> QED BY <1>2, <2>2, <3>1 DEF Replaced
  <2>3. ASSUME NEW new \in [Phase -> Currents],
               value' = [value EXCEPT !.curr = Replaced(@, new)]
        PROVE  value'.volt[c] = value.volt[c]
    BY <2>3 DEF TypeInv, TypeOK, Tables
  <2> QED BY <2>1, <2>2, <2>3 DEF ReadLTUAllData
<1>3. AtBegin' /\ LampsLit'
  BY <1>1 DEF AtBegin, LampsLit
<1>4. Passed' = Passed
  BY <1>1 DEF Passed
<1>5. ASSUME NEW c \in Passed PROVE c \in Cell /\ (c[1] # cursor \/ kind = "curr")
  <2>1. cursor \in Nat /\ c \in Cell /\ c[1] \in Nat
    BY <1>1 DEF Passed, TypeInv, Place, Cell, Device
  <2> QED BY <1>1, <2>1 DEF Passed
<1>6. PassedStored'
  BY <1>1, <1>2, <1>4, <1>5 DEF PassedStored
<1> QED BY <1>3, <1>6

LEMMA LampStore ==
  ASSUME LampInv, TypeInv', SetAllSharedMemoryData
  PROVE  LampInv'
<1> USE DEF LampInv
<1>0. /\ pc.main = "store" /\ cursor \in Device /\ NextItem
      /\ UNCHANGED <<value, g_LedStatusIndex>>
  BY DEF SetAllSharedMemoryData, TypeInv, Place
<1>1. PICK dropped \in SUBSET Phase :
       \/ /\ kind = "volt"
          /\ shm' = [shm EXCEPT !.volt = Stored(@, value.volt, dropped)]
          /\ unstored' = {c \in unstored : c[1] # cursor} \cup ({cursor} \X dropped)
       \/ /\ kind = "curr"
          /\ shm' = [shm EXCEPT !.curr = Stored(@, value.curr, dropped)]
          /\ UNCHANGED unstored
  BY DEF SetAllSharedMemoryData
<1>2. CASE kind = "volt"
  <2>1. /\ pc'.main = "read" /\ kind' = "curr" /\ cursor' = cursor
        /\ shm'.volt = Stored(shm.volt, value.volt, dropped)
        /\ unstored' = {c \in unstored : c[1] # cursor} \cup ({cursor} \X dropped)
    BY <1>0, <1>1, <1>2 DEF NextItem, ToTheControl, Goto, TypeInv, TypeOK, Tables
  <2>2. ASSUME NEW c \in Passed' \ unstored' PROVE shm'.volt[c] = value'.volt[c]
    <3>1. c \in Cell /\ (c[1] < cursor \/ c[1] = cursor)
      BY <2>1 DEF Passed
    <3>2. CASE c[1] = cursor
      <4>1. c[2] \notin dropped
        BY <2>1, <3>1, <3>2 DEF Cell
      <4> QED BY <1>0, <2>1, <3>1, <3>2, <4>1 DEF Stored
    <3>3. CASE c[1] # cursor
      <4>1. c \in Passed \ unstored
        BY <1>0, <2>1, <3>1, <3>3 DEF Passed
      <4> QED BY <1>0, <2>1, <3>1, <3>3, <4>1 DEF Stored, PassedStored
    <3> QED BY <3>2, <3>3
  <2> QED BY <2>1, <2>2 DEF AtBegin, LampsLit, PassedStored
<1>3. CASE kind = "curr"
  <2>1. shm'.volt = shm.volt /\ unstored' = unstored
    BY <1>1, <1>3 DEF TypeInv, TypeOK, Tables
  <2>2. CASE cursor + 1 \in Device
    <3>1. pc'.main = "read" /\ kind' = "volt" /\ cursor' = cursor + 1
      BY <1>0, <1>3, <2>2 DEF NextItem, Goto, TypeInv, TypeOK
    <3>2. Passed' \subseteq Passed
      BY <1>0, <1>3, <3>1 DEF Passed, Cell, Device
    <3> QED BY <1>0, <2>1, <3>1, <3>2 DEF AtBegin, LampsLit, PassedStored
  <2>3. CASE cursor + 1 \notin Device
    <3>1. pc'.main = "tmu" /\ kind' = "volt" /\ cursor' = 0
      BY <1>0, <1>3, <2>3 DEF NextItem, ToTheControl, Goto, TypeInv, TypeOK
    <3>2. \A i \in Device : i < cursor \/ i = cursor
      BY <1>0, <2>3, LtuAssumption DEF Device
    <3>3. Passed = Cell /\ Passed' = Cell
      BY <1>0, <1>3, <3>1, <3>2 DEF Passed, Cell
    <3> QED BY <1>0, <2>1, <3>1, <3>3 DEF AtBegin, LampsLit, PassedStored
  <2> QED BY <2>2, <2>3
<1> QED BY <1>1, <1>2, <1>3

LEMMA LampControl ==
  ASSUME LampInv, TypeInv',
         UpdateTMUVoltageLED \/ UpdateLTUVoltageLEDs \/ CompareStatus
  PROVE  LampInv'
<1> USE DEF LampInv
<1>1. CASE UpdateTMUVoltageLED
  <2> USE DEF UpdateTMUVoltageLED, memory
  <2>1. \/ pc'.main = "tmu"
        \/ pc'.main = "ltu" /\ cursor' = 0
    BY <1>1 DEF Goto, TypeInv, TypeOK
  <2>2. Passed' = Cell /\ Passed = Cell
    BY <1>1, <2>1 DEF Passed
  <2> QED BY <1>1, <2>1, <2>2 DEF AtBegin, LampsLit, PassedStored
<1>2. CASE UpdateLTUVoltageLEDs
  <2> USE DEF UpdateLTUVoltageLEDs, memory, place
  <2>1. pc.main = "ltu" /\ pc'.main = "compare"
    BY <1>2 DEF Goto, TypeInv, TypeOK
  <2>2. Passed' = Cell /\ Passed = Cell
    BY <2>1 DEF Passed
  <2>3. ASSUME NEW c \in Cell
        PROVE  Bit(c) \in g_LedStatusIndex' <=> ~IsVoltageNormal(value'.volt[c])
    <3>1. Bit(c) \notin g_LedStatusIndex \ LtuLeds
      BY DEF LtuLeds
    <3>2. Bit(c) \in {Bit(d) : d \in {e \in Cell : ~IsVoltageNormal(value.volt[e])}}
            <=> ~IsVoltageNormal(value.volt[c])
      BY BitInjective
    <3> QED BY <1>2, <3>1, <3>2
  <2> QED BY <1>2, <2>1, <2>2, <2>3 DEF AtBegin, LampsLit, PassedStored
<1>3. CASE CompareStatus
  <2> USE DEF CompareStatus, place
  <2>1. /\ pc.main = "compare" /\ pc'.main \in {"read", "panel"}
        /\ cursor' = 0 /\ kind' = "volt"
    BY <1>3 DEF Goto, TypeInv, TypeOK, AtBegin
  <2>2. Passed' = {}
    BY <2>1 DEF Passed, Cell, Device
  <2> QED BY <2>1, <2>2 DEF AtBegin, LampsLit, PassedStored
<1> QED BY <1>1, <1>2, <1>3

LEMMA LampStep == LampInv /\ [Next]_vars => LampInv'
<1> SUFFICES ASSUME LampInv, [Next]_vars PROVE LampInv'
  OBVIOUS
<1>1. TypeInv'
  BY StepType DEF LampInv
<1>2. CASE Restart
  BY <1>1, <1>2 DEF Restart, LampInv, AtBegin, PassedStored, Passed, LampsLit,
     SwitchPc
<1> QED BY <1>1, <1>2, LampElsewhere, LampRead, LampStore, LampControl
        DEF Next, MainLoop, FansControlThread

(* For any number of units: when a round compares the status, every lamp   *)
(* of a unit says of its phase what shared memory holds, unless SetItem    *)
(* dropped it.                                                             *)
THEOREM LampsTellWhatIsStoredHolds == Spec => []LampsTellWhatIsStored
<1>1. LampInv => LampsTellWhatIsStored
  BY DEF LampInv, LampsTellWhatIsStored, PassedStored, Passed, LampsLit
<1> QED BY <1>1, LampInit, LampStep, PTL DEF Spec

(***************************************************************************)
(* The promise to the viewer.                                              *)
(***************************************************************************)

StartPc == SwitchPc \cup {"running", "alarmOff", "panelOff"}

(* Before the first round no lamp is to be lit.                            *)
DarkStart == pc.main \in StartPc => g_LedStatusIndex = {}

DisplayInv == TypeInv /\ DarkStart

LEMMA DisplayInit == Init => DisplayInv /\ Display!Init
<1> SUFFICES ASSUME Init PROVE DisplayInv /\ Display!Init
  OBVIOUS
<1>1. DisplayInv
  BY InitType DEF Init, DisplayInv, DarkStart
<1>2. Announced = {} /\ Due = {"panel", "alarm"}
  BY DEF Init, Announced, Due, SwitchPc
<1>3. panel \in SUBSET Leds /\ lost = {}
  BY DEF Init
<1>4. board["alarm"] \in BOOLEAN
  BY Zenon DEF Init, Port
<1> QED BY <1>1, <1>2, <1>3, <1>4 DEF Display!Init, Display!Commands

(* A command through port 1 is the alarm command of the promise.           *)
LEMMA AlarmCommand ==
  ASSUME DisplayInv, NEW on \in BOOLEAN, SendRemoteControlCommand("alarm", on),
         on = (Announced # {}), Announced' = Announced,
         "alarm" \in Due, Due' = Due \ {"alarm"}
  PROVE  \E arrives \in BOOLEAN : Display!SendAlarm(arrives)
<1>1. PICK arrives \in BOOLEAN :
        /\ board' = IF arrives THEN [board EXCEPT !["alarm"] = on] ELSE board
        /\ lost' = LostAfter("alarm", arrives)
  BY DEF SendRemoteControlCommand
<1>2. Display!Sent("alarm", arrives)
  BY <1>1 DEF Display!Sent, LostAfter
<1>3. board'["alarm"] = IF arrives THEN on ELSE board["alarm"]
  <2>1. board \in [Port -> BOOLEAN] /\ "alarm" \in Port
    BY DEF DisplayInv, TypeInv, TypeOK, Port
  <2>2. CASE arrives
    BY <1>1, <2>1, <2>2, Zenon
  <2>3. CASE ~arrives
    BY <1>1, <2>3, Zenon
  <2> QED BY <2>2, <2>3, Zenon
<1>4. UNCHANGED panel
  BY DEF SendRemoteControlCommand
<1>5. Display!SendAlarm(arrives)
  BY <1>2, <1>3, <1>4, Zenon DEF Display!SendAlarm
<1> QED BY <1>5

LEMMA PanelCommand ==
  ASSUME DisplayInv, ControlLEDGroup(Announced), Announced' = Announced,
         "panel" \in Due, Due' = Due \ {"panel"}
  PROVE  \E arrives \in BOOLEAN : Display!SendPanel(arrives)
<1>1. PICK arrives \in BOOLEAN :
        /\ panel' = IF arrives THEN Shown(HighHalf(Announced), LowHalf(Announced))
                               ELSE panel
        /\ lost' = LostAfter("panel", arrives)
  BY DEF ControlLEDGroup
<1>2. Display!Sent("panel", arrives)
  BY <1>1 DEF Display!Sent, LostAfter
<1>3. Announced \subseteq Leds
  BY DEF Announced, DisplayInv, TypeInv, TypeOK
<1>4. panel' = IF arrives THEN Announced ELSE panel
  BY <1>1, <1>3, FrameKeepsLamps
<1>5. UNCHANGED board
  BY DEF ControlLEDGroup
<1>6. Display!SendPanel(arrives)
  BY <1>2, <1>4, <1>5 DEF Display!SendPanel
<1> QED BY <1>6

(* What the other commands leave alone.                                    *)
LEMMA OtherPort ==
  ASSUME DisplayInv, NEW port \in Port \ {"alarm"}, NEW on \in BOOLEAN,
         SendRemoteControlCommand(port, on)
  PROVE  UNCHANGED <<panel, lost, board["alarm"]>>
<1>1. board \in [Port -> BOOLEAN] /\ "alarm" \in Port
  BY DEF DisplayInv, TypeInv, TypeOK, Port
<1>2. board' = [board EXCEPT ![port] = on] \/ board' = board
  BY DEF SendRemoteControlCommand
<1>3. board'["alarm"] = board["alarm"]
  <2>1. CASE board' = [board EXCEPT ![port] = on]
    BY <1>1, <2>1, Zenon
  <2>2. CASE board' = board
    BY <2>2, Zenon
  <2> QED BY <1>2, <2>1, <2>2, Zenon
<1>4. UNCHANGED <<panel, lost>>
  BY DEF SendRemoteControlCommand
<1> QED BY <1>3, <1>4, Zenon

(* Steps the viewer does not see.                                          *)
LEMMA Unseen ==
  ASSUME DisplayInv,
         \/ \E t \in {"main", "fan"} : Switch(t)
         \/ EnableRunningLED
         \/ ReadLTUAllData \/ ReadFails \/ SetAllSharedMemoryData
         \/ UpdateTMUVoltageLED \/ UpdateLTUVoltageLEDs
         \/ CompareStatus /\ oldLedStatusIndex = g_LedStatusIndex
         \/ ControlFans \/ Sleep \/ TemperatureStored \/ UNCHANGED vars
  PROVE  UNCHANGED Display!vars /\ DarkStart'
<1> USE DEF Announced, Due, DarkStart, StartPc, status, display
<1>0. /\ pc \in [main : MainPc, fan : FanPc]
      /\ pc.main \in StartPc => g_LedStatusIndex = {}
  BY DEF DisplayInv, TypeInv, TypeOK
<1>1. /\ Announced' = Announced /\ Due' = Due /\ DarkStart'
      /\ UNCHANGED <<panel, lost, board["alarm"]>>
  <2>1. ASSUME NEW t \in {"main", "fan"}, Switch(t)
        PROVE  /\ Announced' = Announced /\ Due' = Due /\ DarkStart'
               /\ UNCHANGED <<panel, lost, board["alarm"]>>
    <3>1. PICK port \in Port \ {"alarm"}, on \in BOOLEAN,
               next \in SwitchPc \cup {IF t = "main" THEN "running" ELSE "sleep"} :
            /\ pc[t] \in SwitchPc
            /\ Goto(t, next) /\ SendRemoteControlCommand(port, on)
            /\ UNCHANGED status
      BY <2>1 DEF Switch, EnableFan, EnableAlarmOutput, DisableFan,
         DisableAlarmOutput, Port, SwitchPc
    <3>2. UNCHANGED <<panel, lost, board["alarm"]>>
      BY <3>1, OtherPort
    <3>3. CASE t = "main"
      <4>1. /\ pc.main \in SwitchPc
            /\ pc'.main \in SwitchPc \cup {"running"}
        BY <1>0, <3>1, <3>3 DEF Goto
      <4>2. Announced' = Announced /\ Due' = Due /\ DarkStart'
        BY <1>0, <3>1, <4>1 DEF SwitchPc
      <4> QED BY <3>2, <4>2, Zenon
    <3>4. CASE t = "fan"
      <4>1. pc'.main = pc.main
        BY <1>0, <3>1, <3>4 DEF Goto
      <4>2. Announced' = Announced /\ Due' = Due /\ DarkStart'
        BY <1>0, <3>1, <4>1 DEF SwitchPc
      <4> QED BY <3>2, <4>2, Zenon
    <3> QED BY <3>3, <3>4
  <2>2. CASE EnableRunningLED
    <3>1. UNCHANGED <<panel, lost, board["alarm"]>>
      BY <2>2, OtherPort DEF EnableRunningLED, Port
    <3>2. pc.main = "running" /\ pc'.main = "alarmOff" /\ UNCHANGED status
      BY <1>0, <2>2 DEF EnableRunningLED, Goto
    <3>3. Announced' = Announced /\ Due' = Due /\ DarkStart'
      BY <1>0, <3>2 DEF SwitchPc
    <3> QED BY <3>1, <3>3, Zenon
  <2>3. CASE ReadLTUAllData \/ ReadFails
    <3>1. /\ pc.main = "read" /\ pc'.main = "store"
          /\ UNCHANGED <<status, display>>
      BY <1>0, <2>3 DEF ReadLTUAllData, ReadFails, Goto
    <3> QED BY <3>1 DEF SwitchPc
  <2>4. CASE SetAllSharedMemoryData
    <3>1. /\ pc.main = "store" /\ UNCHANGED <<g_LedStatusIndex, display>>
          /\ \/ pc'.main = "read"
             \/ pc'.main = "tmu" /\ oldLedStatusIndex' = g_LedStatusIndex
      BY <1>0, <2>4 DEF SetAllSharedMemoryData, NextItem, ToTheControl, Goto
    <3> QED BY <3>1 DEF SwitchPc
  <2>5. CASE UpdateTMUVoltageLED \/ UpdateLTUVoltageLEDs
    <3>1. /\ pc.main \in {"tmu", "ltu"} /\ pc'.main \in {"tmu", "ltu", "compare"}
          /\ UNCHANGED <<oldLedStatusIndex, display>>
      BY <1>0, <2>5 DEF UpdateTMUVoltageLED, UpdateLTUVoltageLEDs, Goto
    <3> QED BY <3>1 DEF SwitchPc
  <2>6. CASE CompareStatus /\ oldLedStatusIndex = g_LedStatusIndex
    <3>1. /\ pc.main = "compare" /\ pc'.main = "read"
          /\ UNCHANGED <<g_LedStatusIndex, display>>
      BY <1>0, <2>6 DEF CompareStatus, Goto
    <3> QED BY <2>6, <3>1 DEF SwitchPc
  <2>7. CASE ControlFans \/ Sleep
    <3>1. pc'.main = pc.main /\ UNCHANGED <<status, display>>
      BY <1>0, <2>7 DEF ControlFans, Sleep, Goto
    <3> QED BY <1>0, <3>1
  <2>8. CASE TemperatureStored \/ UNCHANGED vars
    BY <1>0, <2>8 DEF TemperatureStored, vars
  <2> QED BY <2>1, <2>2, <2>3, <2>4, <2>5, <2>6, <2>7, <2>8
<1> HIDE DEF Announced, Due, DarkStart
<1> QED BY <1>1, Zenon DEF Display!vars

(* Steps of the promise.                                                   *)
LEMMA Seen ==
  ASSUME DisplayInv,
         \/ DisableAlarmLED \/ DisableAllLEDs
         \/ CompareStatus /\ oldLedStatusIndex # g_LedStatusIndex
         \/ ShowStatus \/ ControlAlarmLED \/ Restart
  PROVE  Display!Next /\ DarkStart'
<1> USE DEF StartPc, status, display
<1>0. /\ pc \in [main : MainPc, fan : FanPc]
      /\ pc.main \in StartPc => g_LedStatusIndex = {}
  BY DEF DisplayInv, TypeInv, TypeOK, DarkStart
<1>1. CASE DisableAlarmLED
  <2>1. /\ pc.main = "alarmOff" /\ pc'.main = "panelOff" /\ UNCHANGED status
        /\ g_LedStatusIndex = {}
    BY <1>0, <1>1 DEF DisableAlarmLED, Goto
  <2>2. /\ Announced = {} /\ Announced' = Announced /\ DarkStart'
        /\ Due = {"panel", "alarm"} /\ Due' = {"panel"}
    BY <2>1 DEF Announced, Due, SwitchPc, DarkStart
  <2>3. FALSE = (Announced # {}) /\ Due' = Due \ {"alarm"} /\ "alarm" \in Due
    BY <2>2
  <2>4. SendRemoteControlCommand("alarm", FALSE)
    BY <1>1 DEF DisableAlarmLED
  <2>5. \E arrives \in BOOLEAN : Display!SendAlarm(arrives)
    BY <2>2, <2>3, <2>4, AlarmCommand
  <2> QED BY <2>2, <2>5 DEF Display!Next
<1>2. CASE DisableAllLEDs
  <2>1. /\ pc.main = "panelOff" /\ pc'.main = "read" /\ UNCHANGED status
        /\ g_LedStatusIndex = {}
    BY <1>0, <1>2 DEF DisableAllLEDs
  <2>2. /\ Announced = {} /\ Announced' = Announced /\ DarkStart'
        /\ Due = {"panel"} /\ Due' = {}
    BY <2>1 DEF Announced, Due, SwitchPc, DarkStart
  <2>3. ControlLEDGroup(Announced) /\ Due' = Due \ {"panel"} /\ "panel" \in Due
    BY <1>2, <2>2 DEF DisableAllLEDs
  <2>4. \E arrives \in BOOLEAN : Display!SendPanel(arrives)
    BY <2>2, <2>3, PanelCommand
  <2> QED BY <2>2, <2>4 DEF Display!Next
<1>3. CASE CompareStatus /\ oldLedStatusIndex # g_LedStatusIndex
  <2>1. /\ pc.main = "compare" /\ pc'.main = "panel"
        /\ UNCHANGED <<g_LedStatusIndex, display>>
    BY <1>0, <1>3 DEF CompareStatus, Goto
  <2>2. /\ Announced = oldLedStatusIndex /\ Announced' = g_LedStatusIndex
        /\ DarkStart' /\ Due = {} /\ Due' = {"panel", "alarm"}
    BY <2>1 DEF Announced, Due, SwitchPc, DarkStart
  <2>3. g_LedStatusIndex \in SUBSET Leds
    BY DEF DisplayInv, TypeInv, TypeOK
  <2>4. UNCHANGED <<panel, board["alarm"], lost>>
    BY <2>1, Zenon
  <2>5. Display!Announce
    BY <1>3, <2>2, <2>3, <2>4 DEF Display!Announce, Display!Commands
  <2> QED BY <2>2, <2>5 DEF Display!Next
<1>4. CASE ShowStatus
  <2>1. pc.main = "panel" /\ pc'.main = "alarm" /\ UNCHANGED status
    BY <1>0, <1>4 DEF ShowStatus, Goto
  <2>2. /\ Announced = g_LedStatusIndex /\ Announced' = Announced /\ DarkStart'
        /\ Due = {"panel", "alarm"} /\ Due' = {"alarm"}
    BY <2>1 DEF Announced, Due, SwitchPc, DarkStart
  <2>3. ControlLEDGroup(Announced) /\ Due' = Due \ {"panel"} /\ "panel" \in Due
    BY <1>4, <2>2 DEF ShowStatus
  <2>4. \E arrives \in BOOLEAN : Display!SendPanel(arrives)
    BY <2>2, <2>3, PanelCommand
  <2> QED BY <2>2, <2>4 DEF Display!Next
<1>5. CASE ControlAlarmLED
  <2>1. pc.main = "alarm" /\ pc'.main = "read" /\ UNCHANGED status
    BY <1>0, <1>5 DEF ControlAlarmLED, Goto
  <2>2. /\ Announced = g_LedStatusIndex /\ Announced' = Announced /\ DarkStart'
        /\ Due = {"alarm"} /\ Due' = {}
    BY <2>1 DEF Announced, Due, SwitchPc, DarkStart
  <2>3. Due' = Due \ {"alarm"} /\ "alarm" \in Due
    BY <2>2
  <2>4. SendRemoteControlCommand("alarm", Announced # {})
    BY <1>5, <2>2 DEF ControlAlarmLED
  <2>5. (Announced # {}) \in BOOLEAN
    OBVIOUS
  <2>6. \E arrives \in BOOLEAN : Display!SendAlarm(arrives)
    BY <2>2, <2>3, <2>4, <2>5, AlarmCommand, Zenon
  <2> QED BY <2>2, <2>6 DEF Display!Next
<1>6. CASE Restart
  <2>1. /\ pc'.main \in {"enableFan", "disableFan", "running"}
        /\ g_LedStatusIndex' = {} /\ UNCHANGED display
    BY <1>6 DEF Restart
  <2>2. Announced' = {} /\ Due' = {"panel", "alarm"} /\ DarkStart'
    BY <2>1 DEF Announced, Due, SwitchPc, DarkStart
  <2>3. UNCHANGED <<panel, board["alarm"], lost>>
    BY <2>1, Zenon
  <2>4. Display!Reset
    BY <2>2, <2>3 DEF Display!Reset, Display!Commands
  <2> QED BY <2>2, <2>4 DEF Display!Next
<1> QED BY <1>1, <1>2, <1>3, <1>4, <1>5, <1>6

LEMMA DisplayStep ==
  DisplayInv /\ [Next]_vars => DisplayInv' /\ [Display!Next]_(Display!vars)
<1> SUFFICES ASSUME DisplayInv, [Next]_vars
             PROVE  DisplayInv' /\ [Display!Next]_(Display!vars)
  OBVIOUS
<1>1. TypeInv'
  BY StepType DEF DisplayInv
<1>2. DarkStart' /\ [Display!Next]_(Display!vars)
  BY Unseen, Seen DEF Next, MainLoop, FansControlThread
<1> QED BY <1>1, <1>2 DEF DisplayInv

(* The loop implements the promise: bit by bit recomputation is never      *)
(* shown, and the two commands of a status carry that status.              *)
THEOREM ShowsAnnouncedHolds == Spec => ShowsAnnounced
  BY DisplayInit, DisplayStep, PTL DEF Spec, ShowsAnnounced, Display!Spec

LEMMA LastCommandStep ==
  LastCommandDecides /\ [Display!Next]_(Display!vars) => LastCommandDecides'
<1> SUFFICES ASSUME LastCommandDecides, [Display!Next]_(Display!vars)
             PROVE  LastCommandDecides'
  OBVIOUS
<1> USE DEF LastCommandDecides, Display!LastCommandDecides
<1>1. CASE UNCHANGED Display!vars
  BY <1>1, Zenon DEF Display!vars
<1>2. CASE Display!Announce \/ Display!Reset
  BY <1>2 DEF Display!Announce, Display!Reset, Display!Commands
<1>3. ASSUME NEW arrives \in BOOLEAN, Display!SendPanel(arrives)
      PROVE  LastCommandDecides'
  BY <1>3 DEF Display!SendPanel, Display!Sent
<1>4. ASSUME NEW arrives \in BOOLEAN, Display!SendAlarm(arrives)
      PROVE  LastCommandDecides'
  BY <1>4 DEF Display!SendAlarm, Display!Sent
<1> QED BY <1>1, <1>2, <1>3, <1>4 DEF Display!Next

(* Panel and alarm LED are wrong only after their last command was lost,   *)
(* for any number of lost commands and restarts before it.                 *)
THEOREM LastCommandDecidesHolds == Spec => []LastCommandDecides
<1>1. Display!Init => LastCommandDecides
  BY DEF Display!Init, Display!Commands, LastCommandDecides,
     Display!LastCommandDecides
<1> QED BY <1>1, LastCommandStep, ShowsAnnouncedHolds, PTL
        DEF ShowsAnnounced, Display!Spec

(***************************************************************************)
(* The fan.                                                                *)
(***************************************************************************)

(* The fan thread never switches the fan on.                               *)
FanThreadNeverEnables == pc.fan \notin {"enableFan", "enableOutput"}

(* However hot it is, ControlFans never reaches EnableFan (main.cpp:146-150 *)
(* and 74): every temperature sensor-manager can store reads as 0.         *)
THEOREM NeverEnables == Spec => []FanThreadNeverEnables
<1> DEFINE Inv == TypeInv /\ FanThreadNeverEnables
<1>1. Init => Inv
  BY InitType DEF Init, FanThreadNeverEnables
<1>2. ASSUME Inv, [Next]_vars PROVE Inv'
  <2> USE DEF FanThreadNeverEnables
  <2>0. pc \in [main : MainPc, fan : FanPc]
    BY <1>2 DEF TypeInv, TypeOK
  <2>1. ASSUME ControlFans
        PROVE  FanThreadNeverEnables'
    <3>1. temperature \in Temperatures BY <1>2 DEF TypeInv, TypeOK
    <3>2. temperature \in Registers BY <3>1, TemperatureAssumption
    <3>3. GetTemperatureValue = 0 BY <3>2 DEF GetTemperatureValue, AsFloat
    <3> QED BY <1>2, <2>0, <2>1, <3>3 DEF ControlFans, Goto
  <2>2. ASSUME Switch("fan") \/ Sleep
        PROVE  FanThreadNeverEnables'
    BY <1>2, <2>0, <2>2 DEF Switch, EnableFan, EnableAlarmOutput, DisableFan,
       DisableAlarmOutput, Sleep, Goto
  <2>3. ASSUME Switch("main")
        PROVE  FanThreadNeverEnables'
    BY <1>2, <2>0, <2>3 DEF Switch, EnableFan, EnableAlarmOutput, DisableFan,
       DisableAlarmOutput, Goto
  <2>4. ASSUME DisableAllLEDs
        PROVE  FanThreadNeverEnables'
    BY <1>2, <2>4 DEF DisableAllLEDs
  <2>5. ASSUME \/ EnableRunningLED \/ DisableAlarmLED
               \/ ReadLTUAllData \/ ReadFails \/ SetAllSharedMemoryData
               \/ UpdateTMUVoltageLED \/ UpdateLTUVoltageLEDs
               \/ CompareStatus \/ ShowStatus \/ ControlAlarmLED
        PROVE  FanThreadNeverEnables'
    <3>1. pc' = pc \/ \E next \in MainPc : Goto("main", next)
      BY <2>5 DEF EnableRunningLED, DisableAlarmLED, ReadLTUAllData, ReadFails,
         SetAllSharedMemoryData, NextItem, ToTheControl, UpdateTMUVoltageLED,
         UpdateLTUVoltageLEDs, CompareStatus, ShowStatus, ControlAlarmLED, MainPc
    <3> QED BY <1>2, <2>0, <3>1 DEF Goto
  <2>6. ASSUME Restart \/ TemperatureStored \/ UNCHANGED vars
        PROVE  FanThreadNeverEnables'
    BY <1>2, <2>6 DEF Restart, TemperatureStored, vars
  <2>7. TypeInv'
    BY <1>2, StepType
  <2>8. FanThreadNeverEnables'
    BY <1>2, <2>1, <2>2, <2>3, <2>4, <2>5, <2>6
       DEF Next, MainLoop, FansControlThread
  <2> QED BY <2>7, <2>8
<1> QED BY <1>1, <1>2, PTL DEF Spec
==============================================================================

# Verification of the DCU/ECU programs

This directory holds TLA+ specifications of the programs in this repository, the TLC
configurations that model-check them, and proofs that TLAPS checks. `PROJECT.json` lists the
components, the runs, the correspondence between definitions and source lines, the hazards, the
findings and the theorems.

Run a configuration with `tlc -config SensorSafety.cfg MCSensorManager.tla` (the module of each
configuration is in the table below) and the proofs with `tlapm SensorManagerProofs.tla`.

## 1. The system

The device is a data concentrator. It runs several processes on one Linux board; they share a
shared memory segment (`SHM_TERM_DATA`), two System V message queues and a set of driver files.

| component | state it keeps | operations | talks to |
|---|---|---|---|
| sensor-manager (`src/sensor-manager`, `libs/protocol/modbus`) | per sensor a receive buffer and registers; the port; the queue ids | one endless loop: build frame, send, receive, parse, store, alarm, for 12 sensors in turn | Modbus slaves on `/dev/ttyS4`, shared memory, queue `MSG_SERVICE_TO_GPRS` |
| power-manager (`src/power-manager`) | `lastKeyPressedTime`, the static `batteryPoweredStatus` | three threads: battery supply, charger, key monitor | driver files under `/proc/wfet` and a gpio device |
| ltu-manager (`src/ltu-manager`) | voltages and currents of 8 line units, `g_LedStatusIndex` | main loop: read units, store, drive the LED panel; a fan thread | line units over 645, display board through `pmod2`, shared memory |
| watchdog-manager (`src/watchdog-manager`) | the soft watchdog files, the walk over them; a program list that is always empty | feed the hardware watchdog, look at every file, kill late processes, reboot | the processes that write the files |
| task-scheduler (`src/task-scheduler`, `libs/protocol/GuruxDLMS`) | one server object: association, open long transaction, block index, row counters; the listener's socket; the profile file | answer uplink packets and TCP requests, reads of the profile in blocks, writes | the two queues, TCP clients, files |
| stack3762 (`libs/protocol/stack3762`) | the frames and fields sent and received last | build, find and parse frames | the serial port of a communication module |
| stack645-07 (`libs/protocol/stack645-07`) | almost none | query and write a meter with retries, conversions | `AsyncCom`, which is not in the repository |
| Logger, ftp-file-transfer, ntp-time-sync | log file; the other two are empty files | | |

Not this project's code: nlohmann json, GuruxDLMS (of which `DlmsServer` models the server side it needs), Quectel_EC200, third_party, tools, docs. The
shared memory library (`CShmIO`) and the gprs process are not in the repository; they are
modelled from how the code uses them and marked external.

### What is hard here, and what makes each component correct

* **sensor-manager**. A Modbus reply carries no sequence number and the parser does not compare
  the slave address, so lateness turns into a wrong identity. A handler keeps its buffer and
  registers from poll to poll, and every error code is dropped: what is published after a timeout,
  a failed write or a rejected frame depends on what the earlier polls left behind. Correct means:
  rejected frames are never published, one reply feeds one sensor, shared memory never goes
  backwards, the uplink is told what shared memory holds, misalignment heals, and a dropped alarm
  is sent later.
* **power-manager**. Three threads without a lock; every helper opens, reads and closes a file, so
  the value it decides on may be stale when it acts; a file that cannot be read looks like 0. Correct
  means: the charger follows its hysteresis, the idle time is never computed too short, a low
  battery gets charged, and a battery device that nobody uses is switched off.
* **ltu-manager**. Two threads share a half-duplex port without a lock; the panel's commands are sent on change
  only and the failure of any command is ignored; the status is a word of bits that two functions set one by one. Correct
  means: no lamp gets in another's way, only announced statuses are shown, the panel ends up showing the
  status, the alarm LED agrees with it, and the fan follows the temperature its thread reads.
* **watchdog-manager**. Processes empty and rewrite their files while the watchdog reads them, and end and
  start again while it waits for one of them to die; it waits inside the walk, and the hardware dog is only
  fed between two walks; opening and feeding the dog may fail, and nobody looks. Correct means: only a late
  process is killed, waiting never costs the dog its feeding, the system resets only for a process that cannot be
  killed or a feeding that failed, and such a process does not stay unnoticed, even if the reboot fails.
* **task-scheduler**. One server object serves a TCP client and the uplink, and keeps between calls what
  either has left: a transaction, a block index, two row counters of which the library decides whether there
  are more rows and whether a write is a block of a longer one, and the bytes of a request that has not arrived
  completely. Requests are plain or ciphered; replies may be lost, requests repeated or cut in two.
  Correct means: the blocks a client puts together are those of its read unless somebody disturbed it, such a read
  delivers its rows, writes are swallowed only while a transaction is open, and every read ends.
* **protocol stacks**. Parse after build is the identity on the fields, a scan finds the frame in
  what surrounds it, bitmaps decode to what was encoded.

## 2. Modules

| module | models | checked by |
|---|---|---|
| `SensorManager` | the whole of sensor-manager and the line, the queue and the restarts around it | |
| `MCSensorManager` | instances of it | `SensorSafety.cfg`, `SensorLiveness.cfg`, `SensorLateReply.cfg` |
| `Telemetry` | abstract: what readers of shared memory and of the queue may count on | |
| `SensorManagerProofs` | theorems about it, the refinement of `Telemetry` among them | TLAPS |
| `PowerManager` | the whole of power-manager and its driver files | `Power.cfg`, `PowerIdle.cfg` |
| `PowerManagerProofs` | theorems about it | TLAPS |
| `StatusPanel` | abstract: what the display board may show | |
| `LtuManager` | the whole of ltu-manager, the display board and the temperature's writer | `LtuUnits.cfg`, `LtuDisplay.cfg`, `LtuLamps.cfg` |
| `LtuManagerProofs` | theorems about it, the refinement of `StatusPanel` among them | TLAPS |
| `SoftWatch` | main's loop, `Watch`, `GetPidState` and `SaveSystem` of watchdog-manager, the processes, the hardware dog | `SoftWatch.cfg` |
| `SoftWatchProofs` | theorems about it | TLAPS |
| `DlmsServer` | the listener, the uplink's calls and the server object of task-scheduler | |
| `MCDlmsServer` | instances of it | `DlmsServer.cfg`, `DlmsRange.cfg` |
| `DlmsServerProofs` | theorems about it | TLAPS |
| `Frame3762` | frames of Q/GDW 376.2: build, parse, scan | |
| `MCFrame3762` | an instance of it | `FrameScan.cfg` |
| `Frame3762Proofs` | theorems about it: function codes, build and parse, the scan | TLAPS |

### SensorManager and Telemetry

`pc` walks through `ProcessSensorData` for the sensor `cursor`: `Send` or `SendFails`, `Receive` or
`ReceiveTimeout`, `ProcessData`, `StoreData`, then one of `NoAlarm`, `SendAlarm`, `DropAlarm`, which
end in `Advance` (the loop of `main`). `m_receiveBuffer` and `m_registers` are those of the source,
one per sensor; the three handler classes differ only in the condition of their alarm
(`Triggers`). The line is two queues: `inflight` (replies travelling) and `unread` (the tty input
queue). A reply may be lost (`Lose`) or damaged (`Arrive` with `Noise`), may come any number of
polls late, and two waiting replies are read as one buffer that fails the check (`ReadAll`).
`queue` is the uplink queue with its capacity; `UplinkTakes` is the gprs process, `OtherProducer`
is task-scheduler. `Restart` is a kill and a new start at any point: handlers and tty queue are
emptied, the line, shared memory and the message queue are not.

Abstractions. A frame is a reply with its first register, or `Noise` (anything
`parseReadHoldingRegistersResponse` rejects): the program uses no other register. A response with no
register, or an odd byte count, which the parser accepts, is not produced by the slaves of the model.
A port that could not be opened is a port whose every write fails: `SendFails` is always
enabled. A message queue that could not be opened, an encoder error and a full queue all end in
`DropAlarm`, always enabled. `sleep(2)` is not modelled, since any number of replies may
arrive between two steps anyway.

`age` and `stored` are auxiliary. One arbitrary poll is watched: replies to polls before it carry
age 0, its own 1, later ones 2. That is enough to compare any two polls: a violation between two
replies is a violation with one of them watched. No guard reads them.

`Telemetry` has no line, no buffers and no failures. In its turn a sensor hears something or nothing, publishes
what it holds or does not, and raises an alarm or does not; what it hears is `Fresh`: no other sensor has heard it,
and it is not older than what the sensor held or what its item shows. `SensorManager` implements it
(`ImplementsTelemetry`) with `cursor`, `m_registers`, `stored` and `shm` for `turn`, `held`, `published` and
`shown`. `ProcessData` is `Hear` (of nothing, when the frame was rejected), `StoreData` is `Publish`, the steps that
end in `Advance` are `EndTurn`, and whatever happens on the line is a stutter. `ltu-manager` and the uplink read
shared memory and the queue, so this is what another program's model may be composed with.

### PowerManager

One action per file access, since every helper opens, reads or writes and closes its file, with the
branch that the value decides; the three threads have program counters of their own. Files are the
variables `voltage` (`battery_adc`), `charging` (`battery_charge`), `onBattery`
(`poweroff_state`), `keyTime` (`last_key_time`), `supply` (gpio bit 4); `now` is `time(NULL)`. With
`FilesMayFail` every access may fail, independently; a failed read is what the code makes of an empty
buffer: 0 V, not charging, key time 0, and for `IsBatteryPowered`, whose buffer is then not
initialized, any answer. When the access works `IsBatteryPowered` is FALSE: `GetData` reads one
byte less than it is asked for, and it is asked for one byte (`BatteryFlags`).

`full`, `low` and `high` are auxiliary and describe the current charging pass: every voltage of it was above the
upper limit and no access failed; it saw a low battery or a failure; the battery was above the upper limit at some
moment. Voltages are in tenths of a
volt. The sleeps are left out: any other thread may run between two steps.

### LtuManager and StatusPanel

`pc` has a program counter for the main loop and one for the fan thread. Main first sends the commands
of its start (`EnableFan` or `DisableFan` with the alarm output, or neither, as `argv` says;
`EnableRunningLED`; `DisableAlarmLED`; `DisableAllLEDs`, after which the fan thread exists). A round then
reads and stores the voltages and the currents of each unit (`ReadLTUAllData` or `ReadFails`,
`SetAllSharedMemoryData`; `cursor` and `kind` are the loop's place), computes the lamps
(`UpdateTMUVoltageLED` once per phase of the terminal, `UpdateLTUVoltageLEDs`), compares
(`CompareStatus`) and, on a change, sends the panel and the alarm LED (`ShowStatus`,
`ControlAlarmLED`). The fan thread reads the temperature (`ControlFans`), may send two commands, and
sleeps. `oldLedStatusIndex` is a local of `ControlLTULEDs` and is `{}` outside of it.

`g_LedStatusIndex` is the set of its one bits. `HighHalf` and `LowHalf` are the two 16-bit fields in which
`CreateReadDataFrame` puts it, `Shown` is what the board makes of them. `board` and `panel` are the
board's outputs and lamps.

Abstractions. An exchange with the board is one step that arrives or is lost. Two exchanges of the two
threads that collide on `pmod2` are two that may be lost; that a collision forms a third, valid command is
not modelled. After a failed exchange with a unit `recvLen` is 0, the test is `< 0`, and the parser is
given a buffer that was never written: `ReadLTUAllData` may then find any reading, so it does not depend
on whether the exchange worked. Voltages are whole volts. `AlarmControlThread` only sleeps.

sensor-manager stores the temperature as the four bytes of an int (`Sensor_Temperature_Humidity.cpp:50-58`), and
`GetSharedMemoryData` copies the item's bytes into a float. `AsFloat` is that conversion: the int is a register,
so it has at most 16 bits, and the float with these bits is below 10^-38; for the comparisons with 50 and 60 it is
0. An item that is not there reads as 0 as well.

`unstored` (voltages whose `SetItem` failed in this round) and `lost` (of panel and alarm LED, those whose
last command was lost) are auxiliary; no guard reads them.

`StatusPanel` has no threads, units or bits: a status is announced, then two commands for it are sent in
some order, each once, each of which may be lost; a restart forgets the status. `LtuManager` implements
it under the mapping `Announced` (the status that was last compared: while the lamps are recomputed bit by
bit, the old one) and `Due` (read off `pc.main`), with `panel`, the alarm output of `board` and `lost` as
they are. What it promises is that a half-computed status is never shown, that the alarm LED and the panel
belong to the same status, and `LastCommandDecides`.

### SoftWatch

`pc` is where the watchdog is: `Sleep` (a second), `Feed` (which begins the walk of `ftw`: `rest`), `Look` for each
file, `ReadState` when its time is over and a pid was read, `Kill`, or the loop of `SaveSystem`, `SaveKill` and
`SaveSleep`, which ends in `Kill` or in `Reboots` or `RebootFails`. Neither `Open` nor `Feed` of the hardware dog has to work
(`watchdog.cpp:18-30` and `46-60`), and `main` looks at neither result: `opened` says whether `Open` has activated the dog in
this run of the system, and `Feed` is `Fed`, which needs the device, or `NotFed`. `starved` counts from the last feeding
of a dog that is active. Time only passes in the watchdog's sleeps
(`Elapses`): one second in the main loop and for each try, `RebootWait` (20) after the reboot command.

`left` is what remains of a file's `up_time + dead_seconds`; below 0 it is how long the file has said that its
process is late, which `NoticedInTime` bounds. A file that its process has opened and not yet
written is `torn`: `fread` then leaves the defaults in `process`, pid 0 and a time that is over, so the file
is removed and nobody killed (`PidIn`). `own` says whether the pid in the file is that of the running process;
a pid that `Watch` has read becomes `gone` when its process ends, and a signal for it reaches nobody. A pid that the
kernel gives to another process within the seconds of one call of `Watch` is not modelled.

Abstractions. How a process writes its file (`SoftDog.hpp`) is not in the repository: it is
opened, which empties it, and written, in two steps. The state in `/proc` is that of the second line, as
`GetPidState` reads it; on kernels that have `Umask` there no process is ever found in disk sleep (the variant
`StateUnknown`). When the reboot fails `killall` is assumed to find the watchdog under the name it is
given. The time-out of the hardware dog is external: `DogIsSlow` asks that it exceed one second and
`MAX_TRIES` seconds for every file. The program list of `main` is empty in every run of the program, since
`ProgramWatch` reads its configuration in the constructor (`program_watch.cpp:17-24`), before
`SetConfigFilePath` (`watch.cpp:197`); supervision of programs and the branch of `main` for a needed reboot are
left out.

`late` and `missed` are auxiliary: whether a process has let its time pass since it started, and whether a feeding of
the active dog has failed since the last one that worked. No guard reads them.

### DlmsServer

A step is one call of `HandleRequest` by either channel (`tcp`: the listener thread; `uplink`:
`SVC_ProcessUplinkPkt`), or one branch of the listener. The variables are those of the shared server object:
`associated`, `transaction` (`m_Transaction`), `blockIndex`, `count` and `index` (of `m_Settings`), `titled` (whether a
`SourceSystemTitle` is kept), `secured` (the cipher's security) and `received` (`m_ReceivedData`). `Get` is
`GetRequestNormal` for an interval of rows, `NextBlock` and `NextBlockFails` are `GetRequestNextDataBlock`,
`Set` is `HandleSetRequestNormal` with its two branches, `Aarq`, `Release` and `TimedOut` are association
handling; every one of them may lose its reply (`delivered`): the uplink's queue is full, or `send` fails.
`Accept`, `RefuseTcp`, `SendFails` and `Hangup` are the listener's branches, each with the `Reset` it makes.

*Parts of requests.* The data of a call is appended to `m_ReceivedData`. `Incomplete` is a call after which there is
still no whole request: it stays there for the next call, of either channel, and `received` says whose bytes are
kept. A request of the same client completes them (`Receives`); bytes of both channels are no request
(`BadFrame`, which also stands for a request that does not decipher), and `Reset` empties what is kept.

*Ciphered requests.* The server always has a cipher. Once a title is known, which `Aarq` takes over from a client and
`Reset` leaves, a ciphered request is deciphered (`Deciphers`) and sets the security of what is sent from then on; a plain one
leaves it. `HandleGetRequest` asks for an association only of a plain request (`HandlesGet`), `HandleSetRequest` of every
one (`NotAssociated`). Before a title is known a ciphered request is passed on as it is: its command is unknown
(`NotDeciphered`), and the security is set from a variable that was never written, so it is any. A reply with
security has `CipherHeader` bytes less room for data.

The data is counted, not represented. The reply to a read is a stream of `HeaderSize` and `RowSize` bytes a
row; `RowsRead` says how many rows `PreRead` adds, `BlockLength` and `FirstLength` how many bytes a block
takes, `LastBlock` whether it is the last. The file may fail to open when more rows are due (`opens`): the block then has
what is left over. It is there when a read begins.

`read` is auxiliary: what each client has put together of its latest read; `sound` is whether every block was the
next one. A client whose unfinished read was `disturbed`, because the other channel or a SET of its own changed what
the server keeps (`Disturb`), goes on with its block numbers and takes what it is sent. That what it gets is then not
its read is known: the properties about content except it by name, `ReadEnds` does not.

`RowsFillReply` is an assumption about `GetRowsToPdu`: it divides by the sizes of the values without tags (14
bytes of 21), so a full portion of rows never fits into one reply. It makes "the portion is complete" and "the
reply is an ordinary one" different things, and the sizes of the run satisfy it as those of the code do.

Not in the model: calls that overlap (no lock is taken; a data race), bytes of two requests that happen to parse as
a third one, general block transfer, GET of lists, ACTION, ACCESS, SET in blocks, the association's object
list, `StopServer`, the image transfer; the length field of a block is as long with ciphering as without.
`main` of this commit creates the two
queues and returns; the module calls `SVC_DlmsServerinit` and `SVC_RecvUpLinkMsgQue` as they are meant to be
called, once and then for every message.

### Frame3762

`FormSendFrame` and `ParseRecvFrame` are operators on sequences of bytes (`Legal` has its checks, `Fields` what
follows them). The state machine is `AdParseRecvFrame`: indexes `i` and `j`, one step for each turn of its
loops, and `Try` for a pair of flags, which copies into `recvFrame` over what an earlier try left there
and replaces `recvInfo`. The checksum of a pair of flags less than five bytes apart runs over memory behind the
buffer (`length - 5` is unsigned); a pair that carries its own length and is that short is not among the inputs.

## 3. Runs

| run | cfg | bounds | shows |
|---|---|---|---|
| sensor_safety | `SensorSafety.cfg` | 2 sensors with items and codes of their own, 2 late replies, queue of 1 | `RejectedNeverUsed`, `NoReplyServesTwo`, `ShmNeverRegresses`, `AlarmMatchesShm`, refinement of `Telemetry` |
| sensor_liveness | `SensorLiveness.cfg` | the same, one item for both, readings tell the sensors apart | `Resynchronises`, `DroppedAlarmIsRetried` |
| sensor_late_reply | `SensorLateReply.cfg` | as above | violates `ObisNamesTheSensor` (finding) |
| power | `Power.cfg` | voltages below both lower limits, between the charging limits and above the upper one; 2 clock values, any failing access | `FullPassEndsOff`, `StartsOnlyWhenLow`, `StopsOnlyWhenHigh`, `KeyTimeNeverAhead`, `LowEventuallyCharging` |
| power_idle | `PowerIdle.cfg` | no failing access, 3 clock values | violates `IdleBatteryIsCut` (finding) |
| ltu_units | `LtuUnits.cfg` | 2 units of 1 phase, 1 lamp of the terminal, halves of 2 bits; voltages 0 and 220 | `TypeOK`, `LampsTellWhatIsStored` |
| ltu_display | `LtuDisplay.cfg` | 1 unit, 1 lamp of the terminal, halves of 1 bit, temperatures 0 and 61 | refinement of `StatusPanel`, `LastCommandDecides`, `FanFollowsReading` |
| ltu_lamps | `LtuLamps.cfg` | as ltu_display | violates `LampsUpdated` (finding) |
| watchdog | `SoftWatch.cfg` | 2 processes, no second of silence granted, 2 tries, 2 seconds for the reboot, dog of 6 seconds, which may not open and any feeding of which may fail | `KilledOnlyWhenLate`, `FedInTime`, `ResetOnlyForStuck`, `NoticedInTime`, `LateIsNoticed` |
| dlms_server | `DlmsServer.cfg` | 10 rows of 2 bytes, 8 rows a portion, 18 bytes a PDU, 1 for ciphering, 3 intervals for the TCP client and the whole file for the uplink | `RowsPendingOnlyInTransaction`, `BlocksJoinUp`, `ReadToEndIsComplete`, `NoRowMissing`, `ReadsAreBounded`, `ReadEnds` |
| dlms_range | `DlmsRange.cfg` | the same, one channel | violates `ReadStaysInInterval` (finding) |
| frame_scan | `FrameScan.cfg` | 5 frames with and without addresses and flag bytes, a byte of noise before or after | violates `FoundFrameIsKept` (finding) |

Bounds. Two sensors are the least for a reply to reach the wrong one, and two late replies the least
for a merged read and for a chain of shifted replies; a queue of one is full and empty in turn. What
the safety properties say for more of each is proved. The three voltages are one for every
outcome of the comparisons (39 is below 4.0 V and 5.6 V, 57 between the charging limits, 59 above
5.8 V). Two clock values and a delay of one tick give an idle time on both sides of the delay,
because `lastKeyPressedTime` starts at 0.
The lamps of ltu-manager are in both halves of the status word in each of its runs, 0 and 220 V are on
either side of `IsVoltageNormal`, and with two units there is a unit before and one after
the one that is being read. Currents have the single value 0: nothing depends on them. What holds with more
units, phases and bits is proved.
Two processes of SoftWatch are the least with one that waits to be looked at while `SaveSystem` waits for the
other. `MAX_TRIES` is 3 in the code and 2 in the run, the least that has a try which is not the last (the run has half a
million states with 2); the theorems hold for any number. 6 seconds are the least dog that is slower than a walk
(1 + 2 * 2).
With `DeadSeconds = 0` a file is late in the first second in which its process does not write it, so the process
that `SaveSystem` has killed and that has started again can be late once more in the very next walk. That is what
takes a file to the bound of `NoticedInTime`, 7 = 1 + 2 * (2 * 2 - 1): it missed the walk that waited 2 seconds for
the other file, and the next one waits for the other file again before it comes to this one.
The TCP client of DlmsServer reads the whole file, which takes two portions and three blocks (8 bytes a block, 7 when it
is ciphered), an interval that ends one row before the file does, and the last seven rows, whose data is just one byte
too many for an ordinary reply; the uplink reads the whole file. `MaxBlock` (3) bounds the numbers clients ask for: a
read of three blocks asks for those after 1 and after 2, and 3 is the number after a read's end. The proofs have no such
bound on the blocks of a read.

Fairness. The polling loop cannot wait without a bound (`poll` with a timeout, `IPC_NOWAIT`), so
`WF(Loop)`; a reply on the line arrives or is lost, so `WF(Arrive \/ Lose)`. `SF` of `SendAlarm` per
sensor says that the encoder does not fail every time; room in the queue is an assumption inside the
property. `Resynchronises` assumes, in its premise, that from some time on replies are not late and
the process is not restarted, and concludes for a sensor whose frames keep coming. The threads of
power-manager never end and sleep for seconds, so `WF` for each; `SF` of the charging accesses with
`failed = FALSE` says that a file does not fail on every pass. Nothing is assumed of the voltage, the
source or the keys. Neither thread of ltu-manager ends or waits for the other, and an exchange ends with
the timeout of the port, so `WF` for each. `FanFollowsReading` assumes, in its premise, that from some time on
the fan thread's commands arrive and the process is not restarted; `LampsUpdated` the same of the
panel's commands. The watchdog's loop never waits for anything but its sleeps, so `WF(Watchdog)`; the hardware
and the delivery of a signal are fair. A process is not: `LateIsNoticed` allows it to hang or to do nothing for
ever; nor is feeding the dog: it may fail every time. The listener closes a socket whose send failed, and the TCP client of `ReadEnds` asks for the next block
as long as it has a part, whatever comes of each request: `WF(SendFails \/ GoesOn)`; that it does not begin anew for ever is in the property.
`IdleBatteryIsCut` is refuted without failing files, under the same fairness.

Only `FrameScan.cfg` switches the deadlock check off: the scan of a buffer ends.

## 4. Findings

* `sensor_late_reply`: a late reply becomes the next sensor's reading and is notified under its OBIS
  code, because the slave address is not compared (`Modbus.cpp:159-190`) and the input is not flushed
  before a request. `Alarm.cpp:92-93` says the code identifies the sensor.
* `power_idle`: `IsBatteryPowered` (`main.cpp:206-213`) asks for one byte and gets none, so the battery
  supply is never switched off. The same fact is proved in `NeverCutWhileReadable`.
* `ltu_lamps`: a lost panel command is never repeated. `ControlLTULEDs` (`main.cpp:210`) compares the status
  with its old value and nobody looks at the result of `ControlLEDGroup`; `main.cpp:206` says
  the call checks and updates all LEDs. In the run the `DisableAllLEDs` of the start is lost.
* `dlms_range`: the rows of a portion are `end - begin + 1` (`GXDLMSBase.cpp:961`) although the end is
  exclusive when the library asks for the next portion, and the unsigned difference wraps when the row index
  has passed the end, so a read that ends before the file does goes on to the end of the file.
  `GXDLMSBase.cpp:758` says the function returns data using start and end indexes.
* `frame_scan`: `AdParseRecvFrame` (`stack3762.cpp:247-271`) goes on after the frame it has found; each further
  pair of bytes 0x68 and 0x16 clears `gdwRecvFarmeInfo` again while the result stays 0. One byte 0x16 inside the
  frame is enough. `stack3762.cpp:233` says it finds a legal frame and parses it.

Proved instead of run: `NeverEnables`. With an int in the temperature item the comparison with 60 is
never true (`ltu-manager/main.cpp:148`, `Sensor_Temperature_Humidity.cpp:50-58`), so the fan thread never
switches the fan on; only the argument of `main` does, and `FanFollowsReading` says that the thread then switches it
off.

Seen while reading and not a property of a run: the three leakage sensors share one shared memory
item and use OBIS codes of wireless temperature sensors (`Sensor.cpp:21-23`); `SerialPort::open`
returns -2, which is true, after `fcntl` failed; a value of exactly the PDU's size less three loses its last byte
(`GXDLMS.cpp:781`, the exception that `ReadToEndIsComplete` names); while a read is unfinished a SET is
acknowledged and not executed (`GXDLMSLNCommandHandler.cpp:723`; `RowsPendingOnlyInTransaction` bounds when),
and a client that reads on is sent what the SET brought (`BlocksJoinUp` excepts such a read);
a process that enters disk sleep between `GetPidState` and `kill` has its file removed and is not looked at again
(`watch.cpp:162-170`); a file removed while its owner rewrites it leaves the owner unwatched until its
next sign of life.

## 5. Proofs

All theorems are about `Spec`, without fairness, for all constants that satisfy the named
assumptions of the module (`SensorAssumption`, `SentinelAssumption`, `PowerAssumption`,
`LtuAssumption`, `TemperatureAssumption`, `SoftWatchAssumption`, `DogIsSlow`, `DlmsAssumption`,
`RowsFillReply`): the configuration has the right shape, the sentinels are not replies, the status word has
room for the lamps, the temperature is a register, the dog is slower than a walk, and a full portion of rows does not fit into a reply.

**SensorManagerProofs.** `TypeCorrect` from `Types`, the conjunction of one part per group of
variables, with a lemma for each part saying which steps change it.

* `RejectedNeverUsedHolds`: the property is inductive given the types.
* `NoReplyServesTwoHolds`: the property says nothing about replies that are still on the line, so it is
  not inductive. `ServeInv` says where the watched reply is: at one place on the line, or with one
  handler (in its buffer, its registers or both), and nowhere before it is sent. A read moves it from
  the line to the one handler because it empties the tty queue.
* `ShmNeverRegressesHolds`: `OrderInv` says that what is older never follows what is newer along the way
  line, buffer, registers, shared memory: the line is FIFO and not older than anything taken from it;
  of each handler the buffer is not older than the registers (a failed write parses the buffer again), and
  these not older than an item that no other sensor writes.
* `AlarmMatchesShmHolds`: `StoredInv`, from the store to the end of the poll the item holds the
  registers. It needs no assumption that items have one owner.
* `ImplementsTelemetryHolds`: initial states map to initial states (`ReportsInit`) and each step to a step or a
  stutter (`ReportsStep`, with `ProcessHears`, `StorePublishes` and `AdvanceEndsTurn`). What `Fresh` asks of a
  reply is not visible in shared memory and the registers alone: `AcceptedIsFresh` takes it from `ServeInv` (the
  watched reply in the buffer is nobody else's) and `OrderInv` (the buffer is not older than registers and item).

**PowerManagerProofs.** `TypeCorrect`; `FullPassEndsOffHolds` and `StartsOnlyWhenLowHolds` from
`ChargeInv` (a thread on its way to start the charger has seen the battery low, so the pass is not a
full one); `StopsOnlyWhenHighHolds` from `StopInv` (a thread on its way to stop it has seen the battery high, and
a voltage above the limit is in `high` whenever it can be read); `KeyTimeNeverAheadHolds` from `KeyInv` (the driver's time is not ahead of the clock);
`NeverCutWhileReadable`, the defect of `IsBatteryPowered` as a theorem: on a device whose files work
the power thread never gets past its battery check.

**LtuManagerProofs.** `TypeCorrect` needs `Place` with it: `cursor` is a unit except while the terminal's
lamps are computed.

* `LampsTellWhatIsStoredHolds`: the property speaks of one moment, `LampInv` of the whole round: of the
  cells the round has passed (`Passed`), those that were not dropped are in shared memory as in the
  program's table (`PassedStored`). `BitInjective` says that no two cells have the same bit.
* `ShowsAnnouncedHolds`: initial states map to initial states and each step to `Announce`, `Reset`,
  `SendPanel`, `SendAlarm` or a stutter. The invariant it needs is `DarkStart` (the status is empty until
  the first round, so the two commands of the start are those of the empty status); the lemma that carries
  the panel command is `FrameKeepsLamps` (the two halves put together are the status).
* `LastCommandDecidesHolds`: an invariant of `StatusPanel` along the refinement.
* `NeverEnables`: every register reads as 0 (`TemperatureAssumption`), so `ControlFans` never goes to `EnableFan`.

**SoftWatchProofs.** `TypeCorrect` with `TriesInv`, the ranges of the counter that `SaveSystem` uses twice.

* `FedInTimeHolds`: unless a feeding has failed since the last one, `FeedInv` gives the walk a budget of `MAX_TRIES` seconds a file. What has passed since the
  feeding and what the files in `rest` may still take is within the budget of all files; `BudgetOfOne` moves
  one file's share from one to the other, from the cardinality of a set with an element removed.
* `NoticedInTimeHolds`: `NoticeInv` bounds not what has passed but what has passed and what is still ahead of the
  walk (`Ahead`) together: a file that the walk has yet to visit may have missed the walk before, one that was
  visited was in time then. It needs `WalkInv` (a walk visits a file once), and `AheadBound` from the cardinality of
  the files without the one that waits.
* `ResetOnlyForStuckHolds`: the dog cannot bite before `SaveSystem` has given up or a feeding has failed, by `FedInTime`
  and `DogIsSlow`; and `SaveSystem` gives up nobody but a process that is late and still in disk sleep (`GivenUp`, from
  `KillInv`), although it read the pid seconds before.
* `KilledOnlyWhenLateHolds`: the property speaks of a pending signal, `KillInv` of the whole way there: a file
  that says its running owner is late, and the pid that was read from it, belong to a late process; a process
  that ends takes its pid with it.

**DlmsServerProofs.** `Safety` proves `IInv`: the types, `RowsPendingOnlyInTransaction`, `RowsInv` (a row transaction
begins within its interval, what it has sent is not negative, and while rows are pending `index` is their distance
from the start) and `ReadInv` of each client. There is a lemma for each request that changes a read (`GetKeeps`,
`GetShortKeeps`, `SetKeeps`, `NextBlockKeeps`, `AarqKeeps`); `Keeps`, `NoProgress` and `Dropped` cover the others, and
`OneReader` says that a step is about the caller's read and at most disturbs the other's.

* `Blocks` and `CompleteReads` are both consequences of `ReadInv`, which says nothing of a disturbed read. Of an
  unfinished one it says that an open
  transaction is of that read, that the row counters are the transaction's, that the server's block number is not
  behind the client's, and that when the two agree the bytes sent (`Sent`) are the bytes the client has. A lost
  reply leaves the server ahead, and then no block number the client can send is the expected one. `DisturbKeeps` is
  why a step of the other channel needs no case of its own: a read that it leaves undisturbed has the same
  settings before and after.
* `NextBlockKeeps` and `NextBlockBounded` share `BlockStep`, what a next block does to the counters and to the transaction, and
  `WithBlockCases`: the client has nothing, a disturbed read, or one block more (`OneMore`). `IsRoom` is what they need to know of
  a reply's room, with ciphering or without.
* `CompleteIntervals` and `BoundedReads` hold of any interval, also where the end was missed (`dlms_range`).
  `Bounded` says of a finished read that it has between what was asked for and the rest of the file, and of an
  unfinished one that its blocks were full. It is kept with `IInv`, which ties what the server has sent to what the
  client has; `PortionReachesEnd` (from `RowsFillReply`) says that a portion that is the last because it fits into a
  reply does reach the end.
* `RowsPending`: part of the invariant.

**Frame3762Proofs.** These are about the operators and about `Spec` with hypotheses on the frames.

* `FnRoundTrip`, from the values of the eight weights (`OneBit`).
* `FrameRoundTrip`: `Sendable` is what the code calls a frame: bytes, a function from 1 to 248, six bytes of link and
  of each address, no relays, no longer than the buffer. `FrameIsPlaced` says where each field is in the
  sequence that `FormSendFrame` puts together, `FrameIsLegal` that the checks of `ParseRecvFrame` pass, and
  `PlacedIsParsed` that the parts it cuts out are those fields. The checksum needs no arithmetic: both sides
  sum the same bytes.
* `CleanFrameFound`: `Clean` says that the frames are sendable, without flag bytes between their own two, and
  that in what the line puts around them no start flag is followed by a tail flag. `ScanInv` says that the frame stands
  somewhere in the buffer and that the result is kept once the loops have passed it; `OwnTry` says that from the
  frame's beginning on the only pair of flags that is tried is the frame's own. It is the other side of the
  finding `frame_scan`, whose frame has a flag inside. `Clean` has instances (the frames of `MCFrame3762` with
  `<<>>` or `<<7>>` as data; noise with single flags).

Not proved, by the nature of the provers: liveness under fairness (`Resynchronises`, `DroppedAlarmIsRetried`,
`LowEventuallyCharging`, `FanFollowsReading`, `LateIsNoticed`, `ReadEnds`), which stays with TLC. The part of them that is
a safety property is proved: `NoticedInTime` bounds how long `LateIsNoticed` can take while the walk goes on,
`ReadsAreBounded` how many blocks `ReadEnds` can take. Frames with relays, because `FlattenSeq` is recursive, and that
a checksum is a byte, because `FoldLeft` is: what they compute is induction over data. Every other property of a
passing run is stated by a theorem. The refuted properties are, of course, only run.

## 6. Plan

1. `Device`: the composition of sensor-manager, ltu-manager and task-scheduler over shared memory and the
   uplink queue, with `Telemetry` in the place of sensor-manager.
2. `Frame3762`: `GDW3762_CheckRecvFrame` and its resynchronisation once something calls it.
3. `SoftWatch`: the program list, when `SetConfigFilePath` comes first.
4. `DlmsServer`: the image transfer once `IMAGEFILE` is set, and overlapping calls once there is a lock.

## 7. Not modelled

* Supervision of programs in watchdog-manager (`program_watch.cpp`, `config_file.cpp`): never reached, see SoftWatch.
* The image transfer: `IMAGEFILE` is set nowhere in the repository, and the first call of a transfer looks
  for a separator in it before anything else.
* DL/T 645-2007 (`stack645-07`): no build file names it and nothing calls it. Its retries depend on
  `serial_query` of `AsyncCom`, which is not in the repository: whether an acknowledgement that is late reaches
  the next query is decided there. The conversions are floating point.
* The `FormAfn` functions of stack3762, which only fill in fields; `GDW3762_CheckRecvFrame`, which has no caller.
* Logging, gflags and signal set-up, termios, the bytes of Modbus and DLMS frames.
* Vendored libraries: nlohmann json, Quectel_EC200, third_party, and of GuruxDLMS everything but the server's
  handling of associations, GET and SET. They are by far the largest part of the repository (about 140 of 145
  thousand lines), and none of this project's behaviour is in them.

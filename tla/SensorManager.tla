---------------------------- MODULE SensorManager ----------------------------
(***************************************************************************)
(* The sensor-manager process (src/src/sensor-manager): one loop polls a   *)
(* list of Modbus slaves over a single RS485 line, keeps the registers of  *)
(* each slave in its handler, publishes them in shared memory and notifies *)
(* the uplink process through a System V message queue.                    *)
(*                                                                         *)
(* The loop runs beside four actors it does not control: the slaves and    *)
(* the line (late, lost and damaged replies), the gprs process that takes  *)
(* messages off the queue, other producers of that queue, and whoever      *)
(* restarts the process (program-watch).                                   *)
(***************************************************************************)
EXTENDS Integers, Sequences

CONSTANTS
  SENSOR_NUM,     \* number of handlers, polled in the order 0, 1, ...
  Readings,       \* values a register can hold (uint16_t)
  OBIS,           \* alarm OBIS codes
  ShmItem,        \* items of the shared memory segment SHM_TERM_DATA
  StatusSensors,  \* the handlers of class StatusSensor
  alarmValue,     \* g_sensorConfig[s].alarmValue
  alarmOBIS,      \* g_sensorConfig[s].alarmOBIS
  shmAddr,        \* g_sensorConfig[s].shmAddr
  Noise,          \* bytes the frame check rejects
  Foreign,        \* a message some other process puts in the uplink queue
  measures,       \* the readings that the slave of each sensor can report
  Watching,       \* some poll is the watched one
  MaxLate,        \* bound: replies on the line, travelling or unread
  QueueCap        \* msg_qbytes of the uplink queue, in messages

Sensor == 0 .. SENSOR_NUM - 1

(* Auxiliary: one arbitrary poll is watched.  A poll is "before" (0), "the *)
(* watched one" (1) or "after" (2), and a reply carries that of the poll   *)
(* it answers.  No guard reads it.                                         *)
Age == 0 .. 2

(* What the program uses of a reply is its first register.                 *)
Reply == [val : Readings, age : Age]
Frame == Reply \cup {Noise}

(* A buffer that is empty or holds one x.                                  *)
AtMostOne(S) == {<<>>} \cup {<<x>> : x \in S}

Alarm   == [obis : OBIS, sensor : Sensor, reading : Reply]
Message == Alarm \cup {Foreign}

ASSUME SensorAssumption ==
  /\ SENSOR_NUM \in Nat \ {0}
  /\ Readings \subseteq Nat
  /\ StatusSensors \subseteq Sensor
  /\ alarmValue \in [Sensor -> Nat]
  /\ alarmOBIS \in [Sensor -> OBIS]
  /\ shmAddr \in [Sensor -> ShmItem]
  /\ measures \in [Sensor -> SUBSET Readings]
  /\ Watching \in BOOLEAN
  /\ MaxLate \in Nat \ {0} /\ QueueCap \in Nat \ {0}

ASSUME SentinelAssumption ==
  /\ Noise \notin Reply
  /\ Foreign \notin Alarm

VARIABLES
  pc,               \* the step of ProcessSensorData the loop is at
  cursor,           \* main's loop index i, the sensor being polled
  m_receiveBuffer,  \* of each handler: nothing, one frame, or Noise
  m_registers,      \* of each handler: the parsed registers
  inflight,         \* replies travelling on the line, oldest first
  unread,           \* frames in the tty input queue
  shm,              \* the shared memory items, empty before the first store
  queue,            \* MSG_SERVICE_TO_GPRS
  stored,           \* auxiliary: SetItem of this poll succeeded
  age               \* auxiliary: the current poll against the watched one

loopVars == <<pc, cursor, m_receiveBuffer, m_registers, stored, age>>
lineVars == <<inflight, unread>>
vars == <<loopVars, lineVars, shm, queue>>

TypeOK ==
  /\ pc \in {"send", "receive", "process", "store", "alarm"}
  /\ cursor \in Sensor
  /\ m_receiveBuffer \in [Sensor -> AtMostOne(Frame)]
  /\ m_registers \in [Sensor -> AtMostOne(Reply)]
  /\ inflight \in Seq(Reply)
  /\ unread \in Seq(Frame)
  /\ Len(inflight) + Len(unread) <= MaxLate
  /\ shm \in [ShmItem -> AtMostOne(Reply)]
  /\ queue \in Seq(Message) /\ Len(queue) <= QueueCap
  /\ stored \in BOOLEAN
  /\ age \in Age

------------------------------------------------------------------------------
(* Helpers.                                                                *)

NextAge(a) == IF a = 0 THEN IF Watching THEN {0, 1} ELSE {0} ELSE {2}

(* Variant: the last sensor is never polled.                               *)
NextSensorButLast == IF cursor + 2 < SENSOR_NUM THEN cursor + 1 ELSE 0

NextSensor == IF cursor + 1 < SENSOR_NUM THEN cursor + 1 ELSE 0

(* SerialPort::receive returns every byte that is queued: two replies that *)
(* were both waiting come back as one buffer, whose size and CRC do not    *)
(* match a response any more.                                              *)
ReadsOnlyRaw(frames) == frames
ReadAll(frames) == IF Len(frames) = 1 THEN frames ELSE <<Noise>>

(* parseReadHoldingRegistersResponse: the length, the CRC, the function    *)
(* code and the byte count are checked.  The slave address and the number  *)
(* of registers asked for are not, so any well-formed reply is accepted.   *)
Accepted(buffer) == buffer # <<>> /\ buffer # <<Noise>>

(* ProcessData: an empty buffer leaves the registers of an earlier poll in *)
(* place, a rejected frame clears them.                                    *)
KeepsOldRegisters(old, buffer) == IF Accepted(buffer) THEN buffer ELSE old
Registers(old, buffer) ==
  IF buffer = <<>> THEN old ELSE IF Accepted(buffer) THEN buffer ELSE <<>>

(* The upper 32 bits of the configured address name the item.              *)
ItemOfFirst(s) == shmAddr[0]
Item(s) == shmAddr[s]

(* The condition of the three SendAlarm methods.                           *)
Triggers(s, val) ==
  IF s \in StatusSensors THEN val = alarmValue[s] ELSE val > alarmValue[s]

Triggered(s) == m_registers[s] # <<>> /\ Triggers(s, m_registers[s][1].val)

------------------------------------------------------------------------------
(* The static SensorAlarm opens the queue, main opens the port and ignores *)
(* whether that worked, and the SensorManager creates the handlers.        *)

NewHandlers == [s \in Sensor |-> <<>>]

Init ==
  /\ pc = "send" /\ cursor = 0
  /\ m_receiveBuffer = NewHandlers /\ m_registers = NewHandlers
  /\ stored = FALSE
  /\ inflight = <<>> /\ unread = <<>>
  /\ shm = [a \in ShmItem |-> <<>>]
  /\ queue = <<>>
  /\ age \in NextAge(0)

(* ProcessSensorData, first half: BuildFrame and the write.  The slave     *)
(* answers or does not.                                                    *)
Send ==
  /\ pc = "send"
  /\ \E answer \in AtMostOne([val : measures[cursor], age : {age}]) :
       /\ Len(inflight) + Len(unread) + Len(answer) <= MaxLate
       /\ inflight' = inflight \o answer
  /\ pc' = "receive"
  /\ UNCHANGED <<cursor, m_receiveBuffer, m_registers, unread, shm, queue,
                 stored, age>>

(* The write fails, as every write does while the port is not open.        *)
(* SendAndReceive returns before it touches m_receiveBuffer, so the frame  *)
(* of this sensor's previous poll is still there for ProcessData.          *)
SendFails ==
  /\ pc = "send"
  /\ pc' = "process"
  /\ UNCHANGED <<cursor, m_receiveBuffer, m_registers, inflight, unread, shm,
                 queue, stored, age>>

(* Variants of Receive: one that leaves what it read in the tty queue, and *)
(* one that takes a single frame.                                          *)
ReceivePeeks ==
  /\ pc = "receive" /\ unread # <<>>
  /\ m_receiveBuffer' = [m_receiveBuffer EXCEPT ![cursor] = ReadAll(unread)]
  /\ pc' = "process"
  /\ UNCHANGED <<cursor, m_registers, lineVars, shm, queue, stored, age>>

ReceiveOneFrame ==
  /\ pc = "receive" /\ unread # <<>>
  /\ m_receiveBuffer' = [m_receiveBuffer EXCEPT ![cursor] = <<Head(unread)>>]
  /\ unread' = Tail(unread)
  /\ pc' = "process"
  /\ UNCHANGED <<cursor, m_registers, inflight, shm, queue, stored, age>>

(* poll() finds input and read() takes all of it, which may leave the      *)
(* reply to this poll on its way.                                          *)
Receive ==
  /\ pc = "receive"
  /\ unread # <<>>
  /\ m_receiveBuffer' = [m_receiveBuffer EXCEPT ![cursor] = ReadAll(unread)]
  /\ unread' = <<>>
  /\ pc' = "process"
  /\ UNCHANGED <<cursor, m_registers, inflight, shm, queue, stored, age>>

(* poll() times out after 500 ms, or the device is gone and read() returns *)
(* nothing: the buffer is emptied and a reply that is still travelling     *)
(* stays on the line.                                                      *)
ReceiveTimeout ==
  /\ pc = "receive"
  /\ unread = <<>>
  /\ m_receiveBuffer' = [m_receiveBuffer EXCEPT ![cursor] = <<>>]
  /\ pc' = "process"
  /\ UNCHANGED <<cursor, m_registers, inflight, unread, shm, queue, stored,
                 age>>

ProcessData ==
  /\ pc = "process"
  /\ m_registers' = [m_registers EXCEPT ![cursor] =
                        Registers(@, m_receiveBuffer[cursor])]
  /\ pc' = "store"
  /\ UNCHANGED <<cursor, m_receiveBuffer, inflight, unread, shm, queue,
                 stored, age>>

(* Variant of StoreData: an item that has a value keeps it.                *)
StoreOnce ==
  /\ pc = "store" /\ m_registers[cursor] # <<>>
  /\ shm' = [shm EXCEPT ![Item(cursor)] =
                IF @ = <<>> THEN m_registers[cursor] ELSE @]
  /\ stored' = TRUE
  /\ pc' = "alarm"
  /\ UNCHANGED <<cursor, m_receiveBuffer, m_registers, lineVars, queue, age>>

(* CShmIO::SetItem may fail; its result is dropped.                        *)
StoreData ==
  /\ pc = "store"
  /\ \/ /\ m_registers[cursor] # <<>>
        /\ shm' = [shm EXCEPT ![Item(cursor)] = m_registers[cursor]]
        /\ stored' = TRUE
     \/ /\ shm' = shm
        /\ stored' = FALSE
  /\ pc' = "alarm"
  /\ UNCHANGED <<cursor, m_receiveBuffer, m_registers, inflight, unread,
                 queue, age>>

(* After SendAlarm main sleeps and goes on to the next sensor.             *)
Advance ==
  /\ pc = "alarm"
  /\ pc' = "send"
  /\ cursor' = NextSensor
  /\ age' \in NextAge(age)
  /\ stored' = FALSE
  /\ UNCHANGED <<m_receiveBuffer, m_registers, inflight, unread, shm>>

NoAlarm ==
  /\ ~Triggered(cursor)
  /\ queue' = queue
  /\ Advance

Notification == [obis    |-> alarmOBIS[cursor],
                 sensor  |-> cursor,
                 reading |-> m_registers[cursor][1]]

(* Variant of SendAlarm: only what was stored is notified.                 *)
SendStoredAlarm ==
  /\ Triggered(cursor) /\ stored /\ Len(queue) < QueueCap
  /\ queue' = Append(queue, Notification)
  /\ Advance

(* SendSensorEventNotification builds one notification and msgsnd takes it.*)
SendAlarm ==
  /\ Triggered(cursor)
  /\ Len(queue) < QueueCap
  /\ queue' = Append(queue, Notification)
  /\ Advance

(* The message cannot be generated, the queue is full (IPC_NOWAIT) or was  *)
(* never opened: the error code is dropped and so is the alarm.            *)
DropAlarm ==
  /\ Triggered(cursor)
  /\ queue' = queue
  /\ Advance

------------------------------------------------------------------------------
(* The environment.                                                        *)

(* A reply reaches the tty queue, intact or damaged.                       *)
Arrive ==
  /\ inflight # <<>>
  /\ \E frame \in {Head(inflight), Noise} : unread' = Append(unread, frame)
  /\ inflight' = Tail(inflight)
  /\ UNCHANGED <<loopVars, shm, queue>>

Lose ==
  /\ inflight # <<>>
  /\ inflight' = Tail(inflight)
  /\ UNCHANGED <<loopVars, unread, shm, queue>>

(* The gprs process takes a message.                                       *)
UplinkTakes ==
  /\ queue # <<>>
  /\ queue' = Tail(queue)
  /\ UNCHANGED <<loopVars, lineVars, shm>>

(* task-scheduler answers a DLMS request through the same queue.           *)
OtherProducer ==
  /\ Len(queue) < QueueCap
  /\ queue' = Append(queue, Foreign)
  /\ UNCHANGED <<loopVars, lineVars, shm>>

(* The process dies and is started again.  open() flushes the tty queue,   *)
(* but a reply still on its way arrives after that.  Shared memory and the *)
(* message queue outlive the process.                                      *)
Restart ==
  /\ pc' = "send" /\ cursor' = 0
  /\ m_receiveBuffer' = NewHandlers /\ m_registers' = NewHandlers
  /\ stored' = FALSE
  /\ unread' = <<>>
  /\ age' \in NextAge(age)
  /\ UNCHANGED <<inflight, shm, queue>>

------------------------------------------------------------------------------
Loop ==
  \/ Send \/ SendFails
  \/ Receive \/ ReceiveTimeout
  \/ ProcessData
  \/ StoreData
  \/ NoAlarm \/ SendAlarm \/ DropAlarm

Environment ==
  \/ Arrive \/ Lose
  \/ UplinkTakes \/ OtherProducer
  \/ Restart

Next == Loop \/ Environment

Spec == Init /\ [][Next]_vars

(* The loop never waits without a bound: poll() has a timeout, msgsnd does *)
(* not block and sleep() ends.  A reply on the line arrives or is lost.    *)
(* SendAlarm is strongly fair: a notification that is due again and again, *)
(* with room in the queue, is not failed by the encoder every time.        *)
FairSpec ==
  /\ Spec
  /\ WF_vars(Loop)
  /\ WF_vars(Arrive \/ Lose)
  /\ \A s \in Sensor : SF_vars(cursor = s /\ SendAlarm)

------------------------------------------------------------------------------
(* Properties.                                                             *)

(* A frame that the Modbus check rejected is never published: once the     *)
(* buffer of a poll failed the check, the handler has no registers, so     *)
(* StoreData and SendAlarm, which run whatever ProcessData returned, do    *)
(* nothing (the resize(0) before the parse in the ProcessData methods).    *)
RejectedNeverUsed ==
  /\ pc \in {"store", "alarm"}
  /\ m_receiveBuffer[cursor] = <<Noise>>
  => m_registers[cursor] = <<>>

(* One reply never ends up in the registers of two sensors: the read       *)
(* drains the tty queue and every handler has a buffer of its own, so a    *)
(* reply that came too late is taken once, by whichever sensor is polled   *)
(* then, and a failed write reprocesses only the handler's own frame.      *)
NoReplyServesTwo ==
  \A s, t \in Sensor :
    /\ m_registers[s] # <<>> /\ m_registers[t] # <<>>
    /\ m_registers[s][1].age = 1 /\ m_registers[t][1].age = 1
    => s = t

OneWriter(a) ==
  \A s, t \in Sensor : shmAddr[s] = a /\ shmAddr[t] = a => s = t

(* A shared memory item that one sensor owns never goes back to an older   *)
(* reply, whatever is late, lost, repeated after a timeout or forgotten by *)
(* a restart.  It does not hold of an item that several sensors share.     *)
ShmNeverRegresses ==
  [][\A a \in ShmItem :
       OneWriter(a) /\ shm[a] # <<>>
         => shm'[a] # <<>> /\ shm'[a][1].age >= shm[a][1].age]_shm

(* What the uplink is told is what the local readers see: when a           *)
(* notification is queued in a poll whose store succeeded, the sensor's    *)
(* shared memory item holds the very reading that the notification         *)
(* carries (ProcessSensorData stores before it notifies).                  *)
AlarmMatchesShm ==
  [][Len(queue') > Len(queue) /\ stored /\ queue'[Len(queue')] # Foreign
       => shm[shmAddr[cursor]] = <<queue'[Len(queue')].reading>>]_queue

(* The loop does what Telemetry promises to the readers of shared memory   *)
(* and of the queue: seen from there every reply is heard by one sensor    *)
(* and in order, what is published and notified is what the sensor holds   *)
(* at the end of its turn, and a late, lost or damaged reply, a failed     *)
(* write or a timeout is a turn in which nothing, or nothing new, is heard.*)
Reports == INSTANCE Telemetry WITH
  Count <- SENSOR_NUM, Replies <- Reply, item <- shmAddr, code <- alarmOBIS,
  alarming <- [s \in Sensor |-> {val \in Readings : Triggers(s, val)}],
  Items <- ShmItem, Other <- Foreign, Cap <- QueueCap,
  turn <- cursor, held <- m_registers, published <- stored, shown <- shm

ImplementsTelemetry == Reports!Spec

OwnReading(s) == m_registers[s] = <<>> \/ m_registers[s][1].val \in measures[s]
Heard(s) == pc = "receive" /\ cursor = s /\ unread # <<>>

(* The wait for a reply ends with no reply still on its way.               *)
InTime == pc = "receive" /\ pc' = "process" => inflight = <<>>

(* Replies that shifted to the next sensor do not stay shifted.  Once      *)
(* replies come in time and the process keeps running, a sensor for which  *)
(* frames keep coming in ends up with its own readings: a stale frame and  *)
(* the fresh one are read together, rejected together, and the tty queue   *)
(* is empty for the next poll.                                             *)
Resynchronises ==
  \A s \in Sensor :
    <>[][InTime /\ ~Restart]_vars /\ []<>Heard(s) => <>[]OwnReading(s)

Room(s) == pc = "alarm" /\ cursor = s /\ Len(queue) < QueueCap
Queued(s) == \E i \in 1 .. Len(queue) : queue[i] # Foreign /\ queue[i].sensor = s

(* An alarm that was dropped because the queue was full is sent later: it  *)
(* is raised again on every round while the registers stay in the alarm    *)
(* range, so if the queue has room in some of these rounds it gets in.     *)
DroppedAlarmIsRetried ==
  \A s \in Sensor :
    []<>Room(s)
      => ((pc = "alarm" /\ cursor = s /\ Triggered(s))
            ~> (Queued(s) \/ ~Triggered(s)))

(* Alarm.cpp:92 says the OBIS code identifies the sensor the notification  *)
(* is about, and Alarm.cpp:93 that the value is what that sensor detected. *)
ObisNamesTheSensor ==
  \A i \in 1 .. Len(queue) :
    queue[i] # Foreign =>
      \A s \in Sensor :
        alarmOBIS[s] = queue[i].obis => queue[i].reading.val \in measures[s]
==============================================================================

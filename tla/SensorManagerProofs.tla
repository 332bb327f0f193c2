-------------------------- MODULE SensorManagerProofs --------------------------
(***************************************************************************)
(* Proofs about SensorManager, for any number of sensors, any table of     *)
(* addresses, limits and OBIS codes, any queue and any number of late      *)
(* replies.                                                                *)
(***************************************************************************)
EXTENDS SensorManager, TLAPS

(***************************************************************************)
(* The helpers return values of their types.                               *)
(***************************************************************************)

(* A buffer is empty or the one-element sequence of its element.           *)
LEMMA AtMostOneElement ==
  ASSUME NEW S, NEW b \in AtMostOne(S), b # <<>>
  PROVE  b[1] \in S /\ b = <<b[1]>>
BY DEF AtMostOne

LEMMA EmptyIsAtMostOne == ASSUME NEW S PROVE <<>> \in AtMostOne(S)
BY DEF AtMostOne

LEMMA OneIsAtMostOne == ASSUME NEW S, NEW x \in S PROVE <<x>> \in AtMostOne(S)
BY DEF AtMostOne

(* An empty buffer and a rejected one are told apart from a reply.         *)
LEMMA AcceptedIsReply ==
  ASSUME NEW b \in AtMostOne(Frame), Accepted(b)
  PROVE  b[1] \in Reply /\ b = <<b[1]>>
<1>1. b[1] \in Frame /\ b = <<b[1]>>
  BY AtMostOneElement DEF Accepted
<1>2. QED
  BY <1>1 DEF Accepted, Frame

LEMMA ReplyIsAccepted ==
  ASSUME NEW b \in AtMostOne(Reply), b # <<>>
  PROVE  Accepted(b)
<1>1. b[1] \in Reply /\ b = <<b[1]>>
  BY AtMostOneElement
<1>2. b # <<Noise>>
  BY <1>1, SentinelAssumption
<1>3. QED
  BY <1>2 DEF Accepted

LEMMA ReadAllType ==
  ASSUME NEW frames \in Seq(Frame), frames # <<>>
  PROVE  /\ ReadAll(frames) \in AtMostOne(Frame)
         /\ Accepted(ReadAll(frames))
              => Len(frames) = 1 /\ ReadAll(frames)[1] = frames[1] /\ frames[1] # Noise
<1>1. CASE Len(frames) = 1
  <2>1. frames = <<frames[1]>> /\ frames[1] \in Frame
    BY <1>1
  <2>2. frames \in AtMostOne(Frame)
    BY <2>1, OneIsAtMostOne
  <2>3. QED
    BY <1>1, <2>1, <2>2 DEF ReadAll, Accepted
<1>2. CASE Len(frames) # 1
  <2>1. ReadAll(frames) = <<Noise>>
    BY <1>2 DEF ReadAll
  <2>2. <<Noise>> \in AtMostOne(Frame)
    BY OneIsAtMostOne DEF Frame
  <2>3. QED
    BY <2>1, <2>2 DEF Accepted
<1>3. QED
  BY <1>1, <1>2

LEMMA RegistersType ==
  ASSUME NEW old \in AtMostOne(Reply), NEW buffer \in AtMostOne(Frame)
  PROVE  /\ Registers(old, buffer) \in AtMostOne(Reply)
         /\ Registers(old, buffer) # <<>>
              => \/ buffer = <<>> /\ Registers(old, buffer) = old
                 \/ Accepted(buffer) /\ Registers(old, buffer) = buffer
         /\ buffer = <<Noise>> => Registers(old, buffer) = <<>>
<1>1. CASE buffer = <<>>
  BY <1>1 DEF Registers
<1>2. CASE Accepted(buffer)
  <2>1. buffer \in AtMostOne(Reply) /\ Registers(old, buffer) = buffer
    BY <1>2, AcceptedIsReply, OneIsAtMostOne DEF Registers, Accepted
  <2>2. QED
    BY <1>2, <2>1 DEF Accepted
<1>3. CASE buffer # <<>> /\ ~Accepted(buffer)
  BY <1>3, EmptyIsAtMostOne DEF Registers
<1>4. QED
  BY <1>1, <1>2, <1>3

LEMMA NextSensorType == cursor \in Sensor => NextSensor \in Sensor
BY SensorAssumption DEF Sensor, NextSensor

LEMMA NextAgeType ==
  ASSUME NEW a \in Age, NEW b \in NextAge(a)
  PROVE  b \in Age /\ a <= b /\ (b = 1 => a = 0)
BY DEF Age, NextAge

LEMMA NewHandlersType ==
  ASSUME NEW S PROVE NewHandlers \in [Sensor -> AtMostOne(S)]
BY EmptyIsAtMostOne DEF NewHandlers

(***************************************************************************)
(* Types, one part for each group of variables.                            *)
(***************************************************************************)
LoopType ==
  /\ pc \in {"send", "receive", "process", "store", "alarm"}
  /\ cursor \in Sensor
  /\ stored \in BOOLEAN
  /\ age \in Age

HandlerType ==
  /\ m_receiveBuffer \in [Sensor -> AtMostOne(Frame)]
  /\ m_registers \in [Sensor -> AtMostOne(Reply)]

LineType ==
  /\ inflight \in Seq(Reply)
  /\ unread \in Seq(Frame)
  /\ Len(inflight) + Len(unread) <= MaxLate

ShmType == shm \in [ShmItem -> AtMostOne(Reply)]

QueueType == queue \in Seq(Message) /\ Len(queue) <= QueueCap

Types == LoopType /\ HandlerType /\ LineType /\ ShmType /\ QueueType

LEMMA InitTypes == Init => Types
<1> SUFFICES ASSUME Init PROVE Types
  OBVIOUS
<1>1. LoopType
  <2>1. 0 \in Sensor /\ 0 \in Age
    BY SensorAssumption DEF Sensor, Age
  <2>2. QED
    BY <2>1, NextAgeType DEF Init, LoopType
<1>2. HandlerType
  BY NewHandlersType DEF Init, HandlerType
<1>3. LineType
  BY SensorAssumption DEF Init, LineType
<1>4. ShmType
  BY EmptyIsAtMostOne DEF Init, ShmType
<1>5. QueueType
  BY SensorAssumption DEF Init, QueueType
<1>6. QED
  BY <1>1, <1>2, <1>3, <1>4, <1>5 DEF Types

(* The loop's control variables.                                           *)
LEMMA LoopTypeStep == LoopType /\ [Next]_vars => LoopType'
<1> SUFFICES ASSUME LoopType, [Next]_vars PROVE LoopType'
  OBVIOUS
<1> USE DEF LoopType
<1>1. CASE Send
  BY <1>1 DEF Send
<1>2. CASE SendFails
  BY <1>2 DEF SendFails
<1>3. CASE Receive
  BY <1>3 DEF Receive
<1>4. CASE ReceiveTimeout
  BY <1>4 DEF ReceiveTimeout
<1>5. CASE ProcessData
  BY <1>5 DEF ProcessData
<1>6. CASE StoreData
  <2>1. stored' \in BOOLEAN
    BY <1>6, Zenon DEF StoreData
  <2>2. QED
    BY <1>6, <2>1 DEF StoreData
<1>7. CASE Advance
  BY <1>7, NextSensorType, NextAgeType DEF Advance
<1>8. CASE Arrive \/ Lose \/ UplinkTakes \/ OtherProducer
  BY <1>8 DEF Arrive, Lose, UplinkTakes, OtherProducer, loopVars
<1>9. CASE Restart
  <2>1. 0 \in Sensor
    BY SensorAssumption DEF Sensor
  <2>2. QED
    BY <1>9, <2>1, NextAgeType DEF Restart
<1>10. CASE UNCHANGED vars
  BY <1>10 DEF vars, loopVars
<1>11. QED
  BY <1>1, <1>2, <1>3, <1>4, <1>5, <1>6, <1>7, <1>8, <1>9, <1>10
  DEF Next, Loop, Environment, NoAlarm, SendAlarm, DropAlarm

(* Which steps change the handlers.                                        *)
LEMMA HandlerSteps ==
  ASSUME [Next]_vars
  PROVE  \/ Receive \/ ReceiveTimeout \/ ProcessData \/ Restart
         \/ UNCHANGED <<m_receiveBuffer, m_registers>>
BY DEF Next, Loop, Environment, Send, SendFails, StoreData, NoAlarm, SendAlarm,
   DropAlarm, Advance, Arrive, Lose, UplinkTakes, OtherProducer, vars, loopVars

LEMMA HandlerTypeStep ==
  LoopType /\ HandlerType /\ LineType /\ [Next]_vars => HandlerType'
<1> SUFFICES ASSUME LoopType, HandlerType, LineType, [Next]_vars
             PROVE  HandlerType'
  OBVIOUS
<1> USE DEF HandlerType
<1>1. CASE Receive
  BY <1>1, ReadAllType DEF Receive, LoopType, LineType
<1>2. CASE ReceiveTimeout
  BY <1>2, EmptyIsAtMostOne DEF ReceiveTimeout, LoopType
<1>3. CASE ProcessData
  BY <1>3, RegistersType DEF ProcessData, LoopType
<1>4. CASE Restart
  BY <1>4, NewHandlersType DEF Restart
<1>5. CASE UNCHANGED <<m_receiveBuffer, m_registers>>
  BY <1>5
<1>6. QED
  BY <1>1, <1>2, <1>3, <1>4, <1>5, HandlerSteps

(* Which steps change the line.                                            *)
LEMMA LineSteps ==
  ASSUME [Next]_vars
  PROVE  \/ Send \/ Receive \/ Arrive \/ Lose \/ Restart
         \/ UNCHANGED <<inflight, unread>>
BY DEF Next, Loop, Environment, SendFails, ReceiveTimeout, ProcessData,
   StoreData, NoAlarm, SendAlarm, DropAlarm, Advance, UplinkTakes,
   OtherProducer, vars, lineVars

(* What Send puts on the line.                                             *)
LEMMA SendLine ==
  ASSUME LoopType, LineType, Send
  PROVE  /\ inflight' \in Seq(Reply) /\ unread' = unread
         /\ Len(inflight') + Len(unread) <= MaxLate
         /\ \/ inflight' = inflight
            \/ /\ Len(inflight') = Len(inflight) + 1
               /\ \A i \in 1 .. Len(inflight) : inflight'[i] = inflight[i]
               /\ inflight'[Len(inflight) + 1].age = age
<1> USE DEF LineType
<1>1. PICK answer \in AtMostOne([val : measures[cursor], age : {age}]) :
        /\ Len(inflight) + Len(unread) + Len(answer) <= MaxLate
        /\ inflight' = inflight \o answer
  BY DEF Send
<1>2. unread' = unread
  BY DEF Send
<1>3. CASE answer = <<>>
  <2>1. inflight' = inflight
    BY <1>1, <1>3
  <2>2. QED
    BY <1>1, <1>2, <1>3, <2>1
<1>4. CASE answer # <<>>
  <2>1. answer[1] \in [val : measures[cursor], age : {age}] /\ answer = <<answer[1]>>
    BY <1>4, AtMostOneElement
  <2>2. answer[1] \in Reply /\ answer[1].age = age
    <3>1. measures[cursor] \subseteq Readings
      BY SensorAssumption DEF LoopType
    <3>2. QED
      BY <2>1, <3>1 DEF Reply, LoopType
  <2>3. PICK x \in Reply : answer = <<x>> /\ x.age = age
    BY <2>1, <2>2
  <2>4. Len(answer) = 1
    BY <2>3
  <2>5. inflight' = inflight \o <<x>>
    BY <1>1, <2>3
  <2>6. /\ inflight' \in Seq(Reply) /\ Len(inflight') = Len(inflight) + 1
        /\ \A i \in 1 .. Len(inflight) : inflight'[i] = inflight[i]
        /\ inflight'[Len(inflight) + 1] = x
    BY <2>3, <2>5
  <2>7. QED
    BY <1>1, <1>2, <2>3, <2>4, <2>6
<1>5. QED
  BY <1>3, <1>4

(* What Arrive does to the line.                                           *)
LEMMA ArriveLine ==
  ASSUME LineType, Arrive
  PROVE  /\ inflight # <<>> /\ inflight' = Tail(inflight)
         /\ \E frame \in {Head(inflight), Noise} : unread' = Append(unread, frame)
         /\ LineType'
<1>1. /\ inflight # <<>> /\ inflight' = Tail(inflight)
      /\ \E frame \in {Head(inflight), Noise} : unread' = Append(unread, frame)
  BY DEF Arrive
<1>2. PICK frame \in {Head(inflight), Noise} : unread' = Append(unread, frame)
  BY <1>1
<1>3. frame \in Frame
  BY <1>1, <1>2 DEF LineType, Frame
<1>4. QED
  BY <1>1, <1>2, <1>3, SensorAssumption DEF LineType

LEMMA LineTypeStep == LoopType /\ LineType /\ [Next]_vars => LineType'
<1> SUFFICES ASSUME LoopType, LineType, [Next]_vars PROVE LineType'
  OBVIOUS
<1>1. CASE Send
  BY <1>1, SendLine DEF LineType
<1>2. CASE Receive
  BY <1>2, SensorAssumption DEF Receive, LineType
<1>3. CASE Arrive
  BY <1>3, ArriveLine
<1>4. CASE Lose
  BY <1>4, SensorAssumption DEF Lose, LineType
<1>5. CASE Restart
  BY <1>5, SensorAssumption DEF Restart, LineType
<1>6. CASE UNCHANGED <<inflight, unread>>
  BY <1>6 DEF LineType
<1>7. QED
  BY <1>1, <1>2, <1>3, <1>4, <1>5, <1>6, LineSteps

(* Only StoreData changes shared memory.                                   *)
LEMMA ShmSteps == ASSUME [Next]_vars PROVE StoreData \/ UNCHANGED shm
BY DEF Next, Loop, Environment, Send, SendFails, Receive, ReceiveTimeout,
   ProcessData, NoAlarm, SendAlarm, DropAlarm, Advance, Arrive, Lose,
   UplinkTakes, OtherProducer, Restart, vars

LEMMA ShmTypeStep ==
  LoopType /\ HandlerType /\ ShmType /\ [Next]_vars => ShmType'
BY ShmSteps DEF StoreData, LoopType, HandlerType, ShmType

(* Which steps change the queue.                                           *)
LEMMA QueueSteps ==
  ASSUME [Next]_vars
  PROVE  SendAlarm \/ UplinkTakes \/ OtherProducer \/ UNCHANGED queue
BY DEF Next, Loop, Environment, Send, SendFails, Receive, ReceiveTimeout,
   ProcessData, StoreData, NoAlarm, DropAlarm, Arrive, Lose, Restart, vars

LEMMA NotificationType ==
  ASSUME LoopType, HandlerType, Triggered(cursor)
  PROVE  Notification \in Alarm /\ Notification # Foreign
<1>1. m_registers[cursor] \in AtMostOne(Reply) /\ m_registers[cursor] # <<>>
  BY DEF LoopType, HandlerType, Triggered
<1>2. m_registers[cursor][1] \in Reply
  BY <1>1, AtMostOneElement
<1>3. alarmOBIS[cursor] \in OBIS
  BY SensorAssumption DEF LoopType
<1>4. Notification \in Alarm
  BY <1>2, <1>3 DEF Notification, Alarm, LoopType
<1>5. QED
  BY <1>4, SentinelAssumption

LEMMA QueueTypeStep ==
  LoopType /\ HandlerType /\ QueueType /\ [Next]_vars => QueueType'
<1> SUFFICES ASSUME LoopType, HandlerType, QueueType, [Next]_vars
             PROVE  QueueType'
  OBVIOUS
<1> USE SensorAssumption DEF QueueType
<1>1. CASE SendAlarm
  BY <1>1, NotificationType DEF SendAlarm, Message
<1>2. CASE UplinkTakes
  BY <1>2 DEF UplinkTakes
<1>3. CASE OtherProducer
  BY <1>3 DEF OtherProducer, Message
<1>4. CASE UNCHANGED queue
  BY <1>4
<1>5. QED
  BY <1>1, <1>2, <1>3, <1>4, QueueSteps

LEMMA TypesStep == Types /\ [Next]_vars => Types'
BY LoopTypeStep, HandlerTypeStep, LineTypeStep, ShmTypeStep, QueueTypeStep
DEF Types

LEMMA TypesCorrect == Spec => []Types
BY InitTypes, TypesStep, PTL DEF Spec

(* Every variable keeps its type; in particular no more than MaxLate       *)
(* replies are on the line and the queue keeps to its capacity.            *)
THEOREM TypeCorrect == Spec => []TypeOK
<1>1. Types => TypeOK
  BY DEF Types, LoopType, HandlerType, LineType, ShmType, QueueType, TypeOK
<1>2. QED
  BY <1>1, TypesCorrect, PTL

(***************************************************************************)
(* Rejected frames.                                                        *)
(***************************************************************************)

(* A frame that failed the Modbus check is never stored or notified, for   *)
(* any sensors and any line: ProcessData is the only way from a buffer to  *)
(* the registers, and it leaves none after a rejected frame.               *)
THEOREM RejectedNeverUsedHolds == Spec => []RejectedNeverUsed
<1>1. Init => RejectedNeverUsed
  BY DEF Init, RejectedNeverUsed
<1>2. Types /\ RejectedNeverUsed /\ [Next]_vars => RejectedNeverUsed'
  <2> SUFFICES ASSUME LoopType, HandlerType, RejectedNeverUsed, [Next]_vars
               PROVE  RejectedNeverUsed'
    BY DEF Types
  <2> USE DEF RejectedNeverUsed
  <2>1. CASE Send \/ SendFails \/ Receive \/ ReceiveTimeout \/ Advance \/ Restart
    BY <2>1 DEF Send, SendFails, Receive, ReceiveTimeout, Advance, Restart
  <2>2. CASE ProcessData
    BY <2>2, RegistersType DEF ProcessData, LoopType, HandlerType
  <2>3. CASE StoreData
    BY <2>3 DEF StoreData
  <2>4. CASE Arrive \/ Lose \/ UplinkTakes \/ OtherProducer \/ UNCHANGED vars
    BY <2>4 DEF Arrive, Lose, UplinkTakes, OtherProducer, vars, loopVars
  <2>5. QED
    BY <2>1, <2>2, <2>3, <2>4
    DEF Next, Loop, Environment, NoAlarm, SendAlarm, DropAlarm
<1>3. QED
  BY <1>1, <1>2, TypesCorrect, PTL DEF Spec

(***************************************************************************)
(* Notifications and shared memory.                                        *)
(***************************************************************************)

(* From the store to the end of the poll the item holds the registers.     *)
StoredInv ==
  stored => /\ pc = "alarm"
            /\ m_registers[cursor] # <<>>
            /\ shm[shmAddr[cursor]] = m_registers[cursor]

LEMMA StoredInvStep == Types /\ StoredInv /\ [Next]_vars => StoredInv'
<1> SUFFICES ASSUME LoopType, HandlerType, ShmType, StoredInv, [Next]_vars
             PROVE  StoredInv'
  BY DEF Types
<1> USE DEF StoredInv
<1>1. CASE Send \/ SendFails \/ Receive \/ ReceiveTimeout \/ ProcessData
  <2>1. ~stored
    BY <1>1 DEF Send, SendFails, Receive, ReceiveTimeout, ProcessData
  <2>2. stored' = stored
    BY <1>1 DEF Send, SendFails, Receive, ReceiveTimeout, ProcessData
  <2>3. QED
    BY <2>1, <2>2
<1>2. CASE StoreData
  <2>1. shmAddr[cursor] \in ShmItem
    BY SensorAssumption DEF LoopType
  <2>2. ASSUME stored'
        PROVE  /\ m_registers[cursor] # <<>>
               /\ shm' = [shm EXCEPT ![Item(cursor)] = m_registers[cursor]]
    BY <1>2, <2>2, Zenon DEF StoreData
  <2>3. pc' = "alarm" /\ UNCHANGED <<cursor, m_registers>>
    BY <1>2 DEF StoreData
  <2>4. QED
    BY <2>1, <2>2, <2>3 DEF Item, ShmType
<1>3. CASE Advance \/ Restart
  <2>1. ~stored'
    BY <1>3, Zenon DEF Advance, Restart
  <2>2. QED
    BY <2>1
<1>4. CASE Arrive \/ Lose \/ UplinkTakes \/ OtherProducer \/ UNCHANGED vars
  BY <1>4 DEF Arrive, Lose, UplinkTakes, OtherProducer, vars, loopVars
<1>5. QED
  BY <1>1, <1>2, <1>3, <1>4
  DEF Next, Loop, Environment, NoAlarm, SendAlarm, DropAlarm

LEMMA StoredInvariant == Spec => [](Types /\ StoredInv)
<1>1. Init => StoredInv
  <2> SUFFICES ASSUME Init PROVE ~stored
    BY DEF StoredInv
  <2>1. QED
    BY DEF Init
<1>2. QED
  BY <1>1, InitTypes, TypesStep, StoredInvStep, PTL DEF Spec

(* A notification queued in a poll whose store succeeded carries the       *)
(* reading that the sensor's shared memory item holds, for any table of    *)
(* addresses (also when sensors share an item) and any queue.              *)
THEOREM AlarmMatchesShmHolds == Spec => AlarmMatchesShm
<1> DEFINE Matches ==
      Len(queue') > Len(queue) /\ stored /\ queue'[Len(queue')] # Foreign
        => shm[shmAddr[cursor]] = <<queue'[Len(queue')].reading>>
<1>1. Types /\ StoredInv /\ [Next]_vars => [Matches]_queue
  <2> SUFFICES ASSUME LoopType, HandlerType, QueueType, StoredInv, [Next]_vars,
                      Len(queue') > Len(queue), stored,
                      queue'[Len(queue')] # Foreign
               PROVE  shm[shmAddr[cursor]] = <<queue'[Len(queue')].reading>>
    BY DEF Types
  <2>1. CASE SendAlarm
    <3>1. queue' = Append(queue, Notification)
      BY <2>1 DEF SendAlarm
    <3>2. queue'[Len(queue')] = Notification
      BY <3>1 DEF QueueType
    <3>3. m_registers[cursor] = <<m_registers[cursor][1]>>
      BY AtMostOneElement DEF StoredInv, LoopType, HandlerType
    <3>4. QED
      BY <3>2, <3>3 DEF Notification, StoredInv
  <2>2. CASE UplinkTakes
    BY <2>2 DEF UplinkTakes, QueueType
  <2>3. CASE OtherProducer
    BY <2>3 DEF OtherProducer, QueueType
  <2>4. CASE UNCHANGED queue
    BY <2>4 DEF QueueType
  <2>5. QED
    BY <2>1, <2>2, <2>3, <2>4, QueueSteps
<1>2. QED
  BY <1>1, StoredInvariant, PTL DEF Spec, AlarmMatchesShm

(***************************************************************************)
(* A reply serves one sensor.                                              *)
(***************************************************************************)

(* Where the reply to the watched poll is: on its way, in the tty queue, or *)
(* with the handler of a sensor.                                           *)
Travelling(i) == i \in 1 .. Len(inflight) /\ inflight[i].age = 1
Waiting(i) == i \in 1 .. Len(unread) /\ unread[i] # Noise /\ unread[i].age = 1
Watched(b) == Accepted(b) /\ b[1].age = 1
Holds(s) == Watched(m_receiveBuffer[s]) \/ Watched(m_registers[s])

(* It is in one place: the holder may have it twice, in its buffer and in  *)
(* its registers.  Before the watched poll is sent it is nowhere.          *)
OnceOnLine ==
  /\ \A i, k : Travelling(i) /\ Travelling(k) => i = k
  /\ \A i, k : Waiting(i) /\ Waiting(k) => i = k
  /\ \A i, k : ~(Travelling(i) /\ Waiting(k))

OneHolder == \A s, t \in Sensor : Holds(s) /\ Holds(t) => s = t

LineOrHolder ==
  \A s \in Sensor : \A i : Holds(s) => ~Travelling(i) /\ ~Waiting(i)

NotBeforeSent ==
  age = 0 \/ (age = 1 /\ pc = "send")
    => /\ \A i : ~Travelling(i) /\ ~Waiting(i)
       /\ \A s \in Sensor : ~Holds(s)

ServeInv == OnceOnLine /\ OneHolder /\ LineOrHolder /\ NotBeforeSent

LEMMA ServeSend == ASSUME Types, ServeInv, Send PROVE ServeInv'
<1>1. UNCHANGED <<m_receiveBuffer, m_registers, age>> /\ pc = "send" /\ pc' = "receive"
  BY DEF Send
<1>2. \A s \in Sensor : Holds(s)' <=> Holds(s)
  BY <1>1 DEF Holds, Watched, Accepted
<1>3. \A i : Waiting(i)' <=> Waiting(i)
  BY SendLine DEF Types, Waiting
<1>4. \A i : Travelling(i)' => \/ Travelling(i)
                               \/ i = Len(inflight) + 1 /\ age = 1
  BY SendLine DEF Types, LineType, Travelling
<1>5. CASE age = 1
  BY <1>1, <1>2, <1>3, <1>4, <1>5
  DEF ServeInv, OnceOnLine, OneHolder, LineOrHolder, NotBeforeSent
<1>6. CASE age # 1
  BY <1>1, <1>2, <1>3, <1>4, <1>6
  DEF ServeInv, OnceOnLine, OneHolder, LineOrHolder, NotBeforeSent
<1>7. QED
  BY <1>5, <1>6

LEMMA ServeArrive == ASSUME Types, ServeInv, Arrive PROVE ServeInv'
<1>1. UNCHANGED <<m_receiveBuffer, m_registers, age, pc>>
  BY DEF Arrive, loopVars
<1>2. \A s \in Sensor : Holds(s)' <=> Holds(s)
  BY <1>1 DEF Holds, Watched, Accepted
<1>3. PICK frame \in {Head(inflight), Noise} :
        /\ inflight # <<>> /\ inflight' = Tail(inflight)
        /\ unread' = Append(unread, frame)
  BY DEF Arrive
<1>4. \A i : Travelling(i)' => Travelling(i + 1) /\ i \in Nat /\ i > 0
  BY <1>3 DEF Types, LineType, Travelling
<1>5. \A i : Waiting(i)' => \/ Waiting(i)
                            \/ i = Len(unread) + 1 /\ Travelling(1)
  BY <1>3 DEF Types, LineType, Travelling, Waiting, Frame
<1>6. QED
  BY <1>1, <1>2, <1>4, <1>5
  DEF ServeInv, OnceOnLine, OneHolder, LineOrHolder, NotBeforeSent

LEMMA ServeLose == ASSUME Types, ServeInv, Lose PROVE ServeInv'
<1>1. UNCHANGED <<m_receiveBuffer, m_registers, age, pc, unread>>
  BY DEF Lose, loopVars
<1>2. \A s \in Sensor : Holds(s)' <=> Holds(s)
  BY <1>1 DEF Holds, Watched, Accepted
<1>3. \A i : Travelling(i)' => Travelling(i + 1) /\ i \in Nat
  BY DEF Lose, Types, LineType, Travelling
<1>4. \A i : Waiting(i)' <=> Waiting(i)
  BY <1>1 DEF Waiting
<1>5. QED
  BY <1>1, <1>2, <1>3, <1>4
  DEF ServeInv, OnceOnLine, OneHolder, LineOrHolder, NotBeforeSent

(* The read takes all that waits: the new holder is the only one.          *)
LEMMA ServeReceive == ASSUME Types, ServeInv, Receive PROVE ServeInv'
<1>1. /\ UNCHANGED <<m_registers, inflight, age, cursor>> /\ unread' = <<>>
      /\ pc = "receive" /\ pc' = "process" /\ unread # <<>>
      /\ m_receiveBuffer' = [m_receiveBuffer EXCEPT ![cursor] = ReadAll(unread)]
  BY DEF Receive
<1>2. \A i : ~Waiting(i)'
  BY <1>1 DEF Waiting
<1>3. \A i : Travelling(i)' <=> Travelling(i)
  BY <1>1 DEF Travelling
<1>4. Watched(ReadAll(unread)) => Waiting(1)
  BY <1>1, ReadAllType DEF Watched, Waiting, Types, LineType
<1>5. \A s \in Sensor : Holds(s)' => Holds(s) \/ (s = cursor /\ Waiting(1))
  BY <1>1, <1>4 DEF Holds, Watched, Accepted, Types, LoopType, HandlerType
<1>6. QED
  BY <1>1, <1>2, <1>3, <1>5
  DEF ServeInv, OnceOnLine, OneHolder, LineOrHolder, NotBeforeSent, Types, LoopType

(* A step that neither sends nor brings a reply to another place.          *)
LEMMA ServeQuiet ==
  ASSUME ServeInv,
         \A s \in Sensor : Holds(s)' => Holds(s),
         UNCHANGED inflight,
         unread' = unread \/ unread' = <<>>,
         \/ UNCHANGED <<age, pc>>
         \/ age' = age /\ pc' # "send"
         \/ age' \in NextAge(age),
         age \in Age
  PROVE  ServeInv'
<1>1. \A i : Travelling(i)' <=> Travelling(i)
  BY DEF Travelling
<1>2. \A i : Waiting(i)' => Waiting(i)
  BY DEF Waiting
<1>3. (age' = 0 \/ (age' = 1 /\ pc' = "send")) => (age = 0 \/ (age = 1 /\ pc = "send"))
  BY DEF NextAge, Age
<1>4. QED
  BY <1>1, <1>2, <1>3
  DEF ServeInv, OnceOnLine, OneHolder, LineOrHolder, NotBeforeSent

LEMMA ServeStep == Types /\ ServeInv /\ [Next]_vars => ServeInv'
<1> SUFFICES ASSUME Types, ServeInv, [Next]_vars PROVE ServeInv'
  OBVIOUS
<1> USE DEF Types, LoopType, HandlerType
<1>1. CASE Send
  BY <1>1, ServeSend
<1>2. CASE Receive
  BY <1>2, ServeReceive
<1>3. CASE Arrive
  BY <1>3, ServeArrive
<1>4. CASE Lose
  BY <1>4, ServeLose
<1>5. CASE SendFails \/ StoreData \/ Advance
  <2>1. UNCHANGED <<m_receiveBuffer, m_registers, inflight, unread>>
    BY <1>5 DEF SendFails, StoreData, Advance
  <2>2. \/ age' = age /\ pc' # "send"
        \/ age' \in NextAge(age)
    BY <1>5 DEF SendFails, StoreData, Advance
  <2>3. \A s \in Sensor : Holds(s)' => Holds(s)
    BY <2>1 DEF Holds, Watched, Accepted
  <2>4. QED
    BY <2>1, <2>2, <2>3, ServeQuiet
<1>6. CASE ReceiveTimeout
  <2>1. \A s \in Sensor : Holds(s)' => Holds(s)
    BY <1>6 DEF ReceiveTimeout, Holds, Watched, Accepted
  <2>2. QED
    BY <1>6, <2>1, ServeQuiet DEF ReceiveTimeout
<1>7. CASE ProcessData
  <2>1. \A s \in Sensor : Watched(m_registers[s])' => Holds(s)
    BY <1>7, RegistersType DEF ProcessData, Holds, Watched, Accepted
  <2>2. \A s \in Sensor : Holds(s)' => Holds(s)
    BY <1>7, <2>1 DEF ProcessData, Holds, Watched, Accepted
  <2>3. QED
    BY <1>7, <2>2, ServeQuiet DEF ProcessData
<1>8. CASE Restart
  <2>1. \A s \in Sensor : ~Holds(s)'
    BY <1>8 DEF Restart, NewHandlers, Holds, Watched, Accepted
  <2>2. QED
    BY <1>8, <2>1, ServeQuiet DEF Restart
<1>9. CASE UplinkTakes \/ OtherProducer \/ UNCHANGED vars
  <2>1. UNCHANGED <<m_receiveBuffer, m_registers, inflight, unread, age, pc>>
    BY <1>9 DEF UplinkTakes, OtherProducer, vars, loopVars, lineVars
  <2>2. \A s \in Sensor : Holds(s)' => Holds(s)
    BY <2>1 DEF Holds, Watched, Accepted
  <2>3. QED
    BY <2>1, <2>2, ServeQuiet
<1>10. QED
  BY <1>1, <1>2, <1>3, <1>4, <1>5, <1>6, <1>7, <1>8, <1>9
  DEF Next, Loop, Environment, NoAlarm, SendAlarm, DropAlarm

LEMMA ServeInit == Init => ServeInv
<1> SUFFICES ASSUME Init PROVE ServeInv
  OBVIOUS
<1>1. \A s \in Sensor : ~Holds(s)
  BY DEF Init, NewHandlers, Holds, Watched, Accepted
<1>2. \A i : ~Travelling(i) /\ ~Waiting(i)
  BY DEF Init, Travelling, Waiting
<1>3. QED
  BY <1>1, <1>2 DEF ServeInv, OnceOnLine, OneHolder, LineOrHolder, NotBeforeSent

(* No reply is ever in the registers of two sensors, for any number of     *)
(* sensors and of late replies.                                            *)
THEOREM NoReplyServesTwoHolds == Spec => []NoReplyServesTwo
<1>1. Types /\ ServeInv => NoReplyServesTwo
  <2> SUFFICES ASSUME HandlerType, OneHolder,
                      NEW s \in Sensor, NEW t \in Sensor,
                      m_registers[s] # <<>>, m_registers[t] # <<>>,
                      m_registers[s][1].age = 1, m_registers[t][1].age = 1
               PROVE  s = t
    BY DEF Types, ServeInv, NoReplyServesTwo
  <2>1. Watched(m_registers[s]) /\ Watched(m_registers[t])
    BY ReplyIsAccepted DEF HandlerType, Watched
  <2>2. QED
    BY <2>1 DEF OneHolder, Holds
<1>2. QED
  BY <1>1, InitTypes, TypesStep, ServeInit, ServeStep, PTL DEF Spec

(***************************************************************************)
(* Shared memory only moves on.                                            *)
(***************************************************************************)

(* Every reply that a handler or shared memory has is at most of age x.    *)
Settled(x) ==
  /\ \A s \in Sensor : Accepted(m_receiveBuffer[s]) => m_receiveBuffer[s][1].age <= x
  /\ \A s \in Sensor : m_registers[s] # <<>> => m_registers[s][1].age <= x
  /\ \A a \in ShmItem : shm[a] # <<>> => shm[a][1].age <= x

(* The line delivers in the order of the polls, and only what is not older *)
(* than what the program took from it before.                              *)
LineOrder ==
  /\ Settled(age)
  /\ \A i \in 1 .. Len(inflight) :
       inflight[i].age <= age /\ Settled(inflight[i].age)
  /\ \A i, k \in 1 .. Len(inflight) : i < k => inflight[i].age <= inflight[k].age
  /\ \A i \in 1 .. Len(unread) :
       unread[i] # Noise => unread[i].age <= age /\ Settled(unread[i].age)
  /\ \A i \in 1 .. Len(unread), k \in 1 .. Len(inflight) :
       unread[i] # Noise => unread[i].age <= inflight[k].age

(* Of one sensor: its item is not newer than its registers, and these are  *)
(* not newer than its buffer, which a failed write makes it parse again.   *)
HandlerOrder(s) ==
  /\ Accepted(m_receiveBuffer[s]) /\ m_registers[s] # <<>>
       => m_registers[s][1].age <= m_receiveBuffer[s][1].age
  /\ OneWriter(shmAddr[s]) /\ shm[shmAddr[s]] # <<>> =>
       /\ m_registers[s] # <<>> => shm[shmAddr[s]][1].age <= m_registers[s][1].age
       /\ Accepted(m_receiveBuffer[s])
            => shm[shmAddr[s]][1].age <= m_receiveBuffer[s][1].age

OrderInv == LineOrder /\ \A s \in Sensor : HandlerOrder(s)

(* The ages are numbers.                                                   *)
LEMMA AgesAreNumbers ==
  ASSUME Types
  PROVE  /\ age \in Nat
         /\ \A s \in Sensor : Accepted(m_receiveBuffer[s]) => m_receiveBuffer[s][1].age \in Nat
         /\ \A s \in Sensor : m_registers[s] # <<>> => m_registers[s][1].age \in Nat
         /\ \A a \in ShmItem : shm[a] # <<>> => shm[a][1].age \in Nat
         /\ \A i \in 1 .. Len(inflight) : inflight[i].age \in Nat
         /\ \A i \in 1 .. Len(unread) : unread[i] # Noise => unread[i].age \in Nat
<1>1. \A r \in Reply : r.age \in Nat
  BY DEF Reply, Age
<1>2. \A s \in Sensor : Accepted(m_receiveBuffer[s]) => m_receiveBuffer[s][1] \in Reply
  BY AcceptedIsReply DEF Types, HandlerType
<1>3. \A s \in Sensor : m_registers[s] # <<>> => m_registers[s][1] \in Reply
  BY AtMostOneElement DEF Types, HandlerType
<1>4. \A a \in ShmItem : shm[a] # <<>> => shm[a][1] \in Reply
  BY AtMostOneElement DEF Types, ShmType
<1>5. \A i \in 1 .. Len(inflight) : inflight[i] \in Reply
  BY DEF Types, LineType
<1>6. \A i \in 1 .. Len(unread) : unread[i] # Noise => unread[i] \in Reply
  BY DEF Types, LineType, Frame
<1>7. age \in Nat
  BY DEF Types, LoopType, Age
<1>8. QED
  BY <1>1, <1>2, <1>3, <1>4, <1>5, <1>6, <1>7

LEMMA SettledMono ==
  ASSUME Types, NEW x \in Nat, NEW y \in Nat, x <= y, Settled(x)
  PROVE  Settled(y)
BY AgesAreNumbers DEF Settled

(* A step that leaves the handlers and shared memory alone, and takes      *)
(* nothing from the line but what is lost.                                 *)
LEMMA OrderQuiet ==
  ASSUME Types, OrderInv,
         UNCHANGED <<m_receiveBuffer, m_registers, shm, inflight>>,
         unread' = unread \/ unread' = <<>>,
         age' \in Nat, age <= age'
  PROVE  OrderInv'
<1>1. \A x : Settled(x)' <=> Settled(x)
  BY DEF Settled, Accepted
<1>2. \A s \in Sensor : HandlerOrder(s)'
  BY DEF OrderInv, HandlerOrder, Accepted, OneWriter
<1>3. Settled(age')
  BY SettledMono, AgesAreNumbers DEF OrderInv, LineOrder
<1>4. LineOrder'
  BY <1>1, <1>3, AgesAreNumbers DEF OrderInv, LineOrder, Settled, Accepted
<1>5. QED
  BY <1>2, <1>4 DEF OrderInv

LEMMA OrderSend == ASSUME Types, OrderInv, Send PROVE OrderInv'
<1>1. UNCHANGED <<m_receiveBuffer, m_registers, shm, unread, age>>
  BY DEF Send
<1>2. \A x : Settled(x)' <=> Settled(x)
  BY <1>1 DEF Settled, Accepted
<1>3. \A s \in Sensor : HandlerOrder(s)'
  BY <1>1 DEF OrderInv, HandlerOrder, Accepted, OneWriter
<1>4. LineOrder'
  <2>1. CASE inflight' = inflight
    BY <1>1, <1>2, <2>1 DEF OrderInv, LineOrder, Settled, Accepted
  <2>2. CASE /\ Len(inflight') = Len(inflight) + 1
             /\ \A i \in 1 .. Len(inflight) : inflight'[i] = inflight[i]
             /\ inflight'[Len(inflight) + 1].age = age
    <3>1. \A i \in 1 .. Len(inflight') :
            (i \in 1 .. Len(inflight) /\ inflight'[i] = inflight[i])
              \/ (i = Len(inflight) + 1 /\ inflight'[i].age = age)
      BY <2>2 DEF Types, LineType
    <3>2. \A i \in 1 .. Len(inflight') :
            inflight'[i].age <= age /\ Settled(inflight'[i].age)
      BY <3>1, AgesAreNumbers DEF OrderInv, LineOrder
    <3>3. \A i, k \in 1 .. Len(inflight') : i < k => inflight'[i].age <= inflight'[k].age
      BY <3>1, AgesAreNumbers DEF OrderInv, LineOrder, Types, LineType
    <3>4. \A i \in 1 .. Len(unread), k \in 1 .. Len(inflight') :
            unread[i] # Noise => unread[i].age <= inflight'[k].age
      BY <3>1, AgesAreNumbers DEF OrderInv, LineOrder
    <3>5. QED
      BY <1>1, <1>2, <3>2, <3>3, <3>4 DEF OrderInv, LineOrder, Settled, Accepted
  <2>3. QED
    BY <2>1, <2>2, SendLine DEF Types
<1>5. QED
  BY <1>3, <1>4 DEF OrderInv

LEMMA OrderArrive == ASSUME Types, OrderInv, Arrive PROVE OrderInv'
<1>1. UNCHANGED <<m_receiveBuffer, m_registers, shm, age>>
  BY DEF Arrive, loopVars
<1>2. \A x : Settled(x)' <=> Settled(x)
  BY <1>1 DEF Settled, Accepted
<1>3. \A s \in Sensor : HandlerOrder(s)'
  BY <1>1 DEF OrderInv, HandlerOrder, Accepted, OneWriter
<1>4. PICK frame \in {Head(inflight), Noise} :
        /\ inflight # <<>> /\ inflight' = Tail(inflight)
        /\ unread' = Append(unread, frame)
  BY DEF Arrive
<1>5. \A i \in 1 .. Len(inflight') : i + 1 \in 1 .. Len(inflight) /\ inflight'[i] = inflight[i + 1]
  BY <1>4 DEF Types, LineType
<1>6. \A i \in 1 .. Len(unread') :
        \/ i \in 1 .. Len(unread) /\ unread'[i] = unread[i]
        \/ unread'[i] = Noise
        \/ unread'[i] = inflight[1]
  BY <1>4 DEF Types, LineType
<1>7. 1 \in 1 .. Len(inflight)
  BY <1>4 DEF Types, LineType
<1>8. \A i \in 1 .. Len(inflight') : inflight'[i].age <= age /\ Settled(inflight'[i].age)
  BY <1>5 DEF OrderInv, LineOrder
<1>9. \A i, k \in 1 .. Len(inflight') : i < k => inflight'[i].age <= inflight'[k].age
  BY <1>5 DEF OrderInv, LineOrder, Types, LineType
<1>10. \A i \in 1 .. Len(unread') :
         unread'[i] # Noise => unread'[i].age <= age /\ Settled(unread'[i].age)
  BY <1>6, <1>7 DEF OrderInv, LineOrder
<1>11. \A i \in 1 .. Len(unread'), k \in 1 .. Len(inflight') :
         unread'[i] # Noise => unread'[i].age <= inflight'[k].age
  <2>1. \A k \in 1 .. Len(inflight') : 1 < k + 1
    BY <1>4 DEF Types, LineType
  <2>2. QED
    BY <1>5, <1>6, <1>7, <2>1 DEF OrderInv, LineOrder
<1>12. LineOrder'
  BY <1>1, <1>2, <1>8, <1>9, <1>10, <1>11 DEF OrderInv, LineOrder, Settled, Accepted
<1>13. QED
  BY <1>3, <1>12 DEF OrderInv

LEMMA OrderLose == ASSUME Types, OrderInv, Lose PROVE OrderInv'
<1>1. UNCHANGED <<m_receiveBuffer, m_registers, shm, unread, age>>
  BY DEF Lose, loopVars
<1>2. \A x : Settled(x)' <=> Settled(x)
  BY <1>1 DEF Settled, Accepted
<1>3. \A s \in Sensor : HandlerOrder(s)'
  BY <1>1 DEF OrderInv, HandlerOrder, Accepted, OneWriter
<1>4. \A i \in 1 .. Len(inflight') : i + 1 \in 1 .. Len(inflight) /\ inflight'[i] = inflight[i + 1]
  BY DEF Lose, Types, LineType
<1>5. \A i \in 1 .. Len(inflight') : inflight'[i].age <= age /\ Settled(inflight'[i].age)
  BY <1>4 DEF OrderInv, LineOrder
<1>6. \A i, k \in 1 .. Len(inflight') : i < k => inflight'[i].age <= inflight'[k].age
  BY <1>4 DEF OrderInv, LineOrder, Types, LineType
<1>7. \A i \in 1 .. Len(unread), k \in 1 .. Len(inflight') :
        unread[i] # Noise => unread[i].age <= inflight'[k].age
  BY <1>4 DEF OrderInv, LineOrder
<1>8. LineOrder'
  BY <1>1, <1>2, <1>5, <1>6, <1>7 DEF OrderInv, LineOrder, Settled, Accepted
<1>9. QED
  BY <1>3, <1>8 DEF OrderInv

(* LineOrder after a step that does not add to the line, given what is     *)
(* settled after it.                                                       *)
LEMMA LineOrderKept ==
  ASSUME LineOrder, UNCHANGED <<inflight, age>>, unread' = unread \/ unread' = <<>>,
         Settled(age)',
         \A i \in 1 .. Len(inflight) : Settled(inflight[i].age)',
         \A i \in 1 .. Len(unread) :
           unread' # <<>> /\ unread[i] # Noise => Settled(unread[i].age)'
  PROVE  LineOrder'
<1>1. CASE unread' = unread
  BY <1>1 DEF LineOrder
<1>2. CASE unread' = <<>>
  BY <1>2 DEF LineOrder
<1>3. QED
  BY <1>1, <1>2

LEMMA OrderReceive == ASSUME Types, OrderInv, Receive PROVE OrderInv'
<1> DEFINE new == ReadAll(unread)
<1>1. /\ UNCHANGED <<m_registers, inflight, age, shm>> /\ unread' = <<>>
      /\ m_receiveBuffer' = [m_receiveBuffer EXCEPT ![cursor] = new]
      /\ unread # <<>>
  BY DEF Receive
<1>2. Accepted(new) => 1 \in 1 .. Len(unread) /\ new[1] = unread[1] /\ unread[1] # Noise
  BY <1>1, ReadAllType DEF Types, LineType
<1>3. \A s \in Sensor :
        \/ m_receiveBuffer'[s] = m_receiveBuffer[s]
        \/ s = cursor /\ m_receiveBuffer'[s] = new
  BY <1>1 DEF Types, HandlerType
<1>4. LineOrder'
  <2>1. Settled(age)
    BY DEF OrderInv, LineOrder
  <2>2. Accepted(new) => new[1].age <= age
    BY <1>2 DEF OrderInv, LineOrder
  <2>3. \A i \in 1 .. Len(inflight) : Settled(inflight[i].age)
    BY DEF OrderInv, LineOrder
  <2>4. \A i \in 1 .. Len(inflight) : Accepted(new) => new[1].age <= inflight[i].age
    BY <1>2 DEF OrderInv, LineOrder
  <2>5. Settled(age)'
    <3>1. age' = age
      BY <1>1
    <3>2. QED
      BY <1>1, <1>3, <2>1, <2>2, <3>1 DEF Settled, Accepted
  <2>6. \A i \in 1 .. Len(inflight) : Settled(inflight[i].age)'
    <3>1. inflight' = inflight
      BY <1>1
    <3>2. QED
      BY <1>1, <1>3, <2>3, <2>4, <3>1 DEF Settled, Accepted
  <2>7. QED
    BY <1>1, <2>5, <2>6, LineOrderKept DEF OrderInv
<1>5. ASSUME NEW s \in Sensor PROVE HandlerOrder(s)'
  <2>1. HandlerOrder(s)
    BY DEF OrderInv
  <2>2. CASE m_receiveBuffer'[s] = m_receiveBuffer[s]
    BY <1>1, <2>1, <2>2 DEF HandlerOrder, Accepted, OneWriter
  <2>3. CASE m_receiveBuffer'[s] = new
    <3>1. Accepted(new) => Settled(new[1].age)
      BY <1>2 DEF OrderInv, LineOrder
    <3>2. shmAddr[s] \in ShmItem
      BY SensorAssumption
    <3>3. QED
      BY <1>1, <2>1, <2>3, <3>1, <3>2 DEF HandlerOrder, Settled, Accepted, OneWriter
  <2>4. QED
    BY <1>3, <2>2, <2>3
<1>6. QED
  BY <1>4, <1>5 DEF OrderInv

LEMMA OrderTimeout == ASSUME Types, OrderInv, ReceiveTimeout PROVE OrderInv'
<1>1. /\ UNCHANGED <<m_registers, inflight, unread, age, shm>>
      /\ m_receiveBuffer' = [m_receiveBuffer EXCEPT ![cursor] = <<>>]
  BY DEF ReceiveTimeout
<1>2. \A s \in Sensor :
        m_receiveBuffer'[s] = m_receiveBuffer[s] \/ m_receiveBuffer'[s] = <<>>
  BY <1>1 DEF Types, HandlerType
<1>3. \A x : Settled(x) => /\ \A s \in Sensor : Accepted(m_receiveBuffer'[s])
                                  => m_receiveBuffer'[s][1].age <= x
  BY <1>2 DEF Settled, Accepted
<1>4. LineOrder'
  BY <1>1, <1>3, LineOrderKept DEF OrderInv, LineOrder, Settled, Accepted
<1>5. \A s \in Sensor : HandlerOrder(s)'
  BY <1>1, <1>2 DEF OrderInv, HandlerOrder, Accepted, OneWriter
<1>6. QED
  BY <1>4, <1>5 DEF OrderInv

LEMMA OrderProcess == ASSUME Types, OrderInv, ProcessData PROVE OrderInv'
<1>1. /\ UNCHANGED <<m_receiveBuffer, inflight, unread, age, shm>>
      /\ m_registers' = [m_registers EXCEPT ![cursor] =
                            Registers(@, m_receiveBuffer[cursor])]
  BY DEF ProcessData
<1>2. \A s \in Sensor :
        \/ m_registers'[s] = m_registers[s]
        \/ m_registers'[s] = <<>>
        \/ Accepted(m_receiveBuffer[s]) /\ m_registers'[s] = m_receiveBuffer[s]
  BY <1>1, RegistersType DEF Types, HandlerType
<1>3. \A x : Settled(x) => \A s \in Sensor : m_registers'[s] # <<>>
                               => m_registers'[s][1].age <= x
  BY <1>2 DEF Settled
<1>4. LineOrder'
  BY <1>1, <1>3, LineOrderKept DEF OrderInv, LineOrder, Settled, Accepted
<1>5. \A s \in Sensor : HandlerOrder(s)'
  BY <1>1, <1>2, AgesAreNumbers DEF OrderInv, HandlerOrder, Accepted, OneWriter
<1>6. QED
  BY <1>4, <1>5 DEF OrderInv

(* What StoreData writes, if it writes, are the registers of the sensor.   *)
LEMMA StoreShm ==
  ASSUME Types, StoreData
  PROVE  \A a \in ShmItem :
           \/ shm'[a] = shm[a]
           \/ a = shmAddr[cursor] /\ m_registers[cursor] # <<>> /\ shm'[a] = m_registers[cursor]
BY DEF StoreData, Item, Types, ShmType

LEMMA OrderStore == ASSUME Types, OrderInv, StoreData PROVE OrderInv'
<1>1. UNCHANGED <<m_receiveBuffer, m_registers, inflight, unread, age, cursor>>
  BY DEF StoreData
<1>2. cursor \in Sensor
  BY DEF Types, LoopType
<1>3. \A x : Settled(x) => \A a \in ShmItem : shm'[a] # <<>> => shm'[a][1].age <= x
  BY <1>2, StoreShm DEF Settled
<1>4. LineOrder'
  BY <1>1, <1>3, LineOrderKept DEF OrderInv, LineOrder, Settled, Accepted
<1>5. ASSUME NEW s \in Sensor PROVE HandlerOrder(s)'
  <2>1. HandlerOrder(s)
    BY DEF OrderInv
  <2>2. shmAddr[s] \in ShmItem
    BY SensorAssumption
  <2>3. CASE shm'[shmAddr[s]] = shm[shmAddr[s]]
    BY <1>1, <2>1, <2>3 DEF HandlerOrder, Accepted, OneWriter
  <2>4. CASE /\ shmAddr[s] = shmAddr[cursor] /\ m_registers[cursor] # <<>>
             /\ shm'[shmAddr[s]] = m_registers[cursor]
    <3>1. OneWriter(shmAddr[s]) => s = cursor
      BY <1>2, <2>4 DEF OneWriter
    <3>2. m_registers[cursor][1].age \in Nat
      BY <1>2, <2>4, AgesAreNumbers
    <3>3. QED
      BY <1>1, <2>1, <2>4, <3>1, <3>2 DEF HandlerOrder, Accepted, OneWriter
  <2>5. QED
    BY <2>2, <2>3, <2>4, StoreShm
<1>6. QED
  BY <1>4, <1>5 DEF OrderInv

LEMMA OrderRestart == ASSUME Types, OrderInv, Restart PROVE OrderInv'
<1>1. /\ UNCHANGED <<inflight, shm>> /\ unread' = <<>>
      /\ m_receiveBuffer' = NewHandlers /\ m_registers' = NewHandlers
      /\ age' \in Nat /\ age <= age'
  BY NextAgeType DEF Restart, Types, LoopType, Age
<1>2. \A s \in Sensor : m_receiveBuffer'[s] = <<>> /\ m_registers'[s] = <<>>
  BY <1>1 DEF NewHandlers
<1>3. \A x : Settled(x) => Settled(x)'
  BY <1>1, <1>2 DEF Settled, Accepted
<1>4. Settled(age')
  BY <1>1, SettledMono, AgesAreNumbers DEF OrderInv, LineOrder
<1>5. LineOrder'
  BY <1>1, <1>2, <1>4, AgesAreNumbers DEF OrderInv, LineOrder, Settled, Accepted
<1>6. \A s \in Sensor : HandlerOrder(s)'
  BY <1>2 DEF HandlerOrder, Accepted
<1>7. QED
  BY <1>5, <1>6 DEF OrderInv

LEMMA OrderStep == Types /\ OrderInv /\ [Next]_vars => OrderInv'
<1> SUFFICES ASSUME Types, OrderInv, [Next]_vars PROVE OrderInv'
  OBVIOUS
<1>1. CASE SendFails \/ UplinkTakes \/ OtherProducer \/ UNCHANGED vars
  <2>1. UNCHANGED <<m_receiveBuffer, m_registers, shm, inflight, unread, age>>
    BY <1>1 DEF SendFails, UplinkTakes, OtherProducer, vars, loopVars, lineVars
  <2>2. QED
    BY <2>1, OrderQuiet, AgesAreNumbers
<1>2. CASE Advance
  <2>1. UNCHANGED <<m_receiveBuffer, m_registers, shm, inflight, unread>>
    BY <1>2 DEF Advance
  <2>2. age' \in Nat /\ age <= age'
    BY <1>2, NextAgeType DEF Advance, Types, LoopType, Age
  <2>3. QED
    BY <2>1, <2>2, OrderQuiet
<1>3. QED
  BY <1>1, <1>2, OrderSend, OrderReceive, OrderTimeout, OrderProcess, OrderStore,
     OrderArrive, OrderLose, OrderRestart
  DEF Next, Loop, Environment, NoAlarm, SendAlarm, DropAlarm

LEMMA OrderInit == Init => OrderInv
<1> SUFFICES ASSUME Init PROVE OrderInv
  OBVIOUS
<1>1. \A s \in Sensor : m_receiveBuffer[s] = <<>> /\ m_registers[s] = <<>>
  BY DEF Init, NewHandlers
<1>2. \A a \in ShmItem : shm[a] = <<>>
  BY DEF Init
<1>3. inflight = <<>> /\ unread = <<>>
  BY DEF Init
<1>4. \A s \in Sensor : HandlerOrder(s)
  BY <1>1 DEF HandlerOrder, Accepted, OneWriter
<1>5. QED
  BY <1>1, <1>2, <1>3, <1>4 DEF OrderInv, LineOrder, Settled, Accepted

(* An item that one sensor owns never goes back to an older reply, for any *)
(* number of sensors and late replies, through timeouts, failed writes and *)
(* restarts.                                                               *)
THEOREM ShmNeverRegressesHolds == Spec => ShmNeverRegresses
<1> DEFINE Grows ==
      \A a \in ShmItem :
        OneWriter(a) /\ shm[a] # <<>>
          => shm'[a] # <<>> /\ shm'[a][1].age >= shm[a][1].age
<1>1. Types /\ OrderInv /\ [Next]_vars => [Grows]_shm
  <2> SUFFICES ASSUME Types, OrderInv, [Next]_vars, shm' # shm,
                      NEW a \in ShmItem, OneWriter(a), shm[a] # <<>>
               PROVE  shm'[a] # <<>> /\ shm'[a][1].age >= shm[a][1].age
    OBVIOUS
  <2>1. StoreData
    BY ShmSteps
  <2>2. CASE shm'[a] = shm[a]
    BY <2>2, AgesAreNumbers
  <2>3. CASE a = shmAddr[cursor] /\ m_registers[cursor] # <<>> /\ shm'[a] = m_registers[cursor]
    <3>1. HandlerOrder(cursor)
      BY DEF OrderInv, Types, LoopType
    <3>2. m_registers[cursor][1].age \in Nat
      BY <2>3, AgesAreNumbers DEF Types, LoopType
    <3>3. QED
      BY <2>3, <3>1, <3>2, AgesAreNumbers DEF HandlerOrder
  <2>4. QED
    BY <2>1, <2>2, <2>3, StoreShm
<1>2. QED
  BY <1>1, InitTypes, TypesStep, OrderInit, OrderStep, PTL DEF Spec, ShmNeverRegresses

(***************************************************************************)
(* The loop implements Telemetry.                                          *)
(***************************************************************************)

(* The two modules speak of the same sensors and items.                    *)
LEMMA SameNames ==
  /\ Reports!Sensors = Sensor
  /\ \A a \in ShmItem : Reports!HasOneWriter(a) <=> OneWriter(a)
<1>1. Reports!Sensors = Sensor
  BY DEF Reports!Sensors, Sensor
<1>2. QED
  BY <1>1 DEF Reports!HasOneWriter, OneWriter

ReportInv == Types /\ StoredInv /\ ServeInv /\ OrderInv

LEMMA ReportInvariant == Spec => []ReportInv
<1>1. Init => StoredInv
  <2> SUFFICES ASSUME Init PROVE ~stored
    BY DEF StoredInv
  <2>1. QED
    BY DEF Init
<1>2. QED
  BY <1>1, InitTypes, TypesStep, StoredInvStep, ServeInit, ServeStep, OrderInit, OrderStep,
     PTL DEF Spec, ReportInv

LEMMA ReportsInit == Init => Reports!Init
BY SameNames DEF Init, NewHandlers, Reports!Init, Reports!Nothing

(* A frame that the check accepts was heard by nobody else, and is not     *)
(* older than what its sensor holds and shows.                             *)
LEMMA AcceptedIsFresh ==
  ASSUME ReportInv, Accepted(m_receiveBuffer[cursor])
  PROVE  /\ m_receiveBuffer[cursor][1] \in Reply
         /\ m_receiveBuffer[cursor] = <<m_receiveBuffer[cursor][1]>>
         /\ Reports!Fresh(m_receiveBuffer[cursor][1])
<1> DEFINE reply == m_receiveBuffer[cursor][1]
<1>1. cursor \in Sensor
  BY DEF ReportInv, Types, LoopType
<1>2. reply \in Reply /\ m_receiveBuffer[cursor] = <<reply>>
  BY <1>1, AcceptedIsReply DEF ReportInv, Types, HandlerType
<1>3. ASSUME reply.age = 1, NEW s \in Sensor \ {cursor}, m_registers[s] # <<>>
      PROVE  m_registers[s][1].age # 1
  <2>1. Accepted(m_registers[s])
    BY <1>3, ReplyIsAccepted DEF ReportInv, Types, HandlerType
  <2>2. Holds(cursor)
    BY <1>3 DEF Holds, Watched
  <2>3. QED
    BY <1>1, <1>3, <2>1, <2>2 DEF ReportInv, ServeInv, OneHolder, Holds, Watched
<1>4. HandlerOrder(cursor)
  BY <1>1 DEF ReportInv, OrderInv
<1>5. shmAddr[cursor] \in ShmItem
  BY <1>1, SensorAssumption
<1>6. m_registers[cursor] = <<>> \/ m_registers[cursor][1].age <= reply.age
  BY <1>4 DEF HandlerOrder
<1>7. OneWriter(shmAddr[cursor])
        => shm[shmAddr[cursor]] = <<>> \/ shm[shmAddr[cursor]][1].age <= reply.age
  BY <1>4 DEF HandlerOrder
<1>8. Reports!Fresh(reply)
  <2> HIDE DEF reply
  <2>1. QED
    BY <1>3, <1>5, <1>6, <1>7, SameNames DEF Reports!Fresh, Reports!Nothing
<1>9. QED
  BY <1>2, <1>8

(* ProcessData is a hearing, or nothing was received.                      *)
LEMMA ProcessHears ==
  ASSUME ReportInv, ProcessData
  PROVE  [Reports!Hear]_(Reports!vars)
<1> DEFINE buffer == m_receiveBuffer[cursor]
           new == Registers(m_registers[cursor], buffer)
<1>1. cursor \in Sensor /\ m_registers \in [Sensor -> AtMostOne(Reply)]
  BY DEF ReportInv, Types, LoopType, HandlerType
<1>2. m_registers' = [m_registers EXCEPT ![cursor] = new]
  BY DEF ProcessData
<1>3. UNCHANGED <<cursor, stored, shm, queue>> /\ ~stored
  BY DEF ProcessData, ReportInv, StoredInv
<1>4. CASE buffer = <<>>
  <2>1. new = m_registers[cursor]
    BY <1>4 DEF Registers
  <2>2. m_registers' = m_registers
    BY <1>1, <1>2, <2>1
  <2>3. QED
    BY <1>3, <2>2 DEF Reports!vars
<1>5. CASE Accepted(buffer)
  <2>1. new = buffer /\ buffer # <<>>
    BY <1>5 DEF Registers, Accepted
  <2>2. buffer \in {<<reply>> : reply \in {r \in Reply : Reports!Fresh(r)}}
    BY <1>5, AcceptedIsFresh
  <2>3. Reports!Hear
    BY <1>2, <1>3, <2>1, <2>2 DEF Reports!Hear
  <2>4. QED
    BY <2>3
<1>6. CASE buffer # <<>> /\ ~Accepted(buffer)
  <2>1. new = <<>>
    BY <1>6 DEF Registers
  <2>2. Reports!Hear
    BY <1>2, <1>3, <2>1 DEF Reports!Hear, Reports!Nothing
  <2>3. QED
    BY <2>2
<1>7. QED
  BY <1>4, <1>5, <1>6

(* StoreData publishes what is held, or fails unseen.                      *)
LEMMA StorePublishes ==
  ASSUME ReportInv, StoreData
  PROVE  [Reports!Publish]_(Reports!vars)
<1>1. UNCHANGED <<cursor, m_registers, queue>> /\ ~stored
  BY DEF StoreData, ReportInv, StoredInv
<1>2. CASE /\ m_registers[cursor] # <<>>
           /\ shm' = [shm EXCEPT ![Item(cursor)] = m_registers[cursor]]
           /\ stored' = TRUE
  BY <1>1, <1>2 DEF Item, Reports!Publish, Reports!Nothing
<1>3. CASE shm' = shm /\ stored' = FALSE
  <2>1. stored' = stored
    BY <1>1, <1>3 DEF ReportInv, Types, LoopType
  <2>2. QED
    BY <1>1, <1>3, <2>1 DEF Reports!vars
<1>4. QED
  BY <1>2, <1>3 DEF StoreData

(* The end of a poll is the end of a turn, with an alarm or without.       *)
LEMMA AdvanceEndsTurn ==
  ASSUME ReportInv, NoAlarm \/ SendAlarm \/ DropAlarm
  PROVE  Reports!EndTurn
<1>1. Advance
  BY DEF NoAlarm, SendAlarm, DropAlarm
<1>2. cursor \in Sensor /\ SENSOR_NUM \in Nat \ {0}
  BY SensorAssumption DEF ReportInv, Types, LoopType
<1>3. cursor' = IF cursor = SENSOR_NUM - 1 THEN 0 ELSE cursor + 1
  BY <1>1, <1>2 DEF Advance, NextSensor, Sensor
<1>4. stored' = FALSE /\ UNCHANGED <<m_registers, shm>>
  BY <1>1 DEF Advance
<1>5. Reports!Raise \/ UNCHANGED queue
  <2>1. CASE SendAlarm
    <3>1. /\ m_registers[cursor] # <<>> /\ Triggers(cursor, m_registers[cursor][1].val)
          /\ Len(queue) < QueueCap /\ queue' = Append(queue, Notification)
      BY <2>1 DEF SendAlarm, Triggered
    <3>2. m_registers[cursor][1] \in Reply
      BY <1>2, <3>1, AtMostOneElement DEF ReportInv, Types, HandlerType
    <3>3. m_registers[cursor][1].val \in {val \in Readings : Triggers(cursor, val)}
      BY <3>1, <3>2 DEF Reply
    <3>4. QED
      BY <1>2, <3>1, <3>3 DEF Reports!Raise, Reports!Put, Reports!Nothing, Notification
  <2>2. CASE NoAlarm \/ DropAlarm
    BY <2>2 DEF NoAlarm, DropAlarm
  <2>3. QED
    BY <2>1, <2>2
<1>6. QED
  BY <1>3, <1>4, <1>5 DEF Reports!EndTurn

LEMMA ReportsStep == ReportInv /\ [Next]_vars => [Reports!Next]_(Reports!vars)
<1> SUFFICES ASSUME ReportInv, [Next]_vars PROVE [Reports!Next]_(Reports!vars)
  OBVIOUS
<1>1. CASE Send \/ SendFails \/ Receive \/ ReceiveTimeout \/ Arrive \/ Lose \/ UNCHANGED vars
  <2>1. UNCHANGED <<cursor, m_registers, stored, shm, queue>>
    BY <1>1 DEF Send, SendFails, Receive, ReceiveTimeout, Arrive, Lose, vars, loopVars
  <2>2. QED
    BY <2>1 DEF Reports!vars
<1>2. CASE UplinkTakes \/ OtherProducer
  <2>1. Reports!Neighbours
    BY <1>2 DEF UplinkTakes, OtherProducer, loopVars, Reports!Neighbours, Reports!Put
  <2>2. QED
    BY <2>1 DEF Reports!Next
<1>3. CASE Restart
  <2>1. Reports!Restart
    BY <1>3, SameNames DEF Restart, NewHandlers, Reports!Restart, Reports!Nothing
  <2>2. QED
    BY <2>1 DEF Reports!Next
<1>4. QED
  BY <1>1, <1>2, <1>3, ProcessHears, StorePublishes, AdvanceEndsTurn
  DEF Next, Loop, Environment, Reports!Next

(* Every behaviour of the loop, whatever the line does, is one that        *)
(* Telemetry allows: its readers never see more of a late, lost, damaged   *)
(* or repeated reply than a turn in which nothing new is heard.            *)
THEOREM ImplementsTelemetryHolds == Spec => ImplementsTelemetry
<1>1. Init => Reports!Init
  BY ReportsInit
<1>2. ReportInv /\ [Next]_vars => [Reports!Next]_(Reports!vars)
  BY ReportsStep
<1>3. QED
  BY <1>1, <1>2, ReportInvariant, PTL DEF Spec, ImplementsTelemetry, Reports!Spec
==============================================================================

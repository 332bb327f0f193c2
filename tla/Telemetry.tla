------------------------------ MODULE Telemetry ------------------------------
(***************************************************************************)
(* What sensor-manager promises to the processes that read its shared      *)
(* memory and its queue.  Sensors have their turn one after the other.  In *)
(* its turn a sensor hears something or not, publishes what it holds or    *)
(* not, and raises an alarm or not.  Nothing is said of the line: of late, *)
(* lost and damaged replies nobody here ever sees anything.                *)
(***************************************************************************)
EXTENDS Integers, Sequences

CONSTANTS
  Count,     \* of the sensors
  Replies,   \* what can be heard: a value, and the age of its poll
  item,      \* where a sensor publishes
  code,      \* of a sensor's alarms
  alarming,  \* the values for which a sensor raises an alarm
  Items,
  Other,     \* a message that is not an alarm
  Cap        \* messages the queue holds

Sensors == 0 .. Count - 1

VARIABLES
  turn,       \* the sensor that has its turn
  held,       \* of each sensor: the reply it holds, or nothing
  published,  \* it has published in this turn
  shown,      \* of each item: the reply that was published, or nothing
  queue

vars == <<turn, held, published, shown, queue>>

Nothing == <<>>
HasOneWriter(a) == \A s, t \in Sensors : item[s] = a /\ item[t] = a => s = t

Init ==
  /\ turn = 0 /\ held = [s \in Sensors |-> Nothing] /\ published = FALSE
  /\ shown = [a \in Items |-> Nothing]
  /\ queue = <<>>

(* A reply is heard by one sensor, and not after a later one.              *)
Fresh(reply) ==
  /\ reply.age = 1 =>
       \A s \in Sensors \ {turn} : held[s] = Nothing \/ held[s][1].age # 1
  /\ held[turn] = Nothing \/ held[turn][1].age <= reply.age
  /\ LET seen == shown[item[turn]]
     IN  HasOneWriter(item[turn]) => seen = Nothing \/ seen[1].age <= reply.age

Hear ==
  /\ ~published
  /\ \E what \in {Nothing} \cup {<<reply>> : reply \in {r \in Replies : Fresh(r)}} :
       held' = [held EXCEPT ![turn] = what]
  /\ UNCHANGED <<turn, published, shown, queue>>

Publish ==
  /\ ~published /\ held[turn] # Nothing
  /\ shown' = [shown EXCEPT ![item[turn]] = held[turn]]
  /\ published' = TRUE
  /\ UNCHANGED <<turn, held, queue>>

Put(message) == Len(queue) < Cap /\ queue' = Append(queue, message)

Raise ==
  /\ held[turn] # Nothing /\ held[turn][1].val \in alarming[turn]
  /\ Put([obis |-> code[turn], sensor |-> turn, reading |-> held[turn][1]])

EndTurn ==
  /\ Raise \/ UNCHANGED queue
  /\ turn' = IF turn = Count - 1 THEN 0 ELSE turn + 1
  /\ published' = FALSE
  /\ UNCHANGED <<held, shown>>

(* A restart forgets what the sensors hold, and nothing else.              *)
Restart ==
  /\ turn' = 0 /\ held' = [s \in Sensors |-> Nothing] /\ published' = FALSE
  /\ UNCHANGED <<shown, queue>>

(* The queue has another producer, and its messages are taken in order.    *)
Neighbours ==
  /\ Put(Other) \/ (queue # <<>> /\ queue' = Tail(queue))
  /\ UNCHANGED <<turn, held, published, shown>>

Next == Hear \/ Publish \/ EndTurn \/ Restart \/ Neighbours

Spec == Init /\ [][Next]_vars
==============================================================================

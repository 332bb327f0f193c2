----------------------------- MODULE StatusPanel -----------------------------
(***************************************************************************)
(* What ltu-manager promises to whoever looks at the display board: one    *)
(* lamp per phase and an alarm LED.  The program announces a status (the   *)
(* set of lamps that should be lit), then sends two commands, each of them *)
(* once; a command arrives or is lost.  Nothing in between is ever shown.  *)
(***************************************************************************)
CONSTANT Leds   \* the lamps

VARIABLES
  status,   \* what was announced last
  panel,    \* the lamps that are lit
  alarm,    \* the alarm LED
  due,      \* the commands of this announcement that are still to be sent
  lost      \* those whose last command was lost

vars == <<status, panel, alarm, due, lost>>

Commands == {"panel", "alarm"}

TypeOK ==
  /\ status \subseteq Leds /\ panel \subseteq Leds
  /\ alarm \in BOOLEAN
  /\ due \subseteq Commands /\ lost \subseteq Commands

Init ==
  /\ status = {}
  /\ panel \in SUBSET Leds /\ alarm \in BOOLEAN
  /\ due = Commands /\ lost = {}

(* A new status, once the commands of the last one are out.                *)
Announce ==
  /\ due = {}
  /\ status' \in (SUBSET Leds) \ {status}
  /\ due' = Commands
  /\ UNCHANGED <<panel, alarm, lost>>

(* The process starts again: it forgets the status, the board does not.    *)
Reset ==
  /\ status' = {}
  /\ due' = Commands
  /\ UNCHANGED <<panel, alarm, lost>>

Sent(command, arrives) ==
  /\ command \in due
  /\ due' = due \ {command}
  /\ lost' = IF arrives THEN lost \ {command} ELSE lost \cup {command}
  /\ UNCHANGED status

SendPanel(arrives) ==
  /\ Sent("panel", arrives)
  /\ panel' = IF arrives THEN status ELSE panel
  /\ UNCHANGED alarm

SendAlarm(arrives) ==
  /\ Sent("alarm", arrives)
  /\ alarm' = IF arrives THEN status # {} ELSE alarm
  /\ UNCHANGED panel

Next ==
  \/ Announce \/ Reset
  \/ \E arrives \in BOOLEAN : SendPanel(arrives) \/ SendAlarm(arrives)

Spec == Init /\ [][Next]_vars

(* Only the last command counts: the panel is wrong only while it is due   *)
(* or after the last panel command was lost, whatever was lost before; and *)
(* so is the alarm LED.                                                    *)
LastCommandDecides ==
  /\ "panel" \notin due \cup lost => panel = status
  /\ "alarm" \notin due \cup lost => (alarm <=> status # {})
==============================================================================

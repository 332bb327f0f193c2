------------------------------ MODULE SoftWatch ------------------------------
(***************************************************************************)
(* The watchdog of watchdog-manager (src/src/watchdog-manager/watch.cpp).  *)
(* Once a second it feeds the hardware dog and walks the directory of the  *)
(* soft watchdog, where each supervised process keeps a file with its pid, *)
(* the time of its last sign of life and the seconds it may be silent.     *)
(* A process that is late is killed and its file removed; one that cannot  *)
(* be killed, because it is in disk sleep, makes the system reboot.        *)
(*                                                                         *)
(* The processes and the dog are external: how a process writes its file   *)
(* (SoftDog.hpp) is not part of the repository and is modelled from how    *)
(* Watch reads it.  Opening the device of the dog, which activates it, may *)
(* fail, and so may each writing to it; main looks at neither result.  A   *)
(* step of the watchdog takes no time unless it sleeps.                    *)
(* The list of programs main supervises is always empty: ProgramWatch      *)
(* reads the configuration before SetConfigFilePath is called.             *)
(***************************************************************************)
EXTENDS Integers, FiniteSets

CONSTANTS
  Processes,    \* that use the soft watchdog
  Nobody,       \* no process
  DeadSeconds,  \* of each file
  MaxTries,     \* MAX_TRIES of SaveSystem
  RebootWait,   \* seconds SaveSystem waits for the reboot
  DogTime       \* seconds after which the hardware dog resets the system

ASSUME SoftWatchAssumption ==
  /\ IsFiniteSet(Processes) /\ Nobody \notin Processes
  /\ DeadSeconds \in Nat /\ MaxTries \in Nat \ {0} /\ RebootWait \in Nat \ {0}
  /\ DogTime \in Nat

(* The dog is slower than a walk that kills a process of every file.       *)
ASSUME DogIsSlow == DogTime > 1 + MaxTries * Cardinality(Processes)

VARIABLES
  proc,     \* of each process: "off", "alive" or "stuck" (in disk sleep)
  doomed,   \* SIGKILL is pending
  writing,  \* it has opened its file and not yet written it
  late,     \* auxiliary: it has let its time pass since it started
  file,     \* "none", "torn" (opened and still empty) or "whole"
  left,     \* seconds until the file says it is late, or since (negative)
  own,      \* the pid in the file is that of the running process
  pc,       \* where the watchdog is
  rest,     \* files ftw has still to visit
  at, pid,  \* the file Watch is called for, and the pid read from it:
            \* "none" (0), "own" or "gone" (of a process that has ended)
  tries,    \* of SaveSystem's loop, then the seconds it has waited
  opened,   \* m_fd is valid: Open has activated the hardware dog
  starved,  \* seconds since the active dog was fed
  missed,   \* auxiliary: a feeding of the active dog has failed since
  system    \* "up", or "down" while the system resets

processVars == <<proc, doomed, writing, late>>
fileVars == <<file, left, own>>
watchVars == <<pc, rest, at, pid, tries>>
dogVars == <<opened, starved, missed>>
vars == <<processVars, fileVars, watchVars, dogVars, system>>

TypeOK ==
  /\ proc \in [Processes -> {"off", "alive", "stuck"}]
  /\ doomed \in [Processes -> BOOLEAN] /\ writing \in [Processes -> BOOLEAN]
  /\ late \in [Processes -> BOOLEAN] /\ own \in [Processes -> BOOLEAN]
  /\ file \in [Processes -> {"none", "torn", "whole"}]
  /\ left \in [Processes -> Int] /\ \A p \in Processes : left[p] <= DeadSeconds
  /\ pc \in {"sleep", "feed", "walk", "state", "kill", "save", "wait", "reboot", "killed"}
  /\ rest \subseteq Processes
  /\ at \in Processes \cup {Nobody}
  /\ (pc \in {"state", "kill", "save", "wait"} => at \in Processes)
  /\ pid \in {"none", "own", "gone"}
  /\ tries \in 0 .. (IF MaxTries > RebootWait THEN MaxTries ELSE RebootWait)
  /\ opened \in BOOLEAN /\ missed \in BOOLEAN
  /\ starved \in 0 .. DogTime
  /\ system \in {"up", "down"}

------------------------------------------------------------------------------
All(value) == [p \in Processes |-> value]

(* main up to its loop: the directory is emptied and Open called.  The     *)
(* three feedings that follow come when the dog has just been activated.   *)
Init ==
  /\ proc = All("off") /\ doomed = All(FALSE) /\ writing = All(FALSE) /\ late = All(FALSE)
  /\ file = All("none") /\ left = All(0) /\ own = All(FALSE)
  /\ pc = "sleep" /\ rest = {} /\ at = Nobody /\ pid = "none" /\ tries = 0
  /\ opened \in BOOLEAN /\ starved = 0 /\ missed = FALSE
  /\ system = "up"

------------------------------------------------------------------------------
(* The supervised processes.                                               *)

Runs(p) == system = "up" /\ proc[p] = "alive" /\ ~doomed[p]

Start(p) ==
  /\ system = "up" /\ proc[p] = "off"
  /\ proc' = [proc EXCEPT ![p] = "alive"]
  /\ UNCHANGED <<doomed, writing, late, fileVars, watchVars, dogVars, system>>

(* A sign of life: the file is opened, which empties it, and written.      *)
OpenFile(p) ==
  /\ Runs(p) /\ ~writing[p]
  /\ writing' = [writing EXCEPT ![p] = TRUE]
  /\ file' = [file EXCEPT ![p] = "torn"]
  /\ left' = [left EXCEPT ![p] = 0]
  /\ UNCHANGED <<proc, doomed, late, own, watchVars, dogVars, system>>

(* When Watch has removed the file, what is written is lost with it.       *)
WriteFile(p) ==
  /\ Runs(p) /\ writing[p]
  /\ writing' = [writing EXCEPT ![p] = FALSE]
  /\ IF file[p] = "torn"
     THEN /\ file' = [file EXCEPT ![p] = "whole"]
          /\ left' = [left EXCEPT ![p] = DeadSeconds]
          /\ own' = [own EXCEPT ![p] = TRUE]
     ELSE UNCHANGED fileVars
  /\ UNCHANGED <<proc, doomed, late, watchVars, dogVars, system>>

Stick(p) ==
  /\ Runs(p)
  /\ proc' = [proc EXCEPT ![p] = "stuck"]
  /\ UNCHANGED <<doomed, writing, late, fileVars, watchVars, dogVars, system>>

Unstick(p) ==
  /\ system = "up" /\ proc[p] = "stuck"
  /\ proc' = [proc EXCEPT ![p] = "alive"]
  /\ UNCHANGED <<doomed, writing, late, fileVars, watchVars, dogVars, system>>

(* It is killed or ends by itself, and leaves its file behind.  A pid that *)
(* Watch has read is no longer its own.                                    *)
Ends(p) ==
  /\ proc' = [proc EXCEPT ![p] = "off"]
  /\ doomed' = [doomed EXCEPT ![p] = FALSE]
  /\ writing' = [writing EXCEPT ![p] = FALSE]
  /\ late' = [late EXCEPT ![p] = FALSE]
  /\ own' = [own EXCEPT ![p] = FALSE]
  /\ pid' = IF at = p /\ pid = "own" THEN "gone" ELSE pid
  /\ UNCHANGED <<file, left, pc, rest, at, tries, dogVars, system>>

Dies(p) == system = "up" /\ proc[p] = "alive" /\ doomed[p] /\ Ends(p)

Exits(p) == Runs(p) /\ Ends(p)

Process(p) ==
  \/ Start(p) \/ OpenFile(p) \/ WriteFile(p) \/ Stick(p) \/ Unstick(p)
  \/ Dies(p) \/ Exits(p)

------------------------------------------------------------------------------
(* The watchdog.                                                           *)

Kills == doomed' = IF pid = "own" THEN [doomed EXCEPT ![at] = TRUE] ELSE doomed

(* Variant: the state is not found in /proc (its line is another one).     *)
StateUnknown == FALSE

(* Variant: the process is there, in whatever state.                       *)
Exists == pid = "own"

(* GetPidState: a process that has ended has no state.                     *)
InDiskSleep == pid = "own" /\ proc[at] = "stuck"

(* A second passes, in one of the watchdog's sleeps.                       *)
Elapses ==
  /\ system = "up" /\ starved < DogTime
  /\ starved' = IF opened THEN starved + 1 ELSE starved
  /\ left' = [p \in Processes |-> IF file[p] = "whole" THEN left[p] - 1 ELSE left[p]]
  /\ late' = [p \in Processes |->
               late[p] \/ (file[p] = "whole" /\ own[p] /\ left[p] <= 0)]
  /\ UNCHANGED <<proc, doomed, writing, file, own, rest, at, pid, opened, missed, system>>

Sleep ==
  /\ pc = "sleep" /\ Elapses
  /\ pc' = "feed"
  /\ UNCHANGED tries

(* Watchdog::Feed writes to the device, which may fail and always does     *)
(* when the device is not open.                                            *)
Fed == opened /\ starved' = 0 /\ missed' = FALSE

NotFed == missed' = opened /\ UNCHANGED starved

(* The dog is fed, or not, and ftw begins.                                 *)
Feed ==
  /\ system = "up" /\ pc = "feed"
  /\ Fed \/ NotFed
  /\ rest' = {p \in Processes : file[p] # "none"}
  /\ pc' = "walk"
  /\ UNCHANGED <<processVars, fileVars, at, pid, tries, opened, system>>

WalkEnds ==
  /\ system = "up" /\ pc = "walk" /\ rest = {}
  /\ pc' = "sleep"
  /\ UNCHANGED <<processVars, fileVars, rest, at, pid, tries, dogVars, system>>

(* Variant: the process of a file that cannot be read is its owner.        *)
OwnerOf(p) == IF own[p] THEN "own" ELSE "gone"

(* fread: what cannot be read of the file keeps its default, no pid.       *)
PidIn(p) == IF file[p] = "torn" THEN "none" ELSE IF own[p] THEN "own" ELSE "gone"

(* Watch reads the file.  Of a file that cannot be read the time is over,  *)
(* and it is removed.                                                      *)
Look(p) ==
  /\ system = "up" /\ pc = "walk" /\ p \in rest
  /\ rest' = rest \ {p}
  /\ IF file[p] = "none" \/ (file[p] = "whole" /\ left[p] >= 0)
     THEN UNCHANGED <<pc, at, pid>>
     ELSE /\ at' = p
          /\ pid' = PidIn(p)
          /\ pc' = IF pid' = "none" THEN "kill" ELSE "state"
  /\ UNCHANGED <<processVars, fileVars, tries, dogVars, system>>

ReadState ==
  /\ system = "up" /\ pc = "state"
  /\ pc' = IF InDiskSleep THEN "save" ELSE "kill"
  /\ UNCHANGED <<processVars, fileVars, rest, at, pid, tries, dogVars, system>>

Kill ==
  /\ system = "up" /\ pc = "kill"
  /\ Kills
  /\ file' = [file EXCEPT ![at] = "none"]
  /\ left' = [left EXCEPT ![at] = 0] /\ own' = [own EXCEPT ![at] = FALSE]
  /\ pc' = "walk" /\ at' = Nobody /\ pid' = "none"
  /\ UNCHANGED <<proc, writing, late, rest, tries, dogVars, system>>

(* SaveSystem: the process is killed, and looked at a second later.        *)
SaveKill ==
  /\ system = "up" /\ pc = "save"
  /\ Kills
  /\ tries' = tries + 1
  /\ pc' = "wait"
  /\ UNCHANGED <<proc, writing, late, fileVars, rest, at, pid, dogVars, system>>

(* Variant: one try more than MAX_TRIES.                                   *)
TriesOnceMore == tries <= MaxTries

TriesAgain == tries < MaxTries

SaveSleep ==
  /\ pc = "wait" /\ Elapses
  /\ pc' = IF ~InDiskSleep THEN "kill" ELSE IF TriesAgain THEN "save" ELSE "reboot"
  /\ tries' = IF pc' = "save" THEN tries ELSE 0

(* Nothing is left of the system's state.                                  *)
GoesDown ==
  /\ system = "up" /\ system' = "down"
  /\ proc' = All("off") /\ doomed' = All(FALSE) /\ writing' = All(FALSE) /\ late' = All(FALSE)
  /\ file' = All("none") /\ left' = All(0) /\ own' = All(FALSE)
  /\ pc' = "sleep" /\ rest' = {} /\ at' = Nobody /\ pid' = "none" /\ tries' = 0
  /\ opened' = FALSE /\ starved' = 0 /\ missed' = FALSE

(* The reboot it asks for may fail; then it ends the watchdog.             *)
Reboots == pc = "reboot" /\ GoesDown

RebootFails ==
  /\ pc = "reboot" /\ Elapses
  /\ tries' = IF tries + 1 < RebootWait THEN tries + 1 ELSE 0
  /\ pc' = IF tries + 1 < RebootWait THEN "reboot" ELSE "killed"

Watchdog ==
  \/ Sleep \/ Feed \/ WalkEnds
  \/ \E p \in Processes : Look(p)
  \/ ReadState \/ Kill \/ SaveKill \/ SaveSleep
  \/ Reboots \/ RebootFails

------------------------------------------------------------------------------
(* The hardware.                                                           *)

(* With neither the watchdog nor the dog active time no longer matters.    *)
NobodyFeeds ==
  /\ pc = "killed" /\ opened /\ Elapses
  /\ UNCHANGED <<pc, tries>>

DogResets == starved = DogTime /\ GoesDown

(* main up to its loop: the directory is emptied, the dog opened and fed.  *)
Boot ==
  /\ system = "down" /\ system' = "up"
  /\ opened' \in BOOLEAN
  /\ UNCHANGED <<processVars, fileVars, watchVars, starved, missed>>

Hardware == NobodyFeeds \/ DogResets \/ Boot

Next == Watchdog \/ Hardware \/ \E p \in Processes : Process(p)

(* The watchdog and the hardware go on, and a signal is delivered.         *)
Spec ==
  /\ Init /\ [][Next]_vars
  /\ WF_vars(Watchdog) /\ WF_vars(Hardware)
  /\ \A p \in Processes : WF_vars(Dies(p))

------------------------------------------------------------------------------
(* Properties.                                                             *)

(* A process that is never late is never killed, whatever Watch has read   *)
(* of its file while it was being rewritten, and however often the process *)
(* that wrote the file before has been restarted.                          *)
KilledOnlyWhenLate == \A p \in Processes : doomed[p] => late[p]

(* Seconds between two feedings: one, and all of SaveSystem's tries for    *)
(* every file.                                                             *)
Round == 1 + MaxTries * Cardinality(Processes)

(* Processes in disk sleep delay the feeding, every one in a walk by all   *)
(* of SaveSystem's tries; unless one cannot be killed, or a feeding has    *)
(* failed since the last one, the dog is fed again before its time is over.*)
FedInTime ==
  pc \notin {"reboot", "killed"} /\ ~missed => starved <= Round

(* watch.cpp:114: a process that stays in disk sleep and cannot be killed  *)
(* is what the system is reset for.  SaveSystem gives up no process but    *)
(* one that is late and in disk sleep then, though the pid is seconds old, *)
(* and without that the system only resets when a feeding has failed.      *)
ResetOnlyForStuck ==
  [][/\ pc # "reboot" /\ pc' = "reboot" => late[at] /\ proc[at] = "stuck"
     /\ system = "up" /\ system' = "down" =>
          pc \in {"reboot", "killed"} \/ missed]_<<pc, late, proc, at, system>>

(* How long a file may say that a process is late before Watch is called   *)
(* for it: the walk it just missed, with all tries for processes in disk   *)
(* sleep, a second, and the walk that finds it.  So a process that hangs   *)
(* delays what is done about another, but not for ever, however often      *)
(* files are removed, rewritten and created while the watchdog walks.      *)
NoticedInTime ==
  \A p \in Processes :
    file[p] = "whole" /\ pc \notin {"reboot", "killed"} =>
      -left[p] <= 1 + MaxTries * (2 * Cardinality(Processes) - 1)

(* The file says that p is late, and Watch has not yet been called for it. *)
Noticeable(p) == file[p] = "whole" /\ own[p] /\ left[p] < 0 /\ at # p

(* watch.cpp:115: a process in disk sleep that cannot be killed makes the  *)
(* system reset.  A late process, working or in disk sleep, does not stay  *)
(* as it is: it ends, or it gives a sign of life, or the system is reset,  *)
(* even when the reboot fails, unless Open has not activated the dog.      *)
LateIsNoticed ==
  \A p \in Processes : \A s \in {"alive", "stuck"} :
    Noticeable(p) /\ proc[p] = s ~>
      \/ proc[p] # s \/ writing[p] \/ system = "down"
      \/ pc = "killed" /\ ~opened
==============================================================================

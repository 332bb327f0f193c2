--------------------------- MODULE SoftWatchProofs ---------------------------
(***************************************************************************)
(* Theorems about SoftWatch: types, the time without feeding, who is       *)
(* killed, and what resets the system.                                     *)
(***************************************************************************)
EXTENDS SoftWatch, FiniteSetTheorems, TLAPS

(* SaveSystem's counter, in its two loops.                                 *)
TriesInv ==
  /\ pc = "save" => tries < MaxTries
  /\ pc = "wait" => tries \in 1 .. MaxTries
  /\ pc = "reboot" => tries < RebootWait
  /\ pc \notin {"save", "wait", "reboot"} => tries = 0

(* Seconds the watchdog may spend on the files of S.                       *)
Budget(S) == MaxTries * Cardinality(S)

(* Unless a feeding has failed, what has passed since the last one and     *)
(* what the rest of the walk may take are within the budget of all files.  *)
Spent ==
  /\ pc = "sleep" => starved <= Budget(Processes)
  /\ pc = "feed" => starved <= 1 + Budget(Processes)
  /\ pc \in {"walk", "kill"} => starved + Budget(rest) <= Budget(Processes)
  /\ pc = "state" => starved + MaxTries + Budget(rest) <= Budget(Processes)
  /\ pc = "save" => starved + (MaxTries - tries) + Budget(rest) <= Budget(Processes)
  /\ pc = "wait" => starved + (MaxTries - tries) + 1 + Budget(rest) <= Budget(Processes)

FeedInv ==
  /\ ~opened \/ system = "down" => starved = 0
  /\ ~missed => Spent

(* Whoever is killed, or will be by the pid that was read, or whose file   *)
(* says so, has let its time pass.                                         *)
KillInv ==
  /\ \A p \in Processes : doomed[p] => late[p]
  /\ \A p \in Processes : file[p] = "whole" /\ own[p] /\ left[p] < 0 => late[p]
  /\ pid = "own" => at \in Processes /\ late[at]

IInv == TypeOK /\ TriesInv /\ FeedInv /\ KillInv

(* Seconds the watchdog may spend on the other files than a given one.      *)
Others == Budget(Processes) - MaxTries

(* Seconds the walk may still take.                                        *)
Ahead ==
  CASE pc \in {"walk", "kill"} -> Budget(rest)
    [] pc = "state" -> MaxTries + Budget(rest)
    [] pc = "save" -> (MaxTries - tries) + Budget(rest)
    [] pc = "wait" -> (MaxTries - tries) + 1 + Budget(rest)
    [] OTHER -> 0

(* A walk visits a file once.                                              *)
WalkInv ==
  /\ pc \in {"sleep", "feed"} => rest = {}
  /\ pc \in {"sleep", "feed", "walk"} => at = Nobody
  /\ at \notin rest

(* How late a file may be when the walk is over: one that is still to be   *)
(* visited has missed a walk, one that was visited was in time then.       *)
Limit(p) ==
  IF p \in rest \cup {at} THEN 1 + Others + Budget(Processes)
  ELSE IF pc = "feed" THEN 1 + Others ELSE Others

LateInv ==
  pc \notin {"reboot", "killed"} =>
    \A p \in Processes : file[p] = "whole" => Ahead - left[p] <= Limit(p)

NoticeInv == WalkInv /\ LateInv

------------------------------------------------------------------------------
(* The budget.                                                             *)

LEMMA BudgetFacts ==
  ASSUME NEW S, S \subseteq Processes
  PROVE  /\ Budget(S) \in Nat
         /\ Budget({}) = 0
         /\ Budget(S) <= Budget(Processes)
<1>1. IsFiniteSet(S) /\ IsFiniteSet(Processes) /\ MaxTries \in Nat
  BY SoftWatchAssumption, FS_Subset
<1>2. Cardinality(S) \in Nat /\ Cardinality(Processes) \in Nat
  BY <1>1, FS_CardinalityType
<1>3. Cardinality(S) <= Cardinality(Processes) BY <1>1, FS_Subset
<1>4. Cardinality({}) = 0 BY FS_EmptySet
<1>5. ASSUME NEW m \in Nat, NEW a \in Nat, NEW b \in Nat, a <= b
      PROVE  m * a <= m * b /\ m * a \in Nat
  <2>1. PICK d \in Nat : b = a + d
    <3>1. b - a \in Nat /\ b = a + (b - a) BY <1>5
    <3> QED BY <3>1
  <2>2. m * b = m * a + m * d /\ m * a \in Nat /\ m * d \in Nat BY <2>1
  <2> QED BY <2>2
<1> QED BY <1>1, <1>2, <1>3, <1>4, <1>5 DEF Budget

LEMMA BudgetOfOne ==
  ASSUME NEW S, S \subseteq Processes, NEW p \in S
  PROVE  Budget(S) = Budget(S \ {p}) + MaxTries
<1>1. IsFiniteSet(S) /\ MaxTries \in Nat BY SoftWatchAssumption, FS_Subset
<1>2. Cardinality(S \ {p}) = Cardinality(S) - 1 BY <1>1, FS_RemoveElement
<1>3. Cardinality(S) \in Nat /\ Cardinality(S \ {p}) \in Nat
  BY <1>1, FS_CardinalityType, FS_Subset, S \ {p} \subseteq S
<1>4. ASSUME NEW m \in Nat, NEW a \in Nat PROVE m * (a + 1) = m * a + m
  OBVIOUS
<1>5. Cardinality(S) = Cardinality(S \ {p}) + 1 BY <1>2, <1>3
<1> QED BY <1>1, <1>3, <1>4, <1>5 DEF Budget

------------------------------------------------------------------------------
(* What the groups of steps leave alone.                                   *)

LEMMA ProcessTouches ==
  ASSUME NEW p \in Processes, Process(p)
  PROVE  UNCHANGED <<pc, rest, at, tries, opened, starved, missed, system>>
  BY DEF Process, Start, OpenFile, WriteFile, Stick, Unstick, Dies, Exits, Ends,
         watchVars, fileVars, dogVars

LEMMA ElapsesTouches ==
  ASSUME TypeOK, Elapses
  PROVE  /\ UNCHANGED <<proc, doomed, writing, file, own, rest, at, pid, opened, missed, system>>
         /\ left' \in [Processes -> Int] /\ \A p \in Processes : left'[p] <= DeadSeconds
         /\ \A p \in Processes : file[p] = "whole" => left'[p] = left[p] - 1
         /\ late' \in [Processes -> BOOLEAN]
         /\ starved' = (IF opened THEN starved + 1 ELSE starved)
         /\ starved' \in 0 .. DogTime
<1>1. \A p \in Processes : left[p] \in Int /\ left[p] <= DeadSeconds
  BY DEF TypeOK
<1>2. \A p \in Processes :
        LET l == IF file[p] = "whole" THEN left[p] - 1 ELSE left[p]
        IN  l \in Int /\ l <= DeadSeconds
  BY <1>1, SoftWatchAssumption
<1>3. \A p \in Processes : (late[p] \/ (file[p] = "whole" /\ own[p] /\ left[p] <= 0)) \in BOOLEAN
  OBVIOUS
<1>4. starved \in Nat /\ DogTime \in Nat /\ starved < DogTime
  BY SoftWatchAssumption DEF TypeOK, Elapses
<1> QED BY <1>2, <1>3, <1>4 DEF Elapses

------------------------------------------------------------------------------
(* Types.                                                                  *)

LEMMA InitTypes == Init => TypeOK
<1> SUFFICES ASSUME Init PROVE TypeOK OBVIOUS
<1>1. opened \in BOOLEAN /\ missed \in BOOLEAN BY DEF Init
<1>2. starved \in 0 .. DogTime BY SoftWatchAssumption DEF Init
<1> QED BY <1>1, <1>2, SoftWatchAssumption DEF Init, TypeOK, All

LEMMA DownTypes ==
  ASSUME TypeOK, GoesDown
  PROVE  TypeOK'
<1>1. opened' \in BOOLEAN /\ missed' \in BOOLEAN BY DEF GoesDown
<1>2. starved' \in 0 .. DogTime BY SoftWatchAssumption DEF GoesDown
<1> QED BY <1>1, <1>2, SoftWatchAssumption DEF GoesDown, TypeOK, All

LEMMA ProcessTypes ==
  ASSUME TypeOK, NEW p \in Processes, Process(p)
  PROVE  TypeOK'
<1>1. CASE Start(p)
  BY <1>1 DEF Start, TypeOK, dogVars, fileVars, watchVars
<1>2. CASE OpenFile(p)
  BY <1>2, SoftWatchAssumption DEF OpenFile, TypeOK, dogVars, watchVars
<1>3. CASE WriteFile(p)
  <2>1. DeadSeconds \in Int /\ DeadSeconds <= DeadSeconds BY SoftWatchAssumption
  <2> QED BY <1>3, <2>1 DEF WriteFile, TypeOK, dogVars, fileVars, watchVars
<1>4. CASE Stick(p) \/ Unstick(p)
  BY <1>4 DEF Stick, Unstick, TypeOK, dogVars, fileVars, watchVars
<1>5. CASE Dies(p) \/ Exits(p)
  <2>1. Ends(p) BY <1>5 DEF Dies, Exits
  <2>2. /\ proc' \in [Processes -> {"off", "alive", "stuck"}]
        /\ doomed' \in [Processes -> BOOLEAN] /\ writing' \in [Processes -> BOOLEAN]
        /\ late' \in [Processes -> BOOLEAN] /\ own' \in [Processes -> BOOLEAN]
    BY <2>1 DEF Ends, TypeOK, dogVars
  <2>3. pid' \in {"none", "own", "gone"} BY <2>1 DEF Ends, TypeOK, dogVars
  <2>4. UNCHANGED <<file, left, pc, rest, at, tries, dogVars, system>>
    BY <2>1 DEF Ends
  <2> QED BY <2>2, <2>3, <2>4 DEF TypeOK, dogVars
<1> QED BY <1>1, <1>2, <1>3, <1>4, <1>5 DEF Process

LEMMA TriesBound ==
  /\ MaxTries \in Nat \ {0} /\ RebootWait \in Nat \ {0}
  /\ \A n \in Nat : n <= MaxTries \/ n <= RebootWait =>
       n \in 0 .. (IF MaxTries > RebootWait THEN MaxTries ELSE RebootWait)
  BY SoftWatchAssumption

LEMMA WatchdogTypes ==
  ASSUME TypeOK, TriesInv, Watchdog
  PROVE  TypeOK'
<1> USE SoftWatchAssumption
<1>0. tries \in Nat BY TriesBound DEF TypeOK, dogVars
<1>1. CASE Sleep
  BY <1>1, ElapsesTouches DEF Sleep, TypeOK, dogVars
<1>2. CASE Feed
  <2>1. opened' \in BOOLEAN /\ missed' \in BOOLEAN
    <3>1. opened' = opened /\ (missed' = FALSE \/ missed' = opened)
      BY <1>2 DEF Feed, Fed, NotFed
    <3> QED BY <3>1 DEF TypeOK
  <2>2. starved' \in 0 .. DogTime BY <1>2 DEF Feed, Fed, NotFed, TypeOK
  <2>3. pc' = "walk" /\ rest' \subseteq Processes BY <1>2 DEF Feed
  <2>4. UNCHANGED <<processVars, fileVars, at, pid, tries, system>> BY <1>2 DEF Feed
  <2> QED BY <2>1, <2>2, <2>3, <2>4 DEF TypeOK, processVars, fileVars
<1>3. CASE WalkEnds
  BY <1>3 DEF WalkEnds, TypeOK, dogVars, processVars, fileVars
<1>4. ASSUME NEW p \in Processes, Look(p) PROVE TypeOK'
  BY <1>4 DEF Look, PidIn, TypeOK, dogVars, processVars, fileVars
<1>5. CASE ReadState
  BY <1>5 DEF ReadState, TypeOK, dogVars, processVars, fileVars
<1>6. CASE Kill
  <2>1. 0 \in Int /\ 0 <= DeadSeconds OBVIOUS
  <2> QED BY <1>6, <2>1 DEF Kill, Kills, TypeOK, dogVars
<1>7. CASE SaveKill
  <2>1. tries' \in Nat /\ tries' <= MaxTries
    BY <1>0, <1>7, TriesBound DEF SaveKill, TriesInv
  <2> QED BY <1>7, <2>1, TriesBound DEF SaveKill, Kills, TypeOK, dogVars, fileVars
<1>8. CASE SaveSleep
  <2>1. tries' \in Nat /\ tries' <= MaxTries
    BY <1>0, <1>8, TriesBound DEF SaveSleep, TriesInv
  <2>2. pc' \in {"kill", "save", "reboot"} /\ pc = "wait" BY <1>8 DEF SaveSleep
  <2>3. Elapses BY <1>8 DEF SaveSleep
  <2> QED BY <2>1, <2>2, <2>3, TriesBound, ElapsesTouches DEF TypeOK, dogVars
<1>9. CASE Reboots
  BY <1>9, DownTypes DEF Reboots
<1>10. CASE RebootFails
  <2>1. tries' \in Nat /\ tries' <= RebootWait
    BY <1>0, <1>10, TriesBound DEF RebootFails
  <2>2. pc' \in {"reboot", "killed"} /\ Elapses BY <1>10 DEF RebootFails
  <2> QED BY <2>1, <2>2, TriesBound, ElapsesTouches DEF TypeOK, dogVars
<1> QED BY <1>1, <1>2, <1>3, <1>4, <1>5, <1>6, <1>7, <1>8, <1>9, <1>10 DEF Watchdog

LEMMA HardwareTypes ==
  ASSUME TypeOK, Hardware
  PROVE  TypeOK'
<1>1. CASE NobodyFeeds
  BY <1>1, ElapsesTouches DEF NobodyFeeds, TypeOK, dogVars
<1>2. CASE DogResets
  BY <1>2, DownTypes DEF DogResets
<1>3. CASE Boot
  BY <1>3 DEF Boot, TypeOK, dogVars, processVars, fileVars, watchVars
<1> QED BY <1>1, <1>2, <1>3 DEF Hardware

LEMMA StutterTypes == TypeOK /\ UNCHANGED vars => TypeOK'
  BY DEF TypeOK, dogVars, vars, processVars, fileVars, watchVars, dogVars

------------------------------------------------------------------------------
(* SaveSystem's counter.                                                   *)

LEMMA InitTries == Init => TriesInv
  BY SoftWatchAssumption DEF Init, TriesInv

LEMMA DownTries == GoesDown => TriesInv'
  BY DEF GoesDown, TriesInv

LEMMA TriesKept ==
  ASSUME TypeOK, TriesInv, Next
  PROVE  TriesInv'
<1> USE SoftWatchAssumption
<1>0. tries \in Nat BY TriesBound DEF TypeOK
<1>1. ASSUME NEW p \in Processes, Process(p) PROVE TriesInv'
  BY <1>1, ProcessTouches DEF TriesInv
<1>2. CASE Sleep \/ Feed \/ WalkEnds
  BY <1>2 DEF Sleep, Feed, WalkEnds, TriesInv
<1>3. ASSUME NEW p \in Processes, Look(p) PROVE TriesInv'
  BY <1>3 DEF Look, TriesInv
<1>4. CASE ReadState \/ Kill
  BY <1>4, <1>0 DEF ReadState, Kill, TriesInv
<1>5. CASE SaveKill
  BY <1>5, <1>0 DEF SaveKill, TriesInv
<1>6. CASE SaveSleep
  BY <1>6, <1>0 DEF SaveSleep, TriesAgain, TriesInv
<1>7. CASE RebootFails
  BY <1>7, <1>0 DEF RebootFails, TriesInv
<1>8. CASE Reboots \/ DogResets
  BY <1>8, DownTries DEF Reboots, DogResets
<1>9. CASE NobodyFeeds \/ Boot
  BY <1>9 DEF NobodyFeeds, Boot, watchVars, TriesInv
<1> QED BY <1>1, <1>2, <1>3, <1>4, <1>5, <1>6, <1>7, <1>8, <1>9
        DEF Next, Watchdog, Hardware

------------------------------------------------------------------------------
(* The time without feeding.                                               *)

LEMMA InitFeed == Init => FeedInv
<1>1. Budget(Processes) \in Nat BY BudgetFacts
<1> HIDE DEF Budget
<1> QED BY <1>1 DEF Init, FeedInv, Spent

LEMMA DownFeed == GoesDown => FeedInv'
<1>1. Budget(Processes) \in Nat BY BudgetFacts
<1> HIDE DEF Budget
<1> QED BY <1>1 DEF GoesDown, FeedInv, Spent

LEMMA FeedKept ==
  ASSUME TypeOK, TriesInv, FeedInv, Next
  PROVE  FeedInv'
<1> DEFINE all == Budget(Processes)
           before == Budget(rest)
           after == Budget(rest')
<1> USE SoftWatchAssumption
<1>a. tries \in Nat /\ starved \in Nat /\ rest \subseteq Processes BY TriesBound DEF TypeOK
<1>b. TypeOK' BY ProcessTypes, WatchdogTypes, HardwareTypes DEF Next
<1>c. rest' \subseteq Processes BY <1>b DEF TypeOK
<1>d. all \in Nat /\ before \in Nat /\ after \in Nat /\ after <= all
  BY <1>a, <1>c, BudgetFacts
<1>e. rest = {} => before = 0 BY BudgetFacts
<1>f. ASSUME NEW p \in rest, rest' = rest \ {p} PROVE before = after + MaxTries
  BY <1>a, <1>f, BudgetOfOne
<1>g. rest' = rest => after = before OBVIOUS
<1>h. Spent <=>
        /\ pc = "sleep" => starved <= all
        /\ pc = "feed" => starved <= 1 + all
        /\ pc \in {"walk", "kill"} => starved + before <= all
        /\ pc = "state" => starved + MaxTries + before <= all
        /\ pc = "save" => starved + (MaxTries - tries) + before <= all
        /\ pc = "wait" => starved + (MaxTries - tries) + 1 + before <= all
  BY DEF Spent
<1>i. Spent' <=>
        /\ pc' = "sleep" => starved' <= all
        /\ pc' = "feed" => starved' <= 1 + all
        /\ pc' \in {"walk", "kill"} => starved' + after <= all
        /\ pc' = "state" => starved' + MaxTries + after <= all
        /\ pc' = "save" => starved' + (MaxTries - tries') + after <= all
        /\ pc' = "wait" => starved' + (MaxTries - tries') + 1 + after <= all
  BY DEF Spent
<1>j. Elapses => /\ starved' = (IF opened THEN starved + 1 ELSE starved)
                 /\ UNCHANGED <<rest, opened, missed>>
                 /\ system = "up" /\ system' = "up"
  BY ElapsesTouches DEF Elapses
<1>k. /\ ~opened \/ system = "down" => starved = 0
      /\ ~missed => Spent
  BY DEF FeedInv
<1>m. FeedInv' <=> (~opened' \/ system' = "down" => starved' = 0) /\ (~missed' => Spent')
  BY DEF FeedInv
<1> HIDE DEF all, before, after
<1>1. ASSUME NEW p \in Processes, Process(p) PROVE FeedInv'
  BY <1>1, <1>g, <1>h, <1>i, <1>k, <1>m, ProcessTouches
<1>2. CASE Sleep
  BY <1>2, <1>a, <1>d, <1>h, <1>i, <1>k, <1>m, <1>j DEF Sleep
<1>3. CASE Feed
  BY <1>3, <1>d, <1>i, <1>k, <1>m DEF Feed, Fed, NotFed
<1>4. CASE WalkEnds
  BY <1>4, <1>a, <1>d, <1>e, <1>h, <1>i, <1>k, <1>m DEF WalkEnds, dogVars
<1>5. ASSUME NEW p \in Processes, Look(p) PROVE FeedInv'
  <2>1. before = after + MaxTries BY <1>5, <1>f DEF Look
  <2>2. pc = "walk" /\ pc' \in {"walk", "kill", "state"} /\ UNCHANGED <<opened, starved, missed, system>>
    BY <1>5 DEF Look, dogVars
  <2> QED BY <2>1, <2>2, <1>a, <1>d, <1>h, <1>i, <1>k, <1>m
<1>6. CASE ReadState
  BY <1>6, <1>a, <1>d, <1>g, <1>h, <1>i, <1>k, <1>m DEF ReadState, TriesInv, dogVars
<1>7. CASE Kill
  BY <1>7, <1>a, <1>d, <1>g, <1>h, <1>i, <1>k, <1>m DEF Kill, dogVars
<1>8. CASE SaveKill
  BY <1>8, <1>a, <1>d, <1>g, <1>h, <1>i, <1>k, <1>m DEF SaveKill, dogVars
<1>9. CASE SaveSleep
  <2>1. /\ pc = "wait" /\ pc' \in {"kill", "save", "reboot"}
        /\ pc' = "save" => tries' = tries
    BY <1>9 DEF SaveSleep
  <2>2. tries \in 1 .. MaxTries BY <2>1 DEF TriesInv, dogVars
  <2>3. /\ starved' = (IF opened THEN starved + 1 ELSE starved)
        /\ UNCHANGED <<rest, opened, missed, system>>
        /\ system = "up"
    BY <1>9, <1>j DEF SaveSleep
  <2> QED BY <2>1, <2>2, <2>3, <1>a, <1>d, <1>g, <1>h, <1>i, <1>k, <1>m
<1>10. CASE RebootFails \/ NobodyFeeds
  BY <1>10, <1>i, <1>j, <1>k, <1>m DEF RebootFails, NobodyFeeds
<1>11. CASE Reboots \/ DogResets
  BY <1>11, DownFeed DEF Reboots, DogResets
<1>12. CASE Boot
  BY <1>12, <1>g, <1>h, <1>i, <1>k, <1>m DEF Boot, watchVars
<1> QED BY <1>1, <1>2, <1>3, <1>4, <1>5, <1>6, <1>7, <1>8, <1>9, <1>10, <1>11, <1>12
        DEF Next, Watchdog, Hardware

------------------------------------------------------------------------------
(* Who is killed.                                                          *)

LEMMA InitKill == Init => KillInv
  BY DEF Init, KillInv, All

LEMMA DownKill == GoesDown => KillInv'
  BY DEF GoesDown, KillInv, All

LEMMA ElapsesKill ==
  ASSUME TypeOK, KillInv, Elapses
  PROVE  KillInv'
<1>1. UNCHANGED <<doomed, file, own, at, pid>> BY ElapsesTouches
<1>2. \A p \in Processes :
        late'[p] = (late[p] \/ (file[p] = "whole" /\ own[p] /\ left[p] <= 0))
  BY DEF Elapses
<1>3. \A p \in Processes : late[p] => late'[p] BY <1>2
<1>4. ASSUME NEW p \in Processes, file[p] = "whole", own[p], left'[p] < 0
      PROVE  late'[p]
  <2>1. left'[p] = left[p] - 1
    BY <1>4, ElapsesTouches
  <2>2. left[p] \in Int BY DEF TypeOK
  <2>3. left[p] <= 0 BY <1>4, <2>1, <2>2
  <2> QED BY <1>2, <1>4, <2>3
<1> QED BY <1>1, <1>3, <1>4 DEF KillInv

LEMMA ProcessKill ==
  ASSUME TypeOK, KillInv, NEW q \in Processes, Process(q)
  PROVE  KillInv'
<1>1. CASE Start(q) \/ Stick(q) \/ Unstick(q)
  BY <1>1 DEF Start, Stick, Unstick, KillInv, fileVars, watchVars
<1>2. CASE OpenFile(q)
  BY <1>2 DEF OpenFile, KillInv, TypeOK, watchVars
<1>3. CASE WriteFile(q)
  <2>1. UNCHANGED <<doomed, late, at, pid>> BY <1>3 DEF WriteFile, watchVars
  <2>2. ASSUME NEW p \in Processes, file'[p] = "whole", own'[p], left'[p] < 0
        PROVE  late'[p]
    <3>1. CASE UNCHANGED fileVars BY <2>1, <2>2, <3>1 DEF KillInv, fileVars
    <3>2. CASE p # q BY <1>3, <2>1, <2>2, <3>2 DEF WriteFile, KillInv, TypeOK, fileVars
    <3>3. CASE p = q /\ file[q] = "torn"
      <4>1. left'[p] = DeadSeconds BY <1>3, <3>3 DEF WriteFile, TypeOK
      <4> QED BY <2>2, <4>1, SoftWatchAssumption
    <3> QED BY <1>3, <3>1, <3>2, <3>3 DEF WriteFile
  <2> QED BY <2>1, <2>2 DEF KillInv
<1>4. CASE Dies(q) \/ Exits(q)
  <2>1. Ends(q) BY <1>4 DEF Dies, Exits
  <2>2. /\ ~doomed'[q] /\ ~own'[q]
        /\ \A p \in Processes \ {q} : /\ doomed'[p] = doomed[p] /\ late'[p] = late[p]
                                      /\ own'[p] = own[p]
        /\ file' = file /\ left' = left /\ at' = at
    BY <2>1 DEF Ends, TypeOK
  <2>3. pid' = "own" => pid = "own" /\ at # q BY <2>1 DEF Ends
  <2>4. pid' = "own" => at' \in Processes /\ late'[at'] BY <2>2, <2>3 DEF KillInv
  <2> QED BY <2>2, <2>4 DEF KillInv
<1> QED BY <1>1, <1>2, <1>3, <1>4 DEF Process

LEMMA KillsKill ==
  ASSUME TypeOK, KillInv, Kills, UNCHANGED late, at \in Processes
  PROVE  \A p \in Processes : doomed'[p] => late'[p]
<1>1. CASE pid = "own"
  BY <1>1 DEF Kills, KillInv, TypeOK
<1>2. CASE pid # "own"
  BY <1>2 DEF Kills, KillInv
<1> QED BY <1>1, <1>2

LEMMA LookKill ==
  ASSUME TypeOK, KillInv, NEW q \in Processes, Look(q)
  PROVE  KillInv'
<1>1. UNCHANGED <<doomed, late, fileVars>> BY DEF Look, processVars
<1>2. CASE UNCHANGED <<pc, at, pid>>
  BY <1>1, <1>2 DEF KillInv, fileVars
<1>3. CASE ~(file[q] = "none" \/ (file[q] = "whole" /\ left[q] >= 0))
  <2>1. at' = q /\ pid' = PidIn(q) BY <1>3 DEF Look
  <2>2. ASSUME pid' = "own" PROVE late[q]
    <3>1. file[q] # "torn" /\ own[q] BY <2>1, <2>2 DEF PidIn
    <3>2. file[q] = "whole" BY <1>3, <3>1 DEF TypeOK
    <3>3. left[q] \in Int /\ ~(left[q] >= 0) BY <1>3, <3>2 DEF TypeOK
    <3>4. left[q] < 0 BY <3>3
    <3> QED BY <3>1, <3>2, <3>4 DEF KillInv
  <2> QED BY <1>1, <2>1, <2>2 DEF KillInv, fileVars
<1> QED BY <1>2, <1>3 DEF Look

LEMMA KillKept ==
  ASSUME TypeOK, KillInv, Next
  PROVE  KillInv'
<1>1. ASSUME NEW p \in Processes, Process(p) PROVE KillInv'
  BY <1>1, ProcessKill
<1>2. ASSUME NEW p \in Processes, Look(p) PROVE KillInv'
  BY <1>2, LookKill
<1>3. CASE Feed \/ WalkEnds \/ ReadState
  BY <1>3 DEF Feed, WalkEnds, ReadState, KillInv, processVars, fileVars
<1>4. CASE Kill
  <2>1. at \in Processes BY <1>4 DEF Kill, TypeOK
  <2>2. \A p \in Processes : doomed'[p] => late'[p]
    BY <1>4, <2>1, KillsKill DEF Kill
  <2>3. \A p \in Processes : file'[p] = "whole" => /\ file[p] = "whole" /\ own'[p] = own[p]
                                                  /\ left'[p] = left[p]
    BY <1>4, <2>1 DEF Kill, TypeOK
  <2> QED BY <1>4, <2>2, <2>3 DEF Kill, KillInv
<1>5. CASE SaveKill
  <2>1. at \in Processes BY <1>5 DEF SaveKill, TypeOK
  <2>2. \A p \in Processes : doomed'[p] => late'[p]
    BY <1>5, <2>1, KillsKill DEF SaveKill
  <2> QED BY <1>5, <2>2 DEF SaveKill, KillInv, fileVars
<1>6. CASE Sleep \/ SaveSleep \/ RebootFails \/ NobodyFeeds
  BY <1>6, ElapsesKill DEF Sleep, SaveSleep, RebootFails, NobodyFeeds
<1>7. CASE Reboots \/ DogResets
  BY <1>7, DownKill DEF Reboots, DogResets
<1>8. CASE Boot
  BY <1>8 DEF Boot, KillInv, processVars, fileVars, watchVars
<1> QED BY <1>1, <1>2, <1>3, <1>4, <1>5, <1>6, <1>7, <1>8 DEF Next, Watchdog, Hardware

------------------------------------------------------------------------------
(* The inductive invariant.                                                *)

LEMMA InvInit == Init => IInv
  BY InitTypes, InitTries, InitFeed, InitKill DEF IInv

LEMMA InvKept == IInv /\ [Next]_vars => IInv'
<1>1. ASSUME IInv, Next PROVE IInv'
  <2>1. TypeOK' BY <1>1, ProcessTypes, WatchdogTypes, HardwareTypes DEF IInv, Next
  <2> QED BY <1>1, <2>1, TriesKept, FeedKept, KillKept DEF IInv
<1>2. ASSUME IInv, UNCHANGED vars PROVE IInv'
  BY <1>2, StutterTypes
     DEF IInv, TriesInv, FeedInv, Spent, KillInv, vars, processVars, fileVars, watchVars,
         dogVars
<1> QED BY <1>1, <1>2

LEMMA Safety == Spec => []IInv
  BY InvInit, InvKept, PTL DEF Spec

------------------------------------------------------------------------------
(* How long a late file waits.                                             *)

LEMMA OthersFacts ==
  ASSUME NEW p \in Processes
  PROVE  /\ Others \in Nat /\ Budget(Processes) \in Nat
         /\ Budget(Processes) = Others + MaxTries
         /\ \A S \in SUBSET (Processes \ {p}) : Budget(S) <= Others
<1>1. Budget(Processes) = Budget(Processes \ {p}) + MaxTries
  BY BudgetOfOne
<1>2. Budget(Processes \ {p}) \in Nat /\ Budget(Processes) \in Nat
  BY BudgetFacts
<1>3. MaxTries \in Nat BY SoftWatchAssumption
<1>4. Others = Budget(Processes \ {p}) BY <1>1, <1>2, <1>3 DEF Others
<1>5. ASSUME NEW S \in SUBSET (Processes \ {p}) PROVE Budget(S) <= Budget(Processes \ {p})
  <2>1. IsFiniteSet(Processes \ {p}) /\ IsFiniteSet(S)
    BY SoftWatchAssumption, FS_Subset
  <2>2. Cardinality(S) <= Cardinality(Processes \ {p}) BY <2>1, FS_Subset
  <2>3. Cardinality(S) \in Nat /\ Cardinality(Processes \ {p}) \in Nat
    BY <2>1, FS_CardinalityType
  <2>4. ASSUME NEW m \in Nat, NEW a \in Nat, NEW d \in Nat PROVE m * a <= m * (a + d)
    <3>1. m * (a + d) = m * a + m * d /\ m * a \in Nat /\ m * d \in Nat OBVIOUS
    <3> QED BY <3>1
  <2>5. PICK d \in Nat : Cardinality(Processes \ {p}) = Cardinality(S) + d
    <3>1. Cardinality(Processes \ {p}) - Cardinality(S) \in Nat BY <2>2, <2>3
    <3> QED BY <3>1, <2>3
  <2> QED BY <1>3, <2>3, <2>4, <2>5 DEF Budget
<1> QED BY <1>1, <1>2, <1>3, <1>4, <1>5

(* What is left of the walk is spent on the files it has still to visit.   *)
LEMMA AheadBound ==
  ASSUME TypeOK, TriesInv, WalkInv
  PROVE  /\ Ahead \in Int
         /\ pc \notin {"reboot", "killed"} => Ahead \in 0 .. Budget(Processes)
         /\ \A p \in Processes : p \notin rest \cup {at} => Ahead <= Others
<1>1. /\ Budget(rest) \in Nat /\ Budget(Processes) \in Nat
      /\ tries \in Nat /\ starved \in Nat /\ MaxTries \in Nat
  BY BudgetFacts, TriesBound, SoftWatchAssumption DEF TypeOK
<1>2. pc \in {"save", "wait"} => MaxTries - tries \in Nat
  BY <1>1 DEF TriesInv
<1>3. pc = "save" => tries < MaxTries BY DEF TriesInv
<1>4. pc = "wait" => tries >= 1 BY <1>1 DEF TriesInv
<1>5. Ahead \in Int
  <2> HIDE DEF Budget
  <2> QED BY <1>1 DEF Ahead
<1>6. pc \notin {"reboot", "killed"} => Ahead \in 0 .. Budget(Processes)
  <2>1. Budget(rest) <= Budget(Processes) BY BudgetFacts DEF TypeOK
  <2>2. pc \in {"state", "save", "wait"} => Budget(rest) + MaxTries <= Budget(Processes)
    <3>1. SUFFICES ASSUME at \in Processes
                   PROVE  Budget(rest) + MaxTries <= Budget(Processes)
      BY DEF TypeOK
    <3> DEFINE S == rest \cup {at}
    <3>2. S \subseteq Processes /\ S \ {at} = rest /\ at \in S
      BY <3>1 DEF TypeOK, WalkInv
    <3>3. Budget(S) = Budget(rest) + MaxTries BY <3>2, BudgetOfOne
    <3> QED BY <3>2, <3>3, BudgetFacts
  <2> HIDE DEF Budget
  <2> QED BY <1>1, <1>2, <1>4, <2>1, <2>2 DEF Ahead, TypeOK
<1>7. ASSUME NEW p \in Processes, p \notin rest \cup {at} PROVE Ahead <= Others
  <2>1. Others \in Nat /\ Budget(rest) <= Others
    <3>1. rest \in SUBSET (Processes \ {p}) BY <1>7 DEF TypeOK
    <3> QED BY <3>1, OthersFacts
  <2>2. pc \in {"state", "save", "wait"} => Budget(rest) + MaxTries <= Others
    <3>1. SUFFICES ASSUME at \in Processes
                   PROVE  Budget(rest) + MaxTries <= Others
      BY DEF TypeOK
    <3>2. at \notin rest /\ at # p BY <1>7 DEF WalkInv
    <3> DEFINE S == rest \cup {at}
    <3>3. S \subseteq Processes /\ S \ {at} = rest /\ S \in SUBSET (Processes \ {p})
      BY <1>7, <3>1, <3>2 DEF TypeOK
    <3>4. Budget(S) = Budget(rest) + MaxTries BY <3>3, BudgetOfOne, at \in S
    <3>5. Budget(S) <= Others BY <3>3, OthersFacts
    <3> QED BY <3>4, <3>5
  <2>3. pc \in {"save", "wait"} => tries <= MaxTries BY <1>1, <1>2
  <2> HIDE DEF Budget, Others
  <2> QED BY <1>1, <1>4, <2>1, <2>2, <2>3 DEF Ahead
<1> QED BY <1>5, <1>6, <1>7

LEMMA WalkKept ==
  ASSUME TypeOK, WalkInv, Next
  PROVE  WalkInv'
<1>1. ASSUME NEW p \in Processes, Process(p) PROVE WalkInv'
  BY <1>1, ProcessTouches DEF WalkInv
<1>2. CASE Sleep
  BY <1>2, ElapsesTouches DEF Sleep, WalkInv
<1>3. CASE Feed
  BY <1>3, SoftWatchAssumption DEF Feed, WalkInv
<1>4. CASE WalkEnds \/ ReadState
  BY <1>4 DEF WalkEnds, ReadState, WalkInv
<1>5. ASSUME NEW p \in Processes, Look(p) PROVE WalkInv'
  BY <1>5 DEF Look, WalkInv
<1>6. CASE Kill
  BY <1>6, SoftWatchAssumption DEF Kill, WalkInv, TypeOK
<1>7. CASE SaveKill
  BY <1>7 DEF SaveKill, WalkInv
<1>8. CASE SaveSleep
  BY <1>8, ElapsesTouches DEF SaveSleep, WalkInv
<1>9. CASE RebootFails \/ NobodyFeeds
  BY <1>9, ElapsesTouches DEF RebootFails, NobodyFeeds, WalkInv
<1>10. CASE Reboots \/ DogResets
  BY <1>10, SoftWatchAssumption DEF Reboots, DogResets, GoesDown, WalkInv
<1>11. CASE Boot
  BY <1>11 DEF Boot, watchVars, WalkInv
<1> QED BY <1>1, <1>2, <1>3, <1>4, <1>5, <1>6, <1>7, <1>8, <1>9, <1>10, <1>11
        DEF Next, Watchdog, Hardware

(* A process rewrites its own file, which is then in time.                 *)
LEMMA ProcessFiles ==
  ASSUME TypeOK, NEW q \in Processes, Process(q), NEW p \in Processes, file'[p] = "whole"
  PROVE  (file[p] = "whole" /\ left'[p] = left[p]) \/ left'[p] = DeadSeconds
<1>1. CASE Start(q) \/ Stick(q) \/ Unstick(q)
  BY <1>1 DEF Start, Stick, Unstick, fileVars
<1>2. CASE OpenFile(q)
  BY <1>2 DEF OpenFile, TypeOK
<1>3. CASE WriteFile(q)
  BY <1>3 DEF WriteFile, TypeOK, fileVars
<1>4. CASE Dies(q) \/ Exits(q)
  BY <1>4 DEF Dies, Exits, Ends
<1> QED BY <1>1, <1>2, <1>3, <1>4 DEF Process

LEMMA LateKept ==
  ASSUME IInv, NoticeInv, Next
  PROVE  LateInv'
<1> USE DEF IInv, NoticeInv
<1> SUFFICES ASSUME pc' \notin {"reboot", "killed"}, NEW p \in Processes, file'[p] = "whole"
             PROVE  Ahead' - left'[p] <= Limit(p)'
  BY DEF LateInv
<1> DEFINE all == Budget(Processes)
           before == Budget(rest)
           after == Budget(rest')
           ahead1 == p \in rest \cup {at}
           ahead2 == p \in rest' \cup {at'}
<1>a. /\ Others \in Nat /\ all \in Nat /\ all = Others + MaxTries
      /\ MaxTries \in Nat /\ DeadSeconds \in Nat /\ tries \in Nat
  BY OthersFacts, SoftWatchAssumption, TriesBound DEF TypeOK
<1>b. TypeOK' /\ WalkInv'
  BY WalkKept, ProcessTypes, WatchdogTypes, HardwareTypes DEF Next
<1>c. left[p] \in Int /\ left'[p] \in Int BY <1>b DEF TypeOK
<1>d. before \in Nat /\ after \in Nat /\ after <= all /\ (rest = {} => before = 0)
  BY <1>b, BudgetFacts DEF TypeOK
<1>e. Ahead =
        CASE pc \in {"walk", "kill"} -> before
          [] pc = "state" -> MaxTries + before
          [] pc = "save" -> (MaxTries - tries) + before
          [] pc = "wait" -> (MaxTries - tries) + 1 + before
          [] OTHER -> 0
  BY DEF Ahead
<1>f. Ahead' =
        CASE pc' \in {"walk", "kill"} -> after
          [] pc' = "state" -> MaxTries + after
          [] pc' = "save" -> (MaxTries - tries') + after
          [] pc' = "wait" -> (MaxTries - tries') + 1 + after
          [] OTHER -> 0
  BY DEF Ahead
<1>g. /\ Limit(p) = IF ahead1 THEN 1 + Others + all
                    ELSE IF pc = "feed" THEN 1 + Others ELSE Others
      /\ Limit(p)' = IF ahead2 THEN 1 + Others + all
                     ELSE IF pc' = "feed" THEN 1 + Others ELSE Others
  BY DEF Limit, Others, Budget
<1>h. pc \notin {"reboot", "killed"} /\ file[p] = "whole" => Ahead - left[p] <= Limit(p)
  BY DEF LateInv
<1>i. /\ Ahead \in Int /\ Ahead' \in Int
      /\ pc \notin {"reboot", "killed"} => Ahead \in 0 .. all
      /\ ~ahead1 => Ahead <= Others
  <2>1. Ahead' \in Int
    <3>1. tries' \in Nat BY <1>b, TriesBound DEF TypeOK
    <3> HIDE DEF before, after
    <3> QED BY <1>a, <1>d, <1>f, <3>1
  <2> QED BY <2>1, AheadBound
<1>j. rest' = rest => after = before OBVIOUS
<1>k. p # Nobody BY SoftWatchAssumption
<1>l. (rest' = rest /\ at' = at) => ahead2 = ahead1 OBVIOUS
<1> HIDE DEF all, before, after
<1>1. ASSUME NEW q \in Processes, Process(q) PROVE Ahead' - left'[p] <= Limit(p)'
  <2>1. UNCHANGED <<pc, rest, at, tries>> BY <1>1, ProcessTouches
  <2>2. Ahead' = Ahead /\ Limit(p)' = Limit(p)
    BY <2>1, <1>e, <1>f, <1>g, <1>j, <1>l
  <2>3. CASE file[p] = "whole" /\ left'[p] = left[p]
    BY <2>1, <2>2, <2>3, <1>h
  <2>4. CASE left'[p] = DeadSeconds
    BY <2>1, <2>2, <2>4, <1>a, <1>g, <1>i
  <2> QED BY <1>1, <2>3, <2>4, ProcessFiles
<1>2. CASE Sleep
  <2>1. pc = "sleep" /\ pc' = "feed" /\ UNCHANGED <<rest, at, file>>
    BY <1>2, ElapsesTouches DEF Sleep
  <2>2. left'[p] = left[p] - 1 BY <1>2, <2>1, ElapsesTouches DEF Sleep
  <2>3. ~ahead1 BY <2>1, <1>k DEF WalkInv
  <2> QED BY <2>1, <2>2, <2>3, <1>a, <1>c, <1>e, <1>f, <1>g, <1>h, <1>l
<1>3. CASE Feed
  <2>1. pc = "feed" /\ pc' = "walk" /\ p \in rest' /\ UNCHANGED <<left, file>>
    BY <1>3 DEF Feed, fileVars
  <2>2. Ahead - left[p] <= 1 + Others /\ Ahead = 0
    BY <2>1, <1>e, <1>g, <1>h, <1>k DEF WalkInv
  <2>3. Ahead' <= all /\ Limit(p)' = 1 + Others + all
    BY <2>1, <1>d, <1>f, <1>g
  <2> QED BY <2>1, <2>2, <2>3, <1>a, <1>c, <1>i
<1>4. CASE WalkEnds
  <2>1. pc = "walk" /\ pc' = "sleep" /\ rest = {} /\ UNCHANGED <<rest, at, left, file>>
    BY <1>4 DEF WalkEnds, fileVars
  <2> QED BY <2>1, <1>d, <1>e, <1>f, <1>g, <1>h, <1>l
<1>5. ASSUME NEW q \in Processes, Look(q) PROVE Ahead' - left'[p] <= Limit(p)'
  <2>1. /\ pc = "walk" /\ q \in rest /\ rest' = rest \ {q} /\ at = Nobody
        /\ UNCHANGED <<left, file, tries>>
    BY <1>5 DEF Look, fileVars, WalkInv
  <2>2. before = after + MaxTries
    BY <2>1, BudgetOfOne DEF before, after, TypeOK
  <2>3. /\ pc' \in {"walk", "kill", "state"} /\ Ahead = before
        /\ Ahead' <= Ahead
    <3>1. pc' \in {"walk", "kill", "state"} BY <1>5, <2>1 DEF Look
    <3> QED BY <3>1, <2>1, <2>2, <1>a, <1>d, <1>e, <1>f
  <2>4. CASE ahead2 /\ ahead1
    BY <2>1, <2>3, <2>4, <1>a, <1>c, <1>g, <1>h, <1>i
  <2>5. CASE ~ahead1
    <3>1. p # q BY <2>1, <2>5
    <3>2. ~ahead2 BY <1>5, <2>1, <2>5, <3>1 DEF Look
    <3> QED BY <3>2, <2>1, <2>3, <2>5, <1>a, <1>c, <1>g, <1>h, <1>i
  <2>6. CASE ahead1 /\ ~ahead2
    <3>1. p = q BY <2>1, <2>6, <1>k
    <3>2. left[p] >= 0 /\ pc' = "walk"
      BY <1>5, <2>1, <2>6, <3>1 DEF Look
    <3>3. after <= Others
      <4>1. rest' \in SUBSET (Processes \ {p}) BY <2>1, <3>1 DEF TypeOK
      <4> QED BY <4>1, OthersFacts DEF after
    <3>4. Ahead' = after /\ Limit(p)' = Others BY <2>6, <3>2, <1>f, <1>g
    <3> QED BY <2>1, <3>2, <3>3, <3>4, <1>a, <1>c, <1>d
  <2> QED BY <2>4, <2>5, <2>6
<1>6. CASE ReadState
  <2>1. pc = "state" /\ pc' \in {"save", "kill"} /\ UNCHANGED <<rest, at, left, file, tries>>
    BY <1>6 DEF ReadState, fileVars
  <2>2. Ahead' <= Ahead BY <2>1, <1>a, <1>d, <1>e, <1>f, <1>j
  <2> QED BY <2>1, <2>2, <1>a, <1>c, <1>g, <1>h, <1>i, <1>l
<1>7. CASE Kill
  <2>1. /\ pc = "kill" /\ pc' = "walk" /\ at' = Nobody /\ rest' = rest /\ at \in Processes
        /\ file' = [file EXCEPT ![at] = "none"] /\ left' = [left EXCEPT ![at] = 0]
    BY <1>7 DEF Kill, TypeOK
  <2>2. p # at BY <2>1 DEF TypeOK
  <2>3. file[p] = "whole" /\ left'[p] = left[p] BY <2>1, <2>2 DEF TypeOK
  <2>4. ahead2 = ahead1 BY <2>1, <2>2, <1>k
  <2> QED BY <2>1, <2>3, <2>4, <1>e, <1>f, <1>g, <1>h, <1>j
<1>8. CASE SaveKill
  <2>1. /\ pc = "save" /\ pc' = "wait" /\ tries' = tries + 1
        /\ UNCHANGED <<rest, at, left, file>>
    BY <1>8 DEF SaveKill, fileVars
  <2>2. Ahead' = Ahead BY <2>1, <1>a, <1>d, <1>e, <1>f, <1>j
  <2> QED BY <2>1, <2>2, <1>g, <1>h, <1>l
<1>9. CASE SaveSleep
  <2>1. /\ pc = "wait" /\ pc' \in {"kill", "save", "reboot"}
        /\ pc' = "save" => tries' = tries
        /\ UNCHANGED <<rest, at, file>>
    BY <1>9, ElapsesTouches DEF SaveSleep
  <2>2. left'[p] = left[p] - 1 BY <1>9, <2>1, ElapsesTouches DEF SaveSleep
  <2>3. tries \in 1 .. MaxTries BY <2>1 DEF TriesInv
  <2>4. Ahead' <= Ahead - 1 BY <2>1, <2>3, <1>a, <1>d, <1>e, <1>f, <1>j
  <2> QED BY <2>1, <2>2, <2>4, <1>a, <1>c, <1>g, <1>h, <1>i, <1>l
<1>10. CASE RebootFails \/ NobodyFeeds
  BY <1>10 DEF RebootFails, NobodyFeeds
<1>11. CASE Reboots \/ DogResets
  BY <1>11 DEF Reboots, DogResets, GoesDown, All
<1>12. CASE Boot
  <2>1. UNCHANGED <<pc, rest, at, tries, left, file>>
    BY <1>12 DEF Boot, watchVars, fileVars
  <2> QED BY <2>1, <1>e, <1>f, <1>g, <1>h, <1>j, <1>l
<1> QED BY <1>1, <1>2, <1>3, <1>4, <1>5, <1>6, <1>7, <1>8, <1>9, <1>10, <1>11, <1>12
        DEF Next, Watchdog, Hardware

LEMMA InitNotice == Init => NoticeInv
<1> SUFFICES ASSUME Init PROVE NoticeInv OBVIOUS
<1>1. WalkInv BY SoftWatchAssumption DEF Init, WalkInv
<1>2. LateInv BY DEF Init, LateInv, All
<1> QED BY <1>1, <1>2 DEF NoticeInv

LEMMA NoticeKept == IInv /\ NoticeInv /\ [Next]_vars => NoticeInv'
<1>1. ASSUME IInv, NoticeInv, Next PROVE NoticeInv'
  BY <1>1, WalkKept, LateKept DEF NoticeInv, IInv
<1>2. ASSUME NoticeInv, UNCHANGED vars PROVE NoticeInv'
  BY <1>2 DEF NoticeInv, WalkInv, LateInv, Ahead, Limit, Others, Budget,
              vars, fileVars, watchVars
<1> QED BY <1>1, <1>2

LEMMA NoticeSafety == Spec => []NoticeInv
  BY Safety, InitNotice, NoticeKept, PTL DEF Spec

------------------------------------------------------------------------------
(* The theorems.                                                           *)

(* SaveSystem's counter and all other variables keep their types.          *)
THEOREM TypeCorrect == Spec => []TypeOK
  BY Safety, PTL DEF IInv

(* A process that has never been silent for too long is never sent a       *)
(* signal, whatever Watch reads while it writes, ends or starts again.     *)
THEOREM KilledOnlyWhenLateHolds == Spec => []KilledOnlyWhenLate
<1>1. IInv => KilledOnlyWhenLate BY DEF IInv, KillInv, KilledOnlyWhenLate
<1> QED BY <1>1, Safety, PTL

LEMMA InvFed == IInv => FedInTime
<1> SUFFICES ASSUME IInv, pc \notin {"reboot", "killed"}, ~missed
             PROVE  starved <= 1 + Budget(Processes)
  BY DEF FedInTime, Round, Budget
<1>1. Budget(Processes) \in Nat /\ Budget(rest) \in Nat
  BY BudgetFacts DEF IInv, TypeOK
<1>2. tries \in Nat /\ starved \in Nat /\ MaxTries \in Nat
  BY TriesBound, SoftWatchAssumption DEF IInv, TypeOK
<1>3. pc \in {"save", "wait"} => MaxTries - tries \in Nat
  BY <1>2 DEF IInv, TriesInv
<1>4. Spent BY DEF IInv, FeedInv
<1> HIDE DEF Budget
<1> QED BY <1>1, <1>2, <1>3, <1>4 DEF IInv, TypeOK, Spent

(* However many files there are and whichever processes hang, the dog is   *)
(* fed after every second and MAX_TRIES more for every file, unless a      *)
(* feeding fails.                                                          *)
THEOREM FedInTimeHolds == Spec => []FedInTime
  BY Safety, InvFed, PTL

LEMMA GivenUp ==
  ASSUME IInv, Next, pc # "reboot", pc' = "reboot"
  PROVE  late[at] /\ proc[at] = "stuck"
<1>1. CASE SaveSleep
  <2>1. InDiskSleep' /\ Elapses BY <1>1 DEF SaveSleep, Elapses, InDiskSleep
  <2>2. InDiskSleep BY <2>1 DEF InDiskSleep, Elapses
  <2> QED BY <2>2 DEF InDiskSleep, IInv, KillInv
<1>2. ASSUME NEW p \in Processes, Process(p) PROVE FALSE
  BY <1>2, ProcessTouches
<1>3. CASE Sleep \/ Feed \/ WalkEnds \/ ReadState \/ Kill \/ SaveKill
  BY <1>3 DEF Sleep, Feed, WalkEnds, ReadState, Kill, SaveKill
<1>4. ASSUME NEW p \in Processes, Look(p) PROVE FALSE
  BY <1>4 DEF Look
<1>5. CASE Reboots \/ RebootFails \/ NobodyFeeds \/ DogResets \/ Boot
  BY <1>5 DEF Reboots, RebootFails, NobodyFeeds, DogResets, GoesDown, Boot, watchVars
<1> QED BY <1>1, <1>2, <1>3, <1>4, <1>5 DEF Next, Watchdog, Hardware

LEMMA ResetCause ==
  ASSUME IInv, Next, system = "up", system' = "down"
  PROVE  pc \in {"reboot", "killed"} \/ missed
<1>1. CASE DogResets
  <2>1. SUFFICES ASSUME pc \notin {"reboot", "killed"}, ~missed PROVE FALSE OBVIOUS
  <2>2. starved <= 1 + Budget(Processes) BY <2>1, InvFed DEF FedInTime, Round, Budget
  <2>3. DogTime > 1 + Budget(Processes) BY DogIsSlow DEF Budget
  <2>4. starved = DogTime BY <1>1 DEF DogResets
  <2>5. Budget(Processes) \in Nat /\ DogTime \in Nat BY BudgetFacts, SoftWatchAssumption
  <2> HIDE DEF Budget
  <2> QED BY <2>2, <2>3, <2>4, <2>5
<1>2. CASE Reboots BY <1>2 DEF Reboots
<1>3. ASSUME NEW p \in Processes, Process(p) PROVE FALSE
  BY <1>3, ProcessTouches
<1>4. CASE Sleep \/ SaveSleep \/ RebootFails \/ NobodyFeeds
  BY <1>4, ElapsesTouches DEF Sleep, SaveSleep, RebootFails, NobodyFeeds, IInv
<1>5. CASE Feed \/ WalkEnds \/ ReadState \/ Kill \/ SaveKill
  BY <1>5 DEF Feed, WalkEnds, ReadState, Kill, SaveKill
<1>6. ASSUME NEW p \in Processes, Look(p) PROVE FALSE
  BY <1>6 DEF Look
<1>7. CASE Boot BY <1>7 DEF Boot
<1> QED BY <1>1, <1>2, <1>3, <1>4, <1>5, <1>6, <1>7 DEF Next, Watchdog, Hardware

(* SaveSystem gives up only a process that is late and still in disk       *)
(* sleep, and the system resets only when it has, or a feeding has failed. *)
THEOREM ResetOnlyForStuckHolds == Spec => ResetOnlyForStuck
<1>1. IInv /\ [Next]_vars
        => [/\ pc # "reboot" /\ pc' = "reboot" => late[at] /\ proc[at] = "stuck"
            /\ system = "up" /\ system' = "down" =>
                 pc \in {"reboot", "killed"} \/ missed]_<<pc, late, proc, at, system>>
  <2>1. ASSUME IInv, Next
        PROVE  /\ pc # "reboot" /\ pc' = "reboot" => late[at] /\ proc[at] = "stuck"
               /\ system = "up" /\ system' = "down" => pc \in {"reboot", "killed"} \/ missed
    BY <2>1, GivenUp, ResetCause
  <2>2. ASSUME UNCHANGED vars PROVE UNCHANGED <<pc, late, proc, at, system>>
    BY <2>2 DEF vars, processVars, watchVars
  <2> QED BY <2>1, <2>2
<1> QED BY <1>1, Safety, PTL DEF Spec, ResetOnlyForStuck

(* A file that says its process is late is found within one walk, delayed  *)
(* by all tries for the others, and the walk after it.                     *)
THEOREM NoticedInTimeHolds == Spec => []NoticedInTime
<1>1. ASSUME IInv, NoticeInv PROVE NoticedInTime
  <2> SUFFICES ASSUME NEW p \in Processes, file[p] = "whole", pc \notin {"reboot", "killed"}
               PROVE  -left[p] <= 1 + MaxTries * (2 * Cardinality(Processes) - 1)
    BY DEF NoticedInTime
  <2>1. Ahead - left[p] <= Limit(p) BY <1>1 DEF NoticeInv, LateInv
  <2>2. /\ Others \in Nat /\ Budget(Processes) \in Nat
        /\ Budget(Processes) = Others + MaxTries
    BY OthersFacts
  <2>3. Ahead \in Nat BY <1>1, <2>2, AheadBound DEF IInv, NoticeInv
  <2>4. Limit(p) \in Int /\ Limit(p) <= 1 + Others + Budget(Processes)
    <3> HIDE DEF Others, Budget
    <3> QED BY <2>2 DEF Limit
  <2>5. left[p] \in Int BY <1>1 DEF IInv, TypeOK
  <2>6. -left[p] <= 1 + Others + Budget(Processes)
    <3> HIDE DEF Others, Budget
    <3> QED BY <2>1, <2>2, <2>3, <2>4, <2>5
  <2>7. Cardinality(Processes) \in Nat /\ MaxTries \in Nat
    BY SoftWatchAssumption, FS_CardinalityType
  <2>8. ASSUME NEW m \in Nat, NEW c \in Nat
        PROVE  m * (2 * c - 1) = m * c - m + m * c
    OBVIOUS
  <2>9. MaxTries * (2 * Cardinality(Processes) - 1) = Others + Budget(Processes)
    BY <2>7, <2>8 DEF Others, Budget
  <2> QED BY <2>2, <2>5, <2>6, <2>9
<1> QED BY <1>1, Safety, NoticeSafety, PTL
==============================================================================

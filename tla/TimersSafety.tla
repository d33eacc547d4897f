---------------------------- MODULE TimersSafety ---------------------------
(***************************************************************************)
(* The schedule of the periodic restart is right for every time that is    *)
(* set, and however its sends are delayed, and implements the one of the   *)
(* composition, which only counts ticks; the idle shutdown is right for    *)
(* every time that is set, and every interval of the pings.                *)
(***************************************************************************)
EXTENDS Timers, TLAPS

(* When the task comes to a stage, or asks for the restart, the time left   *)
(* is what the clock says, but for the delays. In between, this holds of    *)
(* the time at which the ticker ticks next: so far it has ticked as often   *)
(* as the time left was counted down, and once more, at once.               *)
OnSchedule ==
    /\ restarting \in {"stage", "notify", "request"} =>
          waitFor <= clock + timeLeft /\ clock + timeLeft <= waitFor + delayed
    /\ restarting \in {"notify", "tick"} =>
          /\ timeLeft > Split
          /\ waitFor + Split <= due + timeLeft
          /\ due + timeLeft <= waitFor + Split + delayed
    /\ restarting = "tick" =>
          clock <= due \/ clock + timeLeft <= waitFor + delayed
    /\ restarting = "request" => timeLeft <= 1

ScheduleInv == RestartTimerTypeOK /\ OnSchedule

(* Every split is a positive number of seconds, and the last is one second. *)
LEMMA SplitsArePositive ==
    /\ Len(DURATION_SPLITS) = 6
    /\ DURATION_SPLITS[6] = 1
    /\ \A s \in 1..6 : DURATION_SPLITS[s] \in Nat \ {0}
<1>1. DURATION_SPLITS \in Seq(Nat) /\ Len(DURATION_SPLITS) = 6
  BY DEF DURATION_SPLITS
<1>2. ASSUME NEW s \in 1..6 PROVE DURATION_SPLITS[s] \in Nat \ {0}
  <2>1. s = 1 \/ s = 2 \/ s = 3 \/ s = 4 \/ s = 5 \/ s = 6
    OBVIOUS
  <2> QED BY <2>1 DEF DURATION_SPLITS
<1>3. DURATION_SPLITS[6] = 1
  BY DEF DURATION_SPLITS
<1> QED BY <1>1, <1>2, <1>3

(* The task begins on schedule.                                             *)
LEMMA ScheduleInitial == Init => ScheduleInv
<1> SUFFICES ASSUME NEW setting \in Settings, RestartTimerInit(setting[1])
             PROVE  ScheduleInv
  BY DEF Init
<1>1. setting[1] \in Nat
  BY SettingsAssumption
<1> QED BY <1>1, SplitsArePositive, TimerAssumption
        DEF RestartTimerInit, ScheduleInv, RestartTimerTypeOK, OnSchedule

(* Every step of the task stays on schedule.                                *)
LEMMA ScheduleTask ==
    ASSUME ScheduleInv, RestartTimerNext
    PROVE  ScheduleInv'
<1> USE DEF ScheduleInv, RestartTimerTypeOK, OnSchedule
<1>0. Split \in Nat \ {0} /\ (stage = 6 => Split = 1)
  BY SplitsArePositive DEF Split
<1>1. ASSUME StageOver
      PROVE  /\ stage' \in 1..6
             /\ restarting' = "stage" \/ (restarting' = "request" /\ stage = 6)
  BY <1>1, SplitsArePositive DEF StageOver
<1>2. CASE BeginStage
  <2>1. CASE timeLeft > Split
    <3>1. /\ restarting' = "notify" /\ due' = clock + Split /\ Split' = Split
          /\ UNCHANGED <<waitFor, stage, timeLeft, clock, delayed>>
      BY <1>2, <2>1 DEF BeginStage, Split
    <3>2. restarting = "stage" /\ timeLeft > Split
      BY <1>2, <2>1 DEF BeginStage
    <3> QED BY <1>0, <3>1, <3>2
  <2>2. CASE ~(timeLeft > Split)
    BY <1>0, <1>1, <1>2, <2>2, SplitsArePositive DEF BeginStage
  <2> QED BY <2>1, <2>2
<1>3. CASE Announce
  BY <1>0, <1>3 DEF Announce, Split
<1>4. CASE CountDown
  <2>1. /\ timeLeft' \in Nat
        /\ waitFor <= clock + timeLeft' /\ clock + timeLeft' <= waitFor + delayed
        /\ due' + timeLeft' = due + timeLeft
    BY <1>0, <1>4 DEF CountDown
  <2>2. CASE timeLeft' > Split
    <3>1. restarting' = "notify" /\ due' \in Nat /\ Split' = Split
          /\ UNCHANGED <<waitFor, stage, clock, delayed>>
      BY <1>0, <1>4, <2>2 DEF CountDown, Split
    <3> QED BY <1>0, <1>4, <2>1, <2>2, <3>1 DEF CountDown
  <2>3. CASE ~(timeLeft' > Split)
    BY <1>0, <1>1, <1>4, <2>1, <2>3, SplitsArePositive DEF CountDown
  <2> QED BY <2>2, <2>3
<1>5. CASE CountDownCancelled \/ RequestRestart
  BY <1>5 DEF CountDownCancelled, RequestRestart
<1> QED BY <1>2, <1>3, <1>4, <1>5 DEF RestartTimerNext

(* ScheduleInv is inductive: time passes while a tick is not due, or as a   *)
(* delay.                                                                   *)
LEMMA ScheduleStep == ScheduleInv /\ [Next]_vars => ScheduleInv'
<1> SUFFICES ASSUME ScheduleInv, [Next]_vars PROVE ScheduleInv'
  OBVIOUS
<1>1. CASE RestartStep
  BY <1>1, ScheduleTask DEF RestartStep
<1>2. CASE IdleStep \/ Receive \/ CancelAll \/ UNCHANGED vars
  BY <1>2 DEF IdleStep, Receive, CancelAll, vars, timerVars, ScheduleInv,
              RestartTimerTypeOK, OnSchedule, Split
<1>3. CASE TimePasses
  <2>1. PICK time \in Nat : RestartTimePasses(time)
    BY <1>3 DEF TimePasses, ScheduleInv, RestartTimerTypeOK
  <2>2. UNCHANGED <<waitFor, restarting, stage, timeLeft, due>>
    BY <1>3 DEF TimePasses
  <2>3. Split \in Nat
    BY SplitsArePositive DEF Split, ScheduleInv, RestartTimerTypeOK
  <2>4. Split' = Split
    BY <2>2 DEF Split
  <2>5. CASE restarting \in {"none", "done"}
    BY <2>1, <2>2, <2>5 DEF RestartTimePasses, ScheduleInv, RestartTimerTypeOK, OnSchedule
  <2>6. CASE restarting = "tick"
    <3>1. clock' = clock + time /\ clock' <= due /\ delayed' = delayed
      BY <2>1, <2>6 DEF RestartTimePasses
    <3> QED
      BY <3>1, <2>2, <2>3, <2>4, <2>6 DEF ScheduleInv, RestartTimerTypeOK, OnSchedule
  <2>7. CASE restarting \in {"notify", "request"}
    <3>1. clock' = clock + time /\ delayed' = delayed + time /\ delayed' <= MaxDelay
      BY <2>1, <2>7 DEF RestartTimePasses
    <3> QED
      BY <3>1, <2>2, <2>3, <2>4, <2>7, TimerAssumption
      DEF ScheduleInv, RestartTimerTypeOK, OnSchedule
  <2>8. restarting # "stage"
    BY <2>1 DEF RestartTimePasses
  <2> QED BY <2>5, <2>6, <2>7, <2>8 DEF ScheduleInv, RestartTimerTypeOK
<1> QED BY <1>1, <1>2, <1>3 DEF Next

(* Whatever time is set, each announced time to the restart is true when it *)
(* is announced, but for the delay of earlier sends (restart_task.rs:18-39). *)
THEOREM AnnouncementsAreTrue == Spec => []AnnouncedTimeIsTrue
<1>1. ScheduleInv => AnnouncedTimeIsTrue
  BY DEF ScheduleInv, RestartTimerTypeOK, OnSchedule, AnnouncedTimeIsTrue
<1> QED BY <1>1, ScheduleInitial, ScheduleStep, PTL DEF Spec

(* Whatever time is set, the restart is requested when it has passed, at    *)
(* most a second early, and late only by the delay of sends                 *)
(* (restart_task.rs:18-43): the stages do not add up to a drift.            *)
THEOREM RestartIsOnTime == Spec => []RestartsOnTime
<1>1. ScheduleInv => RestartsOnTime
  BY DEF ScheduleInv, RestartTimerTypeOK, OnSchedule, RestartsOnTime
<1> QED BY <1>1, ScheduleInitial, ScheduleStep, PTL DEF Spec

-----------------------------------------------------------------------------
(* The schedule as a number of ticks. The splits divide each other, so what *)
(* is left of a time by one split is what it would leave by itself.         *)

(* The splits one by one.                                                   *)
LEMMA SplitValues ==
    /\ DURATION_SPLITS[1] = 3600 /\ DURATION_SPLITS[2] = 900 /\ DURATION_SPLITS[3] = 300
    /\ DURATION_SPLITS[4] = 60 /\ DURATION_SPLITS[5] = 15 /\ DURATION_SPLITS[6] = 1
    /\ Len(DURATION_SPLITS) = 6
  BY DEF DURATION_SPLITS

(* A tick of a longer split takes nothing from what a shorter one leaves.   *)
LEMMA SplitsDivide ==
    ASSUME NEW first \in 1..6, NEW s \in first..6, NEW time \in Nat,
           time >= DURATION_SPLITS[first]
    PROVE  time % DURATION_SPLITS[s] = (time - DURATION_SPLITS[first]) % DURATION_SPLITS[s]
<1> USE SplitValues
<1>1. CASE first = 1
  BY <1>1
<1>2. CASE first = 2
  BY <1>2
<1>3. CASE first = 3
  BY <1>3
<1>4. CASE first = 4
  BY <1>4
<1>5. CASE first = 5
  BY <1>5
<1>6. CASE first = 6
  BY <1>6
<1> QED BY <1>1, <1>2, <1>3, <1>4, <1>5, <1>6

(* Division by a split, at the split and below it.                          *)
LEMMA InOneSplit ==
    \A split \in Nat \ {0}, time \in Nat :
        /\ time < split => time \div split = 0 /\ time % split = time
        /\ time >= split => time \div split = ((time - split) \div split) + 1
        /\ time \div split \in Nat /\ time % split \in Nat
  OBVIOUS

(* The ticks of a split are a number.                                       *)
LEMMA TicksAreNat ==
    ASSUME NEW s \in 1..6, NEW first \in 1..6, NEW time \in Nat \ {0}
    PROVE  TicksIn(s, first, time) \in Nat
<1>1. DURATION_SPLITS[s] \in Nat \ {0} /\ time - 1 \in Nat
  BY SplitsArePositive
<1>2. CASE s = first
  <2>1. (time - 1) \div DURATION_SPLITS[s] \in Nat
    BY <1>1, InOneSplit, Zenon
  <2> QED BY <1>2, <2>1, SplitValues DEF TicksIn
<1>3. CASE s > first
  <2>1. DURATION_SPLITS[s - 1] \in Nat \ {0}
    BY <1>3, SplitsArePositive
  <2>2. (time - 1) % DURATION_SPLITS[s - 1] \in Nat
    BY <1>1, <2>1, InOneSplit, Zenon
  <2>3. ((time - 1) % DURATION_SPLITS[s - 1]) \div DURATION_SPLITS[s] \in Nat
    BY <1>1, <2>2, InOneSplit, Zenon
  <2> QED BY <1>3, <2>3, SplitValues DEF TicksIn
<1>4. CASE s < first
  BY <1>4, SplitValues DEF TicksIn
<1> QED BY <1>2, <1>3, <1>4

(* A time that fits into the split of a stage is left to the next stage.    *)
LEMMA NothingToTick ==
    ASSUME NEW first \in 1..5, NEW time \in Nat \ {0}, time <= DURATION_SPLITS[first]
    PROVE  TicksFrom(first, time) = TicksFrom(first + 1, time)
<1>1. ASSUME NEW s \in 1..6 PROVE TicksIn(s, first, time) = TicksIn(s, first + 1, time)
  <2>1. /\ (time - 1) \div DURATION_SPLITS[first] = 0
        /\ (time - 1) % DURATION_SPLITS[first] = time - 1
    <3>1. DURATION_SPLITS[first] \in Nat \ {0} /\ time - 1 \in Nat
      BY SplitsArePositive
    <3>2. time - 1 < DURATION_SPLITS[first]
      BY <3>1
    <3> QED BY <3>1, <3>2, InOneSplit, Zenon
  <2>2. CASE s = first
    BY <2>1, <2>2, SplitValues DEF TicksIn
  <2>3. CASE s = first + 1
    BY <2>1, <2>3, SplitValues DEF TicksIn
  <2>4. CASE s # first /\ s # first + 1
    BY <2>4, SplitValues DEF TicksIn
  <2> QED BY <2>2, <2>3, <2>4
<1> QED BY <1>1 DEF TicksFrom

(* A longer one has one tick more than what is left of it after the tick.   *)
LEMMA OneTickLess ==
    ASSUME NEW first \in 1..6, NEW time \in Nat, time > DURATION_SPLITS[first]
    PROVE  /\ TicksFrom(first, time - DURATION_SPLITS[first]) \in Nat
           /\ TicksFrom(first, time) = TicksFrom(first, time - DURATION_SPLITS[first]) + 1
<1> DEFINE split == DURATION_SPLITS[first]
           rest == time - split
<1>0. split \in Nat \ {0} /\ rest \in Nat \ {0}
  BY SplitsArePositive
<1> HIDE DEF rest
<1>1. ASSUME NEW s \in 1..6 PROVE TicksIn(s, first, rest) \in Nat
  BY <1>0, <1>1, TicksAreNat
<1>2. TicksIn(first, first, time) = TicksIn(first, first, rest) + 1
  <2>1. (time - 1) \div split = ((time - 1 - split) \div split) + 1
    <3>1. time - 1 \in Nat /\ time - 1 >= split
      BY <1>0
    <3> QED BY <1>0, <3>1, InOneSplit, Zenon
  <2>2. time - 1 - split = rest - 1
    BY <1>0 DEF rest
  <2> QED BY <2>1, <2>2, SplitValues DEF TicksIn
<1>3. ASSUME NEW s \in 1..6, s # first
      PROVE  TicksIn(s, first, time) = TicksIn(s, first, rest)
  <2>1. CASE s > first
    <3>1. (time - 1) % DURATION_SPLITS[s - 1] = (time - 1 - split) % DURATION_SPLITS[s - 1]
      BY <1>0, <2>1, SplitsDivide
    <3>2. time - 1 - split = rest - 1
      BY <1>0 DEF rest
    <3> QED BY <2>1, <3>1, <3>2, SplitValues DEF TicksIn
  <2>2. CASE s < first
    BY <2>2, SplitValues DEF TicksIn
  <2> QED BY <1>3, <2>1, <2>2
<1>4. TicksFrom(first, rest) \in Nat
  BY <1>1 DEF TicksFrom
<1>5. TicksFrom(first, time) = TicksFrom(first, rest) + 1
  <2> HIDE DEF split
  <2>1. CASE first = 1
    BY <1>1, <1>2, <1>3, <2>1 DEF TicksFrom
  <2>2. CASE first = 2
    BY <1>1, <1>2, <1>3, <2>2 DEF TicksFrom
  <2>3. CASE first = 3
    BY <1>1, <1>2, <1>3, <2>3 DEF TicksFrom
  <2>4. CASE first = 4
    BY <1>1, <1>2, <1>3, <2>4 DEF TicksFrom
  <2>5. CASE first = 5
    BY <1>1, <1>2, <1>3, <2>5 DEF TicksFrom
  <2>6. CASE first = 6
    BY <1>1, <1>2, <1>3, <2>6 DEF TicksFrom
  <2> QED BY <2>1, <2>2, <2>3, <2>4, <2>5, <2>6
<1> QED BY <1>4, <1>5 DEF rest

(* The last second is not ticked.                                           *)
LEMMA LastSecond == TicksFrom(6, 1) = 0
<1>1. \A s \in 1..6 : TicksIn(s, 6, 1) = 0
  <2>1. TicksIn(6, 6, 1) = 0
    BY SplitValues, InOneSplit DEF TicksIn
  <2>2. \A s \in 1..5 : TicksIn(s, 6, 1) = 0
    BY SplitValues DEF TicksIn
  <2> QED BY <2>1, <2>2
<1> QED BY <1>1 DEF TicksFrom

(* While the task runs, some time is left, and when it asks for the restart *)
(* it is in the last stage.                                                 *)
Running ==
    /\ restarting # "none" => timeLeft > 0
    /\ restarting = "request" => stage = 6

(* This is so from the first step on.                                       *)
LEMMA RunningStep == Running /\ ScheduleInv /\ [Next]_vars => Running'
<1> SUFFICES ASSUME Running, ScheduleInv, [Next]_vars PROVE Running'
  OBVIOUS
<1>1. CASE RestartStep
  <2>1. ASSUME StageOver PROVE restarting' = "request" => stage' = 6
    BY <2>1, SplitValues DEF StageOver
  <2>2. CASE BeginStage
    BY <2>1, <2>2 DEF BeginStage, Running
  <2>3. CASE CountDown
    <3>1. timeLeft' = timeLeft - Split /\ timeLeft' > 0
      BY <2>3, SplitsArePositive DEF CountDown, ScheduleInv, OnSchedule, RestartTimerTypeOK, Split
    <3> QED BY <2>1, <2>3, <3>1 DEF CountDown, Running
  <2>4. CASE Announce \/ CountDownCancelled \/ RequestRestart
    BY <2>4 DEF Announce, CountDownCancelled, RequestRestart, Running
  <2> QED BY <1>1, <2>2, <2>3, <2>4 DEF RestartStep, RestartTimerNext
<1>2. CASE IdleStep \/ Receive \/ CancelAll \/ TimePasses \/ UNCHANGED vars
  BY <1>2 DEF IdleStep, Receive, CancelAll, TimePasses, vars, timerVars, Running
<1> QED BY <1>1, <1>2 DEF Next

(* Where RestartTask is: a stage counts as what it comes to.                *)
CountedPC ==
    IF restarting # "stage" THEN restarting
    ELSE IF TicksToCome = 0 THEN "request" ELSE "notify"

CountedTicks == IF restarting = "none" THEN 0 ELSE TicksToCome

Counts == Counting!RestartTaskNext(1) \/ UNCHANGED <<CountedPC, CountedTicks>>

(* One task is the function that maps its number to where it is.            *)
LEMMA OneRestart == ASSUME NEW old, NEW new PROVE <<new>> = [<<old>> EXCEPT ![1] = new]
  OBVIOUS

(* The end of a stage changes nothing that RestartTask sees: the next stage *)
(* has the same ticks to come, and after the last there are none.           *)
LEMMA StagesAreNotSeen ==
    ASSUME RestartTimerTypeOK, timeLeft' \in Nat \ {0}, timeLeft' <= Split, StageOver
    PROVE  /\ TicksToCome' = TicksFrom(stage, timeLeft')
           /\ CountedPC' = IF TicksToCome' = 0 THEN "request" ELSE "notify"
<1>1. CASE stage = 6
  <2>1. restarting' = "request" /\ stage' = stage
    BY <1>1, SplitValues DEF StageOver
  <2>2. timeLeft' = 1
    BY <1>1, SplitValues DEF Split
  <2> QED BY <1>1, <2>1, <2>2, LastSecond DEF TicksToCome, CountedPC
<1>2. CASE stage # 6
  <2>1. restarting' = "stage" /\ stage' = stage + 1 /\ stage \in 1..5
    BY <1>2, SplitValues DEF StageOver, RestartTimerTypeOK
  <2>2. TicksFrom(stage, timeLeft') = TicksFrom(stage + 1, timeLeft')
    BY <2>1, NothingToTick DEF Split
  <2> QED BY <2>1, <2>2 DEF TicksToCome, CountedPC
<1> QED BY <1>1, <1>2

(* To begin a stage, also in one that is passed over, counts for nothing.   *)
LEMMA StageCounts ==
    ASSUME ScheduleInv, Running, BeginStage PROVE Counts
<1>0. /\ restarting = "stage" /\ timeLeft' = timeLeft /\ timeLeft \in Nat \ {0}
      /\ stage \in 1..6 /\ RestartTimerTypeOK
  BY SplitValues DEF BeginStage, ScheduleInv, RestartTimerTypeOK, Running
<1>1. CASE timeLeft > Split
  <2>1. restarting' = "notify" /\ stage' = stage
    BY <1>1 DEF BeginStage
  <2>2. TicksToCome # 0 /\ TicksToCome' = TicksToCome
    BY <1>0, <1>1, <2>1, OneTickLess DEF TicksToCome, Split
  <2> QED BY <1>0, <2>1, <2>2 DEF Counts, CountedPC, CountedTicks
<1>2. CASE ~(timeLeft > Split)
  <2>1. StageOver /\ timeLeft' <= Split
    BY <1>0, <1>2, SplitsArePositive DEF BeginStage, Split
  <2>2. /\ TicksToCome' = TicksToCome
        /\ CountedPC' = IF TicksToCome' = 0 THEN "request" ELSE "notify"
    BY <1>0, <2>1, StagesAreNotSeen DEF TicksToCome
  <2>3. restarting' # "none"
    BY <2>1 DEF StageOver
  <2> QED BY <1>0, <2>2, <2>3 DEF Counts, CountedPC, CountedTicks
<1> QED BY <1>1, <1>2

(* A tick counts for one, and the last one leads to the request.            *)
LEMMA TickCounts ==
    ASSUME ScheduleInv, Running, CountDown PROVE Counts
<1>0. /\ restarting = "tick" /\ stage \in 1..6 /\ RestartTimerTypeOK /\ UNCHANGED runtimeVars
      /\ timeLeft \in Nat /\ Split \in Nat \ {0} /\ timeLeft > Split
      /\ timeLeft' = timeLeft - Split /\ timeLeft' \in Nat \ {0}
  BY SplitValues, SplitsArePositive
  DEF CountDown, ScheduleInv, OnSchedule, RestartTimerTypeOK, Split
<1>1. /\ TicksFrom(stage, timeLeft') \in Nat
      /\ TicksToCome = TicksFrom(stage, timeLeft') + 1
  BY <1>0, OneTickLess DEF TicksToCome, Split
<1>2. /\ TicksToCome' = TicksFrom(stage, timeLeft')
      /\ CountedPC' = IF TicksToCome' = 0 THEN "request" ELSE "notify"
      /\ restarting' # "none"
  <2>1. CASE timeLeft' > Split
    <3>1. restarting' = "notify" /\ stage' = stage
      BY <2>1 DEF CountDown
    <3>2. TicksFrom(stage, timeLeft') # 0
      BY <1>0, <2>1, OneTickLess DEF Split
    <3> QED BY <3>1, <3>2 DEF TicksToCome, CountedPC
  <2>2. CASE ~(timeLeft' > Split)
    <3>1. StageOver /\ timeLeft' <= Split
      BY <1>0, <2>2 DEF CountDown
    <3>2. restarting' # "none"
      BY <3>1 DEF StageOver
    <3> QED BY <1>0, <3>1, <3>2, StagesAreNotSeen
  <2> QED BY <2>1, <2>2
<1>3. /\ CountedTicks = TicksToCome /\ CountedTicks' = TicksToCome'
      /\ TicksToCome' = TicksToCome - 1 /\ (TicksToCome' = 0 <=> TicksToCome = 1)
      /\ CountedPC = "tick"
  BY <1>0, <1>1, <1>2 DEF CountedTicks, CountedPC
<1>4. Counting!RestartTick(1)
  BY <1>0, <1>2, <1>3, OneRestart
  DEF Counting!RestartTick, CountedPC, CountedTicks, Counting!runtimeVars, runtimeVars
<1> QED BY <1>4 DEF Counts, Counting!RestartTaskNext

(* The announcements, the cancellation and the request are RestartTask's.   *)
LEMMA OthersCount ==
    ASSUME ScheduleInv, Running, Announce \/ CountDownCancelled \/ RequestRestart
    PROVE  Counts
<1>0. /\ stage' = stage /\ timeLeft' = timeLeft
      /\ restarting \notin {"none", "stage"} /\ restarting' \notin {"none", "stage"}
  BY DEF Announce, CountDownCancelled, RequestRestart
<1>1. CountedTicks' = CountedTicks /\ TicksToCome' = TicksToCome /\ TicksToCome \in Nat
  <2>1. stage \in 1..6 /\ timeLeft \in Nat \ {0}
    BY <1>0, SplitValues DEF ScheduleInv, RestartTimerTypeOK, Running
  <2>2. TicksToCome \in Nat
    BY <2>1, TicksAreNat DEF TicksToCome, TicksFrom
  <2>3. TicksToCome' = TicksToCome
    BY <1>0 DEF TicksToCome
  <2> QED BY <1>0, <2>2, <2>3 DEF CountedTicks
<1>2. CASE Announce
  <2>1. CountedPC = "notify" /\ CountedPC' = "tick"
    BY <1>1, <1>2 DEF Announce, CountedPC
  <2>2. Counting!RestartNotify(1)
    BY <1>1, <1>2, <2>1, OneRestart
    DEF Announce, Counting!RestartNotify, CountedPC, CountedTicks,
        Send, Counting!Send
  <2> QED BY <2>2 DEF Counts, Counting!RestartTaskNext
<1>3. CASE CountDownCancelled
  <2>1. CountedPC = "tick" /\ CountedPC' = "done"
    BY <1>1, <1>3 DEF CountDownCancelled, CountedPC
  <2>2. Counting!RestartCancelled(1)
    BY <1>1, <1>3, <2>1, OneRestart
    DEF CountDownCancelled, Counting!RestartCancelled, CountedPC, CountedTicks,
        Cancelled, Counting!Cancelled, runtimeVars, Counting!runtimeVars
  <2> QED BY <2>2 DEF Counts, Counting!RestartTaskNext
<1>4. CASE RequestRestart
  <2>1. CountedPC = "request" /\ CountedPC' = "done"
    BY <1>1, <1>4 DEF RequestRestart, CountedPC
  <2>2. Counting!RestartRequest(1)
    BY <1>1, <1>4, <2>1, OneRestart
    DEF RequestRestart, Counting!RestartRequest, CountedPC, CountedTicks,
        Send, Counting!Send
  <2> QED BY <2>2 DEF Counts, Counting!RestartTaskNext
<1> QED BY <1>2, <1>3, <1>4

(* Whatever time is set, the schedule is RestartTask's with as many notices *)
(* as it ticks: stages, times and delays are left out (restart_task.rs:18-43). *)
THEOREM TimeIsLeftOut == Spec => CountsAsRestartTask
<1>1. Init => Running
  BY SettingsAssumption DEF Init, RestartTimerInit, Running
<1>2. ASSUME ScheduleInv, Running, [Next]_vars PROVE Counts
  <2>1. CASE RestartStep
    BY <1>2, <2>1, StageCounts, TickCounts, OthersCount DEF RestartStep, RestartTimerNext
  <2>2. CASE IdleStep \/ Receive \/ CancelAll \/ TimePasses \/ UNCHANGED vars
    <3>1. UNCHANGED <<restarting, stage, timeLeft>>
      BY <2>2 DEF IdleStep, Receive, CancelAll, TimePasses, vars, timerVars
    <3> QED BY <3>1 DEF Counts, CountedPC, CountedTicks, TicksToCome
  <2> QED BY <1>2, <2>1, <2>2 DEF Next
<1>3. ScheduleInv /\ Running /\ [Next]_vars =>
        [Counting!RestartTaskNext(1)]_<<Counting!restartVars>>
  BY <1>2 DEF Counts, CountedPC, CountedTicks, Counting!restartVars
<1> QED BY <1>1, <1>3, RunningStep, ScheduleInitial, ScheduleStep, PTL
        DEF Spec, CountsAsRestartTask

-----------------------------------------------------------------------------
(* The idle shutdown. All of it is about one server, so the tasks are       *)
(* functions on 1; what matters of them is their value there.               *)

Bound == 2 * PING_INTERVAL

IdleTyped ==
    /\ pinger \in [{1} -> {"none", "running", "done"}]
    /\ players \in [{1} -> PlayerCount]
    /\ counted \in [{1} -> BOOLEAN]
    /\ shutdown \in [{1} -> {"none", "select", "joinTimer", "joinPinger", "done"}]
    /\ timer \in [{1} -> {"none", "waiting", "sending", "done"}]
    /\ disarmed \in [{1} -> BOOLEAN]
    /\ nextPing \in 0..PING_INTERVAL
    /\ pinging \in -1..PING_INTERVAL
    /\ idleWait \in Nat /\ idleLeft \in 0..idleWait
    /\ onlineFor \in Nat /\ emptyFor \in Nat
    /\ {online, askedWhen, token, stopAsked} \subseteq BOOLEAN
    /\ cancelled = {}

(* While nobody cancels them, the pinger and the shutdown task go on. *)
Working ==
    /\ idleWait = 0 => timer[1] = "none" /\ shutdown[1] = "none"
    /\ idleWait # 0 /\ ~token =>
          pinger[1] = "running" /\ shutdown[1] \in {"select", "joinTimer"}
    /\ pinger[1] # "running" => pinging = -1

(* The timer that is held follows the count that was read last; it is       *)
(* joined exactly when it is disarmed, and ends by itself once it has asked. *)
HoldsTimer ==
    /\ disarmed[1] <=> shutdown[1] = "joinTimer"
    /\ shutdown[1] = "select" /\ ~counted[1] =>
          (timer[1] # "none" <=> players[1] = "empty")
    /\ shutdown[1] = "joinTimer" /\ ~counted[1] => players[1] # "empty"
    /\ shutdown[1] = "select" /\ timer[1] = "done" /\ ~token => stopAsked

(* A state that has lasted for this time, occupied or not, has not been     *)
(* asked about yet, or has been by the ping that is under way.              *)
NotTold(time, occupied) ==
    \/ time + nextPing <= PING_INTERVAL
    \/ pinging # -1 /\ (askedWhen <=> occupied) /\ time <= PING_INTERVAL + pinging

(* What the pinger knows of the players: the count, or what it asked for,   *)
(* is not older than two pings.                                             *)
Asking ==
    /\ pinging # -1 => nextPing + pinging = PING_INTERVAL
    /\ pinging # -1 /\ (askedWhen <=> ~online) => onlineFor <= pinging /\ emptyFor <= pinging
    /\ online => emptyFor = 0 /\ (NotTold(onlineFor, TRUE) \/ players[1] # "empty")
    /\ ~online => onlineFor = 0 /\ (NotTold(emptyFor, FALSE) \/ players[1] = "empty")

(* The timer is armed, and disarmed, within two pings. *)
InTime ==
    /\ timer[1] = "waiting" => onlineFor <= Bound
    /\ shutdown[1] = "joinTimer" \/ timer[1] = "none" => emptyFor <= Bound
    /\ shutdown[1] = "select" /\ timer[1] = "waiting" =>
          emptyFor + idleLeft <= Bound + idleWait

IdleInv ==
    /\ IdleTyped /\ Working /\ HoldsTimer
    /\ ~token /\ idleWait # 0 => Asking /\ InTime

(* The tuple of one value is a function on 1.                               *)
LEMMA OneTask == ASSUME NEW S, NEW x \in S PROVE <<x>> \in [{1} -> S]
  OBVIOUS

(* Nobody is online at first, and a count is asked for at once.             *)
LEMMA IdleInitial == Init => IdleInv
<1> SUFFICES ASSUME NEW setting \in Settings, IdleTimerInit(setting[2]), RuntimeInit
             PROVE  IdleInv
  BY DEF Init
<1>1. setting[2] \in Nat
  BY SettingsAssumption
<1>2. IdleTyped
  <2>1. pinger \in [{1} -> {"none", "running", "done"}]
    BY DEF IdleTimerInit
  <2>2. shutdown \in [{1} -> {"none", "select", "joinTimer", "joinPinger", "done"}]
    BY DEF IdleTimerInit
  <2>3. /\ players \in [{1} -> PlayerCount]
        /\ timer \in [{1} -> {"none", "waiting", "sending", "done"}]
    BY DEF IdleTimerInit, PlayerCount
  <2>6. counted \in [{1} -> BOOLEAN] /\ disarmed \in [{1} -> BOOLEAN]
    <3>1. FALSE \in BOOLEAN
      OBVIOUS
    <3>2. <<FALSE>> \in [{1} -> BOOLEAN]
      BY <3>1, OneTask
    <3> QED BY <3>2, Zenon DEF IdleTimerInit
  <2>4. /\ nextPing \in 0..PING_INTERVAL /\ pinging \in -1..PING_INTERVAL
        /\ idleWait \in Nat /\ idleLeft \in 0..idleWait
        /\ onlineFor \in Nat /\ emptyFor \in Nat
    BY <1>1, PingAssumption DEF IdleTimerInit
  <2>5. {online, askedWhen, token, stopAsked} \subseteq BOOLEAN /\ cancelled = {}
    BY DEF IdleTimerInit, RuntimeInit
  <2> QED BY <2>1, <2>2, <2>3, <2>4, <2>5, <2>6 DEF IdleTyped
<1>3. Working /\ HoldsTimer
  BY DEF IdleTimerInit, Working, HoldsTimer
<1>4. Asking /\ InTime
  BY PingAssumption DEF IdleTimerInit, Asking, InTime, NotTold, Bound
<1> QED BY <1>2, <1>3, <1>4 DEF IdleInv

(* The two bounds that the counts give to what has not been told.           *)
LEMMA NotToldIsShort ==
    ASSUME IdleTyped, NEW time \in Nat, NEW occupied \in BOOLEAN, NotTold(time, occupied)
    PROVE  /\ time <= Bound
           /\ ~IdleTaskBusy /\ ~token /\ pinger[1] = "running" => time < Bound
<1> USE PingAssumption DEF IdleTyped, NotTold, Bound
<1>1. time <= Bound
  OBVIOUS
<1>2. ASSUME ~IdleTaskBusy, ~token, pinger[1] = "running" PROVE time < Bound
  <2>1. pinging # PING_INTERVAL /\ ~(pinging = -1 /\ nextPing = 0)
    BY <1>2 DEF IdleTaskBusy
  <2> QED BY <2>1
<1> QED BY <1>1, <1>2

(* The pinger asks, and gets an answer that is as old as the question, or   *)
(* none.                                                                    *)
LEMMA IdlePinger ==
    ASSUME IdleInv, AskCount \/ GetCount \/ PingerStops
    PROVE  IdleInv'
<1>0. /\ shutdown' = shutdown /\ timer' = timer /\ disarmed' = disarmed
      /\ token' = token /\ cancelled' = cancelled /\ idleWait' = idleWait
      /\ idleLeft' = idleLeft /\ stopAsked' = stopAsked
      /\ online' = online /\ onlineFor' = onlineFor
  BY DEF AskCount, GetCount, PingerStops, Ping, PingerCancelled, shutdownVars, runtimeVars,
         playerVars
<1>1. CASE AskCount
  <2>1. /\ pinger' = pinger /\ players' = players /\ counted' = counted
        /\ emptyFor' = emptyFor /\ askedWhen' = online
        /\ pinging = -1 /\ pinging' = 0 /\ nextPing = 0 /\ nextPing' = PING_INTERVAL
        /\ pinger[1] = "running"
    BY <1>1 DEF AskCount, shutdownVars, playerVars
  <2>2. IdleTyped'
    BY <1>0, <2>1, PingAssumption DEF IdleInv, IdleTyped
  <2>3. Working' /\ HoldsTimer'
    BY <1>0, <2>1 DEF IdleInv, Working, HoldsTimer
  <2>4. ASSUME ~token, idleWait # 0 PROVE Asking' /\ InTime'
    BY <1>0, <2>1, <2>4, PingAssumption
    DEF IdleInv, IdleTyped, Asking, NotTold, InTime, Bound
  <2> QED BY <1>0, <2>2, <2>3, <2>4 DEF IdleInv
<1>2. CASE GetCount
  <2>1. PICK count \in {"offline", CountOf(askedWhen), CountOf(online)} :
          Ping(1, count) /\ emptyFor' = IF count = "offline" THEN 0 ELSE emptyFor
    BY <1>2 DEF GetCount
  <2>2. count \in PlayerCount
    BY DEF CountOf, PlayerCount
  <2>3. /\ pinger' = pinger /\ players' = [players EXCEPT ![1] = count]
        /\ counted' = [counted EXCEPT ![1] = TRUE]
        /\ pinging # -1 /\ pinging' = -1 /\ nextPing' = nextPing /\ askedWhen' = askedWhen
    BY <1>2, <2>1 DEF GetCount, Ping
  <2>4. players'[1] = count /\ counted'[1] = TRUE
    BY <2>3 DEF IdleInv, IdleTyped
  <2>5. emptyFor' \in Nat /\ emptyFor' <= emptyFor /\ (count = "offline" => emptyFor' = 0)
    BY <2>1 DEF IdleInv, IdleTyped
  <2>6. IdleTyped'
    BY <1>0, <2>2, <2>3, <2>5, PingAssumption DEF IdleInv, IdleTyped
  <2>7. Working' /\ HoldsTimer'
    BY <1>0, <2>3, <2>4 DEF IdleInv, Working, HoldsTimer
  <2>8. ASSUME ~token, idleWait # 0 PROVE Asking' /\ InTime'
    <3>0. InTime /\ Asking
      BY <2>8 DEF IdleInv
    <3>1. InTime'
      <4>1. timer[1] = "waiting" => onlineFor' <= Bound
        BY <1>0, <3>0 DEF InTime
      <4>2. shutdown[1] = "joinTimer" \/ timer[1] = "none" => emptyFor' <= Bound
        BY <2>5, <3>0, PingAssumption DEF InTime, Bound, IdleInv, IdleTyped
      <4>3. emptyFor + idleLeft <= Bound + idleWait => emptyFor' + idleLeft <= Bound + idleWait
        BY <2>5, PingAssumption DEF Bound, IdleInv, IdleTyped
      <4> QED BY <1>0, <3>0, <4>1, <4>2, <4>3 DEF InTime, Bound
    <3>2. nextPing + pinging = PING_INTERVAL
      BY <2>3, <2>8 DEF IdleInv, Asking
    <3>3. online /\ count = "empty" => onlineFor + nextPing <= PING_INTERVAL
      BY <2>3, <2>8, <3>2 DEF IdleInv, IdleTyped, Asking, CountOf
    <3>4. ~online /\ count # "empty" => emptyFor' + nextPing <= PING_INTERVAL
      <4>1. CASE count = "offline"
        BY <2>5, <4>1, PingAssumption DEF IdleInv, IdleTyped
      <4>2. ASSUME ~online, count = "players" PROVE askedWhen
        BY <4>2 DEF CountOf
      <4>3. ASSUME ~online, askedWhen PROVE emptyFor <= pinging
        BY <2>3, <3>0, <4>3 DEF Asking
      <4>4. ASSUME emptyFor <= pinging PROVE emptyFor' + nextPing <= PING_INTERVAL
        BY <2>5, <3>2, <4>4 DEF IdleInv, IdleTyped
      <4> QED BY <2>2, <4>1, <4>2, <4>3, <4>4 DEF PlayerCount
    <3>5. online => emptyFor' = 0
      BY <2>5, <2>8 DEF IdleInv, IdleTyped, Asking
    <3>6. ~online => onlineFor = 0
      BY <2>8 DEF IdleInv, Asking
    <3>7. Asking'
      BY <1>0, <2>3, <2>4, <3>3, <3>4, <3>5, <3>6 DEF Asking, NotTold
    <3> QED BY <3>1, <3>7
  <2> QED BY <1>0, <2>6, <2>7, <2>8 DEF IdleInv
<1>3. CASE PingerStops
  <2>1. /\ pinger' = [pinger EXCEPT ![1] = "done"] /\ players' = players /\ counted' = counted
        /\ pinging' = -1 /\ nextPing' = nextPing /\ askedWhen' = askedWhen
        /\ emptyFor' = emptyFor /\ token
    BY <1>3 DEF PingerStops, PingerCancelled, playerVars, Cancelled, IdleInv, IdleTyped
  <2>2. IdleTyped'
    BY <1>0, <2>1, PingAssumption DEF IdleInv, IdleTyped
  <2>3. Working' /\ HoldsTimer'
    BY <1>0, <2>1 DEF IdleInv, Working, HoldsTimer
  <2> QED BY <1>0, <2>1, <2>2, <2>3 DEF IdleInv
<1> QED BY <1>1, <1>2, <1>3

(* Players come and go: either way nobody has asked yet.                    *)
LEMMA IdlePlayers ==
    ASSUME IdleInv, PlayersChange
    PROVE  IdleInv'
<1>1. /\ shutdown' = shutdown /\ timer' = timer /\ disarmed' = disarmed
      /\ pinger' = pinger /\ players' = players /\ counted' = counted
      /\ token' = token /\ cancelled' = cancelled /\ idleWait' = idleWait
      /\ idleLeft' = idleLeft /\ stopAsked' = stopAsked
      /\ nextPing' = nextPing /\ pinging' = pinging /\ askedWhen' = askedWhen
      /\ online' = ~online /\ onlineFor' = 0 /\ emptyFor' = 0
  BY DEF PlayersChange, shutdownVars, runtimeVars, pingVars
<1>2. IdleTyped'
  BY <1>1 DEF IdleInv, IdleTyped
<1>3. Working' /\ HoldsTimer'
  BY <1>1 DEF IdleInv, Working, HoldsTimer
<1>4. ASSUME ~token, idleWait # 0 PROVE Asking' /\ InTime'
  BY <1>1, <1>4, PingAssumption DEF IdleInv, IdleTyped, Asking, NotTold, InTime, Bound
<1> QED BY <1>1, <1>2, <1>3, <1>4 DEF IdleInv

(* What the shutdown task and its timer leave alone.                        *)
LEMMA IdleFrame ==
    ASSUME IdleInv,
           \/ ArmsTimer \/ DisarmedTimerEnds \/ IdleTimeOver \/ AsksForStop
           \/ /\ \/ SeeOccupied(1) \/ PingerLost(1) \/ ShutdownCancelled(1)
                 \/ PingerJoined(1) \/ TimerCancelled(1)
              /\ UNCHANGED idleVars
    PROVE  /\ pinger' = pinger /\ players' = players
           /\ token' = token /\ cancelled' = cancelled /\ idleWait' = idleWait
           /\ nextPing' = nextPing /\ pinging' = pinging /\ askedWhen' = askedWhen
           /\ online' = online /\ onlineFor' = onlineFor /\ emptyFor' = emptyFor
           /\ Asking => Asking'
<1>1. /\ pinger' = pinger /\ players' = players
      /\ token' = token /\ cancelled' = cancelled /\ idleWait' = idleWait
      /\ nextPing' = nextPing /\ pinging' = pinging /\ askedWhen' = askedWhen
      /\ online' = online /\ onlineFor' = onlineFor /\ emptyFor' = emptyFor
  BY DEF ArmsTimer, SeeEmpty, ReadCount, DisarmedTimerEnds, TimerJoined, IdleTimeOver,
         TimerExpires, AsksForStop, TimerRequestsStop, SeeOccupied, PingerLost,
         ShutdownCancelled, PingerJoined, TimerCancelled, idleVars, pingVars, playerVars,
         runtimeVars
<1>2. Asking => Asking'
  BY <1>1 DEF Asking, NotTold
<1> QED BY <1>1, <1>2

(* An empty server arms the timer, not later than two pings after it has    *)
(* become empty; occupied or not, it has not been so for longer.            *)
LEMMA IdleArms ==
    ASSUME IdleInv, ArmsTimer
    PROVE  IdleInv'
<1>1. /\ shutdown' = shutdown /\ disarmed' = disarmed /\ stopAsked' = stopAsked
      /\ shutdown[1] = "select" /\ players[1] = "empty"
      /\ counted' = [counted EXCEPT ![1] = FALSE]
      /\ timer' = [timer EXCEPT ![1] = IF @ = "none" THEN "waiting" ELSE @]
      /\ idleLeft' = IF timer[1] = "none" THEN idleWait ELSE idleLeft
  BY DEF ArmsTimer, SeeEmpty, ReadCount
<1>2. /\ counted'[1] = FALSE
      /\ timer'[1] = IF timer[1] = "none" THEN "waiting" ELSE timer[1]
  BY <1>1 DEF IdleInv, IdleTyped
<1>3. IdleTyped'
  BY <1>1, IdleFrame DEF IdleInv, IdleTyped
<1>4. Working'
  BY <1>1, IdleFrame DEF IdleInv, Working
<1>5. HoldsTimer'
  BY <1>1, <1>2, IdleFrame DEF IdleInv, HoldsTimer
<1>6. ASSUME ~token, idleWait # 0 PROVE InTime'
  <2>1. Asking /\ InTime /\ IdleTyped
    BY <1>6 DEF IdleInv
  <2>2. onlineFor <= Bound
    <3>1. CASE online
      BY <1>1, <2>1, <3>1, NotToldIsShort DEF Asking, IdleTyped
    <3>2. CASE ~online
      BY <2>1, <3>2, PingAssumption DEF Asking, Bound
    <3> QED BY <3>1, <3>2
  <2>3. timer[1] = "none" => emptyFor + idleLeft' <= Bound + idleWait
    BY <1>1, <2>1, PingAssumption DEF InTime, IdleTyped, Bound
  <2>4. timer[1] # "none" => emptyFor + idleLeft' <= Bound + idleWait \/ timer[1] # "waiting"
    BY <1>1, <2>1 DEF InTime
  <2> QED BY <1>1, <1>2, <2>2, <2>3, <2>4, IdleFrame DEF InTime, Bound
<1> QED BY <1>3, <1>4, <1>5, <1>6, IdleFrame DEF IdleInv

(* Players, or no answer, disarm it, when the server has been empty for no  *)
(* longer than two pings.                                                   *)
LEMMA IdleDisarms ==
    ASSUME IdleInv, SeeOccupied(1), UNCHANGED idleVars
    PROVE  IdleInv'
<1>1. /\ idleLeft' = idleLeft /\ stopAsked' = stopAsked /\ timer' = timer
      /\ shutdown[1] = "select" /\ players[1] # "empty"
      /\ counted' = [counted EXCEPT ![1] = FALSE]
  BY DEF SeeOccupied, ReadCount, idleVars
<1>2. CASE timer[1] = "none"
  <2>1. shutdown' = shutdown /\ disarmed' = disarmed
    BY <1>2 DEF SeeOccupied
  <2>2. IdleTyped' /\ Working'
    BY <1>1, <2>1, IdleFrame DEF IdleInv, IdleTyped, Working
  <2>3. HoldsTimer'
    BY <1>1, <1>2, <2>1, IdleFrame DEF IdleInv, HoldsTimer
  <2>4. InTime => InTime'
    BY <1>1, <2>1, IdleFrame DEF InTime, Bound
  <2> QED BY <2>2, <2>3, <2>4, IdleFrame DEF IdleInv
<1>3. CASE timer[1] # "none"
  <2>1. /\ shutdown' = [shutdown EXCEPT ![1] = "joinTimer"]
        /\ disarmed' = [disarmed EXCEPT ![1] = TRUE]
    BY <1>3 DEF SeeOccupied
  <2>2. shutdown'[1] = "joinTimer" /\ disarmed'[1]
    BY <2>1 DEF IdleInv, IdleTyped
  <2>3. IdleTyped'
    BY <1>1, <2>1, IdleFrame DEF IdleInv, IdleTyped
  <2>4. Working' /\ HoldsTimer'
    BY <1>1, <2>2, IdleFrame DEF IdleInv, Working, HoldsTimer
  <2>5. ASSUME ~token, idleWait # 0 PROVE InTime'
    <3>1. Asking /\ InTime /\ IdleTyped
      BY <2>5 DEF IdleInv
    <3>2. emptyFor <= Bound
      <4>1. CASE online
        BY <3>1, <4>1, PingAssumption DEF Asking, Bound
      <4>2. CASE ~online
        BY <1>1, <3>1, <4>2, NotToldIsShort DEF Asking, IdleTyped
      <4> QED BY <4>1, <4>2
    <3> QED BY <1>1, <2>2, <3>1, <3>2, IdleFrame DEF InTime, Bound
  <2> QED BY <2>3, <2>4, <2>5, IdleFrame DEF IdleInv
<1> QED BY <1>2, <1>3

(* Joining the disarmed timer, and the end of the shutdown task.            *)
LEMMA IdleJoins ==
    ASSUME IdleInv,
           \/ DisarmedTimerEnds
           \/ /\ PingerLost(1) \/ ShutdownCancelled(1) \/ PingerJoined(1)
              /\ UNCHANGED idleVars
    PROVE  IdleInv'
<1>1. CASE DisarmedTimerEnds
  <2>1. /\ counted' = counted /\ idleLeft' = idleLeft /\ stopAsked' = FALSE
        /\ shutdown[1] = "joinTimer"
        /\ shutdown' = [shutdown EXCEPT ![1] = "select"]
        /\ timer' = [timer EXCEPT ![1] = "none"]
        /\ disarmed' = [disarmed EXCEPT ![1] = FALSE]
    BY <1>1 DEF DisarmedTimerEnds, TimerJoined
  <2>2. shutdown'[1] = "select" /\ timer'[1] = "none" /\ ~disarmed'[1]
    BY <2>1 DEF IdleInv, IdleTyped
  <2>3. IdleTyped'
    BY <1>1, <2>1, IdleFrame DEF IdleInv, IdleTyped
  <2>4. Working'
    BY <1>1, <2>1, <2>2, IdleFrame DEF IdleInv, Working
  <2>5. HoldsTimer'
    BY <1>1, <2>1, <2>2, IdleFrame DEF IdleInv, HoldsTimer
  <2>6. InTime => InTime'
    BY <1>1, <2>1, <2>2, IdleFrame DEF InTime, Bound
  <2> QED BY <1>1, <2>3, <2>4, <2>5, <2>6, IdleFrame DEF IdleInv
<1>2. CASE /\ PingerLost(1) \/ ShutdownCancelled(1) \/ PingerJoined(1)
           /\ UNCHANGED idleVars
  <2>1. /\ counted' = counted /\ idleLeft' = idleLeft /\ stopAsked' = stopAsked
        /\ timer' = timer /\ disarmed' = disarmed
        /\ shutdown[1] \in {"select", "joinPinger"}
        /\ shutdown' \in {[shutdown EXCEPT ![1] = "done"], [shutdown EXCEPT ![1] = "joinPinger"]}
    BY <1>2 DEF PingerLost, ShutdownCancelled, PingerJoined, idleVars
  <2>2. token
    BY <1>2 DEF PingerLost, ShutdownCancelled, PingerJoined, Cancelled, IdleInv, IdleTyped,
                Working
  <2>3. shutdown'[1] \in {"done", "joinPinger"}
    BY <2>1 DEF IdleInv, IdleTyped
  <2>4. IdleTyped'
    BY <1>2, <2>1, IdleFrame DEF IdleInv, IdleTyped
  <2>5. Working' /\ HoldsTimer'
    BY <1>2, <2>1, <2>2, <2>3, IdleFrame DEF IdleInv, Working, HoldsTimer
  <2> QED BY <1>2, <2>2, <2>4, <2>5, IdleFrame DEF IdleInv
<1> QED BY <1>1, <1>2

(* The timer expires, asks, and ends.                                       *)
LEMMA IdleEnds ==
    ASSUME IdleInv,
           IdleTimeOver \/ AsksForStop \/ (TimerCancelled(1) /\ UNCHANGED idleVars)
    PROVE  IdleInv'
<1>1. /\ counted' = counted /\ idleLeft' = idleLeft /\ shutdown' = shutdown
      /\ disarmed' = disarmed
      /\ timer[1] \in {"waiting", "sending"}
      /\ timer' \in {[timer EXCEPT ![1] = "sending"], [timer EXCEPT ![1] = "done"]}
      /\ stopAsked' \in BOOLEAN
  BY DEF IdleTimeOver, TimerExpires, AsksForStop, TimerRequestsStop, TimerCancelled, idleVars,
         IdleInv, IdleTyped
<1>2. timer'[1] \in {"sending", "done"}
  BY <1>1 DEF IdleInv, IdleTyped
<1>3. timer'[1] = "done" /\ shutdown[1] = "select" /\ ~token => stopAsked'
  BY DEF IdleTimeOver, TimerExpires, AsksForStop, TimerRequestsStop, TimerCancelled, Cancelled,
         IdleInv, IdleTyped, HoldsTimer
<1>4. IdleTyped'
  BY <1>1, IdleFrame DEF IdleInv, IdleTyped
<1>5. Working' /\ HoldsTimer'
  BY <1>1, <1>2, <1>3, IdleFrame DEF IdleInv, Working, HoldsTimer
<1>6. InTime => InTime'
  BY <1>1, <1>2, IdleFrame DEF InTime, Bound
<1> QED BY <1>4, <1>5, <1>6, IdleFrame DEF IdleInv

(* One more second of one time is taken up by one less of another.          *)
LEMMA OneSecond ==
    \A time, next, left, limit \in Int : next <= time + 1 =>
        /\ time + left <= limit => next + (left - 1) <= limit
        /\ time <= limit + left => next <= limit + (left + 1)
  OBVIOUS

(* While time passes no task has anything to do: a timer only waits when    *)
(* the last count was of an empty server, and no state has lasted for two   *)
(* pings without being told.                                                *)
LEMMA IdleTime ==
    ASSUME IdleInv, IdleTimePasses, UNCHANGED <<runtimeVars, shutdownVars>>
    PROVE  IdleInv'
<1>1. /\ shutdown' = shutdown /\ timer' = timer /\ disarmed' = disarmed
      /\ pinger' = pinger /\ players' = players /\ counted' = counted
      /\ token' = token /\ cancelled' = cancelled /\ idleWait' = idleWait
      /\ online' = online /\ askedWhen' = askedWhen /\ stopAsked' = stopAsked
      /\ nextPing' = Less(nextPing)
      /\ pinging' = IF pinging = -1 THEN -1 ELSE pinging + 1
      /\ idleLeft' = IF timer[1] = "waiting" THEN Less(idleLeft) ELSE idleLeft
      /\ ~IdleTaskBusy
  BY DEF IdleTimePasses, shutdownVars, runtimeVars
<1>2. /\ onlineFor' \in Nat /\ onlineFor' <= onlineFor + 1
      /\ emptyFor' \in Nat /\ emptyFor' <= emptyFor + 1
      /\ (online \/ shutdown[1] # "select" => emptyFor' = 0)
      /\ (~online => onlineFor' = 0)
      /\ onlineFor' \in Int /\ emptyFor' \in Int
  BY DEF IdleTimePasses, Later, IdleInv, IdleTyped
<1>3. pinging # PING_INTERVAL
  BY <1>1, PingAssumption DEF IdleInv, Working, IdleTaskBusy
<1>4. IdleTyped'
  BY <1>1, <1>2, <1>3, PingAssumption DEF IdleInv, IdleTyped, Less
<1>5. Working' /\ HoldsTimer'
  BY <1>1 DEF IdleInv, Working, HoldsTimer
<1>6. ASSUME ~token, idleWait # 0 PROVE Asking' /\ InTime'
  <2>0. /\ IdleTyped /\ Asking /\ InTime
        /\ pinger[1] = "running" /\ shutdown[1] \in {"select", "joinTimer"}
    BY <1>6 DEF IdleInv, Working
  <2>int. /\ nextPing \in Int /\ pinging \in Int /\ PING_INTERVAL \in Int
          /\ onlineFor \in Int /\ emptyFor \in Int /\ idleLeft \in Int
          /\ idleWait \in Int /\ Bound \in Int
    BY <2>0, PingAssumption DEF IdleTyped, Bound
  <2>1. nextPing > 0 /\ nextPing' = nextPing - 1
    BY <1>1, <1>3, <2>0, PingAssumption DEF IdleTyped, Asking, IdleTaskBusy, Less
  <2>2. ASSUME NEW time \in Nat, NEW next \in Nat, next <= time + 1, NEW occupied \in BOOLEAN,
               NotTold(time, occupied)
        PROVE  next <= Bound
    <3>1. time < Bound
      BY <1>1, <1>6, <2>0, <2>2, NotToldIsShort
    <3> QED BY <2>2, <3>1, PingAssumption DEF Bound
  <2>3. Asking'
    <3>1. pinging' # -1 => nextPing' + pinging' = PING_INTERVAL
      BY <1>1, <2>0, <2>1, PingAssumption DEF Asking, IdleTyped
    <3>2. pinging' # -1 /\ (askedWhen' <=> ~online') =>
             onlineFor' <= pinging' /\ emptyFor' <= pinging'
      BY <1>1, <1>2, <2>0 DEF Asking, IdleTyped
    <3>3. NotTold(onlineFor, TRUE) => (NotTold(onlineFor, TRUE))'
      <4>1. onlineFor + nextPing <= PING_INTERVAL => onlineFor' + (nextPing - 1) <= PING_INTERVAL
        BY <1>2, <2>int, OneSecond, Zenon
      <4>2. onlineFor <= PING_INTERVAL + pinging => onlineFor' <= PING_INTERVAL + (pinging + 1)
        BY <1>2, <2>int, OneSecond, Zenon
      <4>3. pinging # -1 => pinging' # -1 /\ pinging' = pinging + 1
        BY <1>1, <2>0, PingAssumption DEF IdleTyped
      <4> QED BY <1>1, <2>1, <4>1, <4>2, <4>3, Zenon DEF NotTold
    <3>4. NotTold(emptyFor, FALSE) => (NotTold(emptyFor, FALSE))'
      <4>1. emptyFor + nextPing <= PING_INTERVAL => emptyFor' + (nextPing - 1) <= PING_INTERVAL
        BY <1>2, <2>int, OneSecond, Zenon
      <4>2. emptyFor <= PING_INTERVAL + pinging => emptyFor' <= PING_INTERVAL + (pinging + 1)
        BY <1>2, <2>int, OneSecond, Zenon
      <4>3. pinging # -1 => pinging' # -1 /\ pinging' = pinging + 1
        BY <1>1, <2>0, PingAssumption DEF IdleTyped
      <4> QED BY <1>1, <2>1, <4>1, <4>2, <4>3, Zenon DEF NotTold
    <3> QED BY <1>1, <1>2, <2>0, <3>1, <3>2, <3>3, <3>4 DEF Asking
  <2>4. shutdown[1] = "joinTimer" => timer[1] # "waiting"
    BY <1>1 DEF IdleInv, HoldsTimer, IdleTaskBusy
  <2>5. shutdown[1] = "select" => (timer[1] # "none" <=> players[1] = "empty")
    BY <1>1 DEF IdleInv, HoldsTimer, IdleTaskBusy
  <2>6. timer[1] = "waiting" => onlineFor' <= Bound
    <3>1. ASSUME timer[1] = "waiting", online PROVE NotTold(onlineFor, TRUE)
      BY <2>0, <2>4, <2>5, <3>1 DEF Asking
    <3>2. ASSUME timer[1] = "waiting", online PROVE onlineFor' <= Bound
      BY <1>2, <2>0, <2>2, <3>1, <3>2 DEF IdleTyped
    <3> QED BY <1>2, <3>2, PingAssumption DEF Bound
  <2>7. shutdown[1] = "joinTimer" \/ timer[1] = "none" => emptyFor' <= Bound
    <3>1. CASE online \/ shutdown[1] = "joinTimer"
      BY <1>2, <3>1, PingAssumption DEF Bound
    <3>2. ASSUME ~online, shutdown[1] = "select", timer[1] = "none"
          PROVE  emptyFor' <= Bound
      <4>1. NotTold(emptyFor, FALSE)
        BY <2>0, <2>5, <3>2 DEF Asking
      <4> QED BY <1>2, <2>0, <2>2, <4>1 DEF IdleTyped
    <3> QED BY <2>0, <3>1, <3>2
  <2>8. ASSUME shutdown[1] = "select", timer[1] = "waiting"
        PROVE  emptyFor' + idleLeft' <= Bound + idleWait
    <3>1. idleLeft > 0 /\ idleLeft' = idleLeft - 1
      BY <1>1, <2>0, <2>8 DEF IdleTaskBusy, Less, IdleTyped
    <3>2. emptyFor + idleLeft <= Bound + idleWait
      BY <2>0, <2>8 DEF InTime
    <3>3. Bound + idleWait \in Int
      BY <2>int
    <3>4. emptyFor' + (idleLeft - 1) <= Bound + idleWait
      BY <1>2, <2>int, <3>2, <3>3, OneSecond, Zenon
    <3> QED BY <3>1, <3>4, Zenon
  <2> QED BY <1>1, <2>3, <2>6, <2>7, <2>8 DEF InTime, Bound
<1> QED BY <1>1, <1>4, <1>5, <1>6 DEF IdleInv

(* The restart, the server task and main only touch the channel and the     *)
(* token, which tells the tasks to stop.                                    *)
LEMMA IdleOthers ==
    ASSUME IdleInv, RestartStep \/ Receive \/ CancelAll \/ UNCHANGED vars
    PROVE  IdleInv'
<1>1. /\ shutdownVars' = shutdownVars /\ idleVars' = idleVars /\ cancelled' = cancelled
      /\ token' \in {token, TRUE}
  BY DEF RestartStep, RestartTimerNext, BeginStage, Announce, CountDown, CountDownCancelled,
         RequestRestart, Receive, CancelAll, vars, runtimeVars
<1>2. /\ shutdown' = shutdown /\ timer' = timer /\ disarmed' = disarmed
      /\ pinger' = pinger /\ players' = players /\ counted' = counted
      /\ idleWait' = idleWait /\ idleLeft' = idleLeft /\ stopAsked' = stopAsked
      /\ nextPing' = nextPing /\ pinging' = pinging /\ askedWhen' = askedWhen
      /\ online' = online /\ onlineFor' = onlineFor /\ emptyFor' = emptyFor
  BY <1>1 DEF shutdownVars, idleVars, pingVars, playerVars
<1>3. IdleTyped'
  BY <1>1, <1>2 DEF IdleInv, IdleTyped
<1>4. Working' /\ HoldsTimer'
  BY <1>1, <1>2 DEF IdleInv, IdleTyped, Working, HoldsTimer
<1>5. ~token' /\ idleWait' # 0 => Asking' /\ InTime'
  BY <1>1, <1>2 DEF IdleInv, IdleTyped, Asking, NotTold, InTime, Bound
<1> QED BY <1>3, <1>4, <1>5 DEF IdleInv

(* Every step keeps the invariant.                                          *)
LEMMA IdleStepInv == IdleInv /\ [Next]_vars => IdleInv'
<1> SUFFICES ASSUME IdleInv, [Next]_vars PROVE IdleInv'
  OBVIOUS
<1>1. CASE RestartStep \/ Receive \/ CancelAll \/ UNCHANGED vars
  BY <1>1, IdleOthers
<1>2. CASE IdleStep
  <2>1. CASE AskCount \/ GetCount \/ PingerStops
    BY <2>1, IdlePinger
  <2>2. CASE PlayersChange
    BY <2>2, IdlePlayers
  <2>3. CASE ArmsTimer
    BY <2>3, IdleArms
  <2>4. CASE SeeOccupied(1) /\ UNCHANGED idleVars
    BY <2>4, IdleDisarms
  <2>5. CASE \/ DisarmedTimerEnds
             \/ /\ PingerLost(1) \/ ShutdownCancelled(1) \/ PingerJoined(1)
                /\ UNCHANGED idleVars
    BY <2>5, IdleJoins
  <2>6. CASE IdleTimeOver \/ AsksForStop \/ (TimerCancelled(1) /\ UNCHANGED idleVars)
    BY <2>6, IdleEnds
  <2> QED BY <1>2, <2>1, <2>2, <2>3, <2>4, <2>5, <2>6 DEF IdleStep, IdleTaskNext
<1>3. CASE TimePasses
  BY <1>3, IdleTime DEF TimePasses
<1> QED BY <1>1, <1>2, <1>3 DEF Next

(* For every interval of the pings and every time that is set: the timer    *)
(* only runs while players stay away (ping_task.rs:19-41,                   *)
(* shutdown_task.rs:43-87).                                                 *)
THEOREM PlayersAreNotDisturbed == Spec => []OnlyIdleIsStopped
<1>1. IdleInv => OnlyIdleIsStopped
  BY DEF IdleInv, Working, InTime, Bound, OnlyIdleIsStopped
<1> QED BY <1>1, IdleInitial, IdleStepInv, PTL DEF Spec

(* An empty server that answers is asked to stop after the time that was    *)
(* set and at most two pings (shutdown_task.rs:43-113).                     *)
THEOREM EmptyServerIsStopped == Spec => []IdleIsStopped
<1>1. ASSUME IdleInv, idleWait > 0, ~token, ~stopAsked, timer[1] # "sending"
      PROVE  emptyFor <= idleWait + Bound
  <2>0. IdleTyped /\ Working /\ HoldsTimer /\ InTime
    BY <1>1, PingAssumption DEF IdleInv, IdleTyped
  <2>1. shutdown[1] \in {"select", "joinTimer"}
    BY <1>1, <2>0 DEF IdleTyped, Working
  <2>2. CASE shutdown[1] = "joinTimer" \/ timer[1] = "none"
    BY <2>0, <2>2, PingAssumption DEF InTime, IdleTyped, Bound
  <2>3. CASE shutdown[1] = "select" /\ timer[1] = "waiting"
    BY <2>0, <2>3, PingAssumption DEF InTime, IdleTyped, Bound
  <2>4. ~(shutdown[1] = "select" /\ timer[1] = "done")
    BY <1>1, <2>0 DEF HoldsTimer
  <2>5. timer[1] \in {"none", "waiting", "sending", "done"}
    BY <2>0 DEF IdleTyped
  <2> QED BY <1>1, <2>1, <2>2, <2>3, <2>4, <2>5
<1>2. IdleInv => IdleIsStopped
  BY <1>1 DEF IdleIsStopped, Bound
<1> QED BY <1>2, IdleInitial, IdleStepInv, PTL DEF Spec

-----------------------------------------------------------------------------
(* The types, of what the two invariants do not cover: the channel, and the *)
(* times that are not told apart.                                           *)
RestTyped ==
    /\ requests \in Seq(ServerTaskRequest)
    /\ receiving \in BOOLEAN
    /\ {onlineFor, emptyFor} \subseteq 0..MaxTime

(* What is sent is a request.                                               *)
LEMMA SendTyped ==
    ASSUME RestTyped, NEW request \in ServerTaskRequest, Send(request), receiving' = receiving
    PROVE  requests' \in Seq(ServerTaskRequest)
  BY DEF RestTyped, Send

(* A time counts on until it has its longest value.                         *)
LEMMA LaterTyped == ASSUME IdleTyped, NEW time \in 0..MaxTime PROVE Later(time) \in 0..MaxTime
  BY PingAssumption DEF Later, MaxTime, IdleTyped

(* Every step keeps the types.                                              *)
LEMMA RestStep == RestTyped /\ IdleInv /\ [Next]_vars => RestTyped'
<1> SUFFICES ASSUME RestTyped, IdleInv, [Next]_vars PROVE RestTyped'
  OBVIOUS
<1>0. IdleTyped /\ MaxTime \in Nat
  BY PingAssumption DEF IdleInv, IdleTyped, MaxTime
<1>1. CASE RestartStep \/ Receive \/ CancelAll \/ UNCHANGED vars
  <2>1. receiving' = receiving /\ UNCHANGED <<idleWait, onlineFor, emptyFor>>
    BY <1>1 DEF RestartStep, RestartTimerNext, BeginStage, Announce, CountDown,
                CountDownCancelled, RequestRestart, Receive, CancelAll, vars, runtimeVars,
                idleVars, playerVars
  <2>2. requests' \in Seq(ServerTaskRequest)
    <3>1. CASE Receive
      BY <3>1 DEF Receive, RestTyped
    <3>2. CASE RestartStep
      <4>1. CASE Announce \/ RequestRestart
        BY <2>1, <4>1, SendTyped DEF Announce, RequestRestart, ServerTaskRequest
      <4>2. CASE BeginStage \/ CountDown \/ CountDownCancelled
        BY <4>2 DEF BeginStage, CountDown, CountDownCancelled, runtimeVars, RestTyped
      <4> QED BY <3>2, <4>1, <4>2 DEF RestartStep, RestartTimerNext
    <3>3. CASE CancelAll \/ UNCHANGED vars
      BY <3>3 DEF CancelAll, vars, runtimeVars, RestTyped
    <3> QED BY <1>1, <3>1, <3>2, <3>3
  <2> QED BY <2>1, <2>2 DEF RestTyped, MaxTime
<1>2. CASE IdleStep
  <2>1. receiving' = receiving /\ idleWait' = idleWait
    BY <1>2 DEF IdleStep, IdleTaskNext, AskCount, GetCount, Ping, PingerStops, PingerCancelled,
                ArmsTimer, SeeEmpty, DisarmedTimerEnds, TimerJoined, IdleTimeOver, TimerExpires,
                AsksForStop, TimerRequestsStop, SeeOccupied, PingerLost, ShutdownCancelled,
                PingerJoined, TimerCancelled, PlayersChange, runtimeVars, idleVars
  <2>2. requests' \in Seq(ServerTaskRequest)
    <3>1. CASE AsksForStop
      BY <2>1, <3>1, SendTyped DEF AsksForStop, TimerRequestsStop, ServerTaskRequest
    <3>2. CASE ~AsksForStop
      <4>1. requests' = requests
        BY <1>2, <3>2
        DEF IdleStep, IdleTaskNext, AskCount, GetCount, Ping, PingerStops, PingerCancelled,
            ArmsTimer, SeeEmpty, DisarmedTimerEnds, TimerJoined, IdleTimeOver, TimerExpires,
            SeeOccupied, PingerLost, ShutdownCancelled, PingerJoined, TimerCancelled,
            PlayersChange, runtimeVars
      <4> QED BY <4>1 DEF RestTyped
    <3> QED BY <3>1, <3>2
  <2>3. onlineFor' \in {onlineFor, 0} /\ emptyFor' \in {emptyFor, 0}
    BY <1>2 DEF IdleStep, IdleTaskNext, AskCount, GetCount, PingerStops, ArmsTimer,
                DisarmedTimerEnds, IdleTimeOver, AsksForStop, PlayersChange, idleVars,
                playerVars
  <2>4. MaxTime' = MaxTime
    BY <2>1 DEF MaxTime
  <2> QED BY <1>0, <2>1, <2>2, <2>3, <2>4 DEF RestTyped
<1>3. CASE TimePasses
  <2>1. UNCHANGED <<requests, receiving, idleWait>>
    BY <1>3 DEF TimePasses, IdleTimePasses, runtimeVars
  <2>2. /\ onlineFor' \in {Later(onlineFor), 0}
        /\ emptyFor' \in {Later(emptyFor), 0}
    BY <1>3 DEF TimePasses, IdleTimePasses
  <2>3. Later(onlineFor) \in 0..MaxTime /\ Later(emptyFor) \in 0..MaxTime
    BY <1>0, LaterTyped DEF RestTyped
  <2>4. MaxTime' = MaxTime
    BY <2>1 DEF MaxTime
  <2> QED BY <1>0, <2>1, <2>2, <2>3, <2>4 DEF RestTyped
<1> QED BY <1>1, <1>2, <1>3 DEF Next

(* For every setting and every interval, each variable of the two timers    *)
(* keeps its type: no count of seconds falls below zero, no send is delayed *)
(* beyond its bound, no stage passes the last split (restart_task.rs:18-43, *)
(* shutdown_task.rs:33-113, ping_task.rs:11-53).                            *)
THEOREM TimersTypeCorrect == Spec => []TypeOK
<1>1. Init => RestTyped
  BY PingAssumption, SettingsAssumption
  DEF Init, RuntimeInit, IdleTimerInit, RestTyped, MaxTime, ServerTaskRequest
<1>2. ASSUME RestTyped, IdleInv, ScheduleInv PROVE TypeOK
  <2>1. Inc = {1}
    BY OneIncarnation DEF Inc
  <2>2. RuntimeTypeOK
    BY <1>2 DEF RestTyped, IdleInv, IdleTyped, RuntimeTypeOK
  <2>3. ShutdownTypeOK
    BY <1>2, <2>1 DEF IdleInv, IdleTyped, ShutdownTypeOK
  <2>4. IdleTimerTypeOK
    BY <1>2 DEF RestTyped, IdleInv, IdleTyped, IdleTimerTypeOK
  <2> QED BY <1>2, <2>2, <2>3, <2>4 DEF ScheduleInv, TypeOK
<1> QED BY <1>1, <1>2, RestStep, IdleInitial, IdleStepInv, ScheduleInitial, ScheduleStep, PTL
        DEF Spec

=============================================================================

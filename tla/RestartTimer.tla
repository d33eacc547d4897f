--------------------------- MODULE RestartTimer ----------------------------
(***************************************************************************)
(* The schedule of the periodic restart, in seconds. The time left is      *)
(* counted down in stages of shorter and shorter ticks. Each stage makes a *)
(* ticker of its own: its first tick is due at once, the following ones at *)
(* fixed times from then on, and ticks that were missed because a send was *)
(* blocked come in a burst.                                                *)
(***************************************************************************)
EXTENDS Runtime

CONSTANT MaxDelay  (* bound: for how long sends are blocked, in all          *)

ASSUME TimerAssumption == MaxDelay \in Nat

VARIABLES waitFor,     (* restart_after_hrs, in seconds                       *)
          restarting,  (* where the task is                                   *)
          stage,       (* which split it counts in                            *)
          timeLeft,    (* time_left                                           *)
          due,         (* when the ticker ticks next                          *)
          clock,       (* the time since the task began                       *)
          delayed      (* for how long its sends have been blocked            *)

timerVars == <<waitFor, restarting, stage, timeLeft, due, clock, delayed>>

(* Mutant: no countdown of the last seconds. *)
SplitsToAQuarter == <<3600, 900, 300, 60, 15>>

DURATION_SPLITS ==
    <<3600, 900, 300, 60, 15, 1>>

Split == DURATION_SPLITS[stage]

RestartTimerTypeOK ==
    /\ waitFor \in Nat
    /\ restarting \in {"none", "stage", "notify", "tick", "request", "done"}
    /\ stage \in 1..Len(DURATION_SPLITS)
    /\ timeLeft \in Nat
    /\ due \in Nat
    /\ clock \in Nat
    /\ delayed \in 0..MaxDelay

(* No task is begun for a wait of zero. *)
RestartTimerInit(wait) ==
    /\ waitFor = wait
    /\ restarting = IF wait = 0 THEN "none" ELSE "stage"
    /\ stage = 1
    /\ timeLeft = wait
    /\ due = 0
    /\ clock = 0
    /\ delayed = 0

(* Where the task is once it has counted down in its stage. *)
StageOver ==
    IF stage = Len(DURATION_SPLITS)
    THEN restarting' = "request" /\ UNCHANGED stage
    ELSE restarting' = "stage" /\ stage' = stage + 1

(* Mutant: the first tick, which comes at once, is not waited for. *)
BeginStageAtOnce ==
    /\ restarting = "stage"
    /\ due' = clock
    /\ IF timeLeft > Split THEN restarting' = "notify" /\ UNCHANGED stage ELSE StageOver
    /\ UNCHANGED <<waitFor, timeLeft, clock, delayed, runtimeVars>>

BeginStage ==
    /\ restarting = "stage"
    /\ due' = clock + Split
    /\ IF timeLeft > Split THEN restarting' = "notify" /\ UNCHANGED stage ELSE StageOver
    /\ UNCHANGED <<waitFor, timeLeft, clock, delayed, runtimeVars>>

Announce ==
    /\ restarting = "notify"
    /\ Send("Command")
    /\ restarting' = "tick"
    /\ UNCHANGED <<waitFor, stage, timeLeft, due, clock, delayed,
                   receiving, token, cancelled>>

(* Mutant: the time left is compared before it is counted down. *)
CountDownLate ==
    /\ restarting = "tick"
    /\ clock >= due
    /\ timeLeft' = timeLeft - Split
    /\ due' = due + Split
    /\ IF timeLeft > Split THEN restarting' = "notify" /\ UNCHANGED stage ELSE StageOver
    /\ UNCHANGED <<waitFor, clock, delayed, runtimeVars>>

CountDown ==
    /\ restarting = "tick"
    /\ clock >= due
    /\ timeLeft' = timeLeft - Split
    /\ due' = due + Split
    /\ IF timeLeft' > Split THEN restarting' = "notify" /\ UNCHANGED stage ELSE StageOver
    /\ UNCHANGED <<waitFor, clock, delayed, runtimeVars>>

(* Mutant: the cancellation breaks off the stage only. *)
CountDownBroken ==
    /\ restarting = "tick"
    /\ Cancelled("restart", 1)
    /\ StageOver
    /\ UNCHANGED <<waitFor, timeLeft, due, clock, delayed, runtimeVars>>

CountDownCancelled ==
    /\ restarting = "tick"
    /\ Cancelled("restart", 1)
    /\ restarting' = "done"
    /\ UNCHANGED <<waitFor, stage, timeLeft, due, clock, delayed, runtimeVars>>

RequestRestart ==
    /\ restarting = "request"
    /\ Send("Restart")
    /\ restarting' = "done"
    /\ UNCHANGED <<waitFor, stage, timeLeft, due, clock, delayed,
                   receiving, token, cancelled>>

RestartTimerNext ==
    BeginStage \/ Announce \/ CountDown \/ CountDownCancelled \/ RequestRestart

(* Time passes only when the task has nothing to do: while it waits for a   *)
(* tick, until it is due, and while its send waits for a slot.              *)
ChannelFull == receiving /\ Len(requests) = QueueCap

RestartTimePasses(time) ==
    \/ /\ restarting \in {"none", "done"}
       /\ UNCHANGED <<clock, delayed>>
    \/ /\ restarting = "tick"
       /\ clock + time <= due
       /\ ~Cancelled("restart", 1)
       /\ clock' = clock + time
       /\ UNCHANGED delayed
    \/ /\ restarting \in {"notify", "request"}
       /\ ChannelFull
       /\ delayed + time <= MaxDelay
       /\ clock' = clock + time
       /\ delayed' = delayed + time

-----------------------------------------------------------------------------
(* An announced time is true: the restart comes that much later, or as much *)
(* later again as sends have been blocked, although the ticker of each      *)
(* stage begins anew (restart_task.rs:18-39).                               *)
AnnouncedTimeIsTrue ==
    restarting = "notify" => clock + timeLeft \in waitFor..(waitFor + delayed)

(* The restart is requested after the time that was set: never more than    *)
(* the last split before, and later only by what sends have been blocked.   *)
RestartsOnTime ==
    restarting = "request" => clock \in (waitFor - 1)..(waitFor + delayed)

(* How often a time is ticked in split s, if it is counted down from the    *)
(* split first on: what is left of it after the split before, but for the   *)
(* last tick, at which the next split takes over.                           *)
TicksIn(s, first, time) ==
    IF s \in first..Len(DURATION_SPLITS)
    THEN (IF s = first THEN time - 1 ELSE (time - 1) % DURATION_SPLITS[s - 1])
             \div DURATION_SPLITS[s]
    ELSE 0

TicksFrom(first, time) ==
    TicksIn(1, first, time) + TicksIn(2, first, time) + TicksIn(3, first, time)
        + TicksIn(4, first, time) + TicksIn(5, first, time) + TicksIn(6, first, time)

(* How often it will still tick, which RestartTask takes for a constant. *)
TicksToCome == TicksFrom(stage, timeLeft)

Counting == INSTANCE RestartTask WITH
    MaxStarts <- 1, RestartEnabled <- TRUE, Notices <- 0,
    ticks <- <<IF restarting = "none" THEN 0 ELSE TicksToCome>>,
    restart <- <<IF restarting # "stage" THEN restarting
                 ELSE IF TicksToCome = 0 THEN "request" ELSE "notify">>

(* RestartTask, which the composition uses, is this schedule with the time  *)
(* left out: every step of it is one of RestartTask's (restart_task.rs:18-43). *)
CountsAsRestartTask ==
    [][Counting!RestartTaskNext(1)]_<<Counting!restartVars>>

=============================================================================

------------------------------ MODULE Timers -------------------------------
(***************************************************************************)
(* The periodic restart and the idle shutdown of one server in time, which *)
(* share the channel of the server task, and the seconds that pass for     *)
(* both.                                                                   *)
(***************************************************************************)
EXTENDS RestartTimer, IdleTimer

CONSTANT Settings  (* pairs of a time to the restart and a time to the shutdown *)

ASSUME SettingsAssumption == Settings \subseteq Nat \X Nat

(* Both tasks are those of one incarnation. *)
ASSUME OneIncarnation == MaxStarts = 1

vars == <<runtimeVars, timerVars, shutdownVars, idleVars>>

TypeOK == RuntimeTypeOK /\ ShutdownTypeOK /\ RestartTimerTypeOK /\ IdleTimerTypeOK

Init ==
    /\ RuntimeInit
    /\ \E setting \in Settings :
        RestartTimerInit(setting[1]) /\ IdleTimerInit(setting[2])

RestartStep == RestartTimerNext /\ UNCHANGED <<shutdownVars, idleVars>>
IdleStep == (IdleTaskNext \/ PlayersChange) /\ UNCHANGED timerVars

(* The server task receives when it gets to it, and main may cancel. *)
Receive ==
    /\ requests # <<>>
    /\ requests' = Tail(requests)
    /\ UNCHANGED <<receiving, token, cancelled, timerVars, shutdownVars, idleVars>>

CancelAll ==
    /\ token' = TRUE
    /\ UNCHANGED <<requests, receiving, cancelled, timerVars, shutdownVars, idleVars>>

(* Time passes by the second, or to the next tick when only the restart    *)
(* keeps time.                                                             *)
TimePasses ==
    /\ IF idleWait = 0 /\ restarting = "tick"
       THEN clock < due /\ RestartTimePasses(due - clock)
       ELSE RestartTimePasses(1)
    /\ IdleTimePasses
    /\ UNCHANGED <<runtimeVars, shutdownVars, waitFor, restarting, stage, timeLeft, due>>

Next == RestartStep \/ IdleStep \/ Receive \/ CancelAll \/ TimePasses

Spec == Init /\ [][Next]_vars

=============================================================================

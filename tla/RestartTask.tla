---------------------------- MODULE RestartTask ----------------------------
(***************************************************************************)
(* The periodic restart of one incarnation: announce the time left, wait   *)
(* for a tick, and after the last tick request a restart. Only the wait    *)
(* for a tick can be cancelled; a send that is blocked cannot.             *)
(***************************************************************************)
EXTENDS Runtime

CONSTANTS RestartEnabled,  (* restart_after_hrs is not zero                    *)
          Notices          (* how often the time left is announced             *)

ASSUME RestartAssumption == RestartEnabled \in BOOLEAN /\ Notices \in Nat

VARIABLES restart,  (* where the task of each incarnation is               *)
          ticks     (* ticks it still waits for                            *)

restartVars == <<restart, ticks>>

RestartPC == {"none", "notify", "tick", "request", "done"}

RestartTypeOK ==
    /\ restart \in [Inc -> RestartPC]
    /\ ticks \in [Inc -> 0..Notices]

RestartInit ==
    /\ restart = [i \in Inc |-> "none"]
    /\ ticks = [i \in Inc |-> 0]

BeginRestartTask(i) ==
    IF RestartEnabled
    THEN /\ restart' = [restart EXCEPT ![i] = IF Notices = 0 THEN "request" ELSE "notify"]
         /\ ticks' = [ticks EXCEPT ![i] = Notices]
    ELSE UNCHANGED restartVars

RestartNotify(i) ==
    /\ restart[i] = "notify"
    /\ Send("Command")
    /\ restart' = [restart EXCEPT ![i] = "tick"]
    /\ UNCHANGED <<ticks, receiving, token, cancelled>>

(* Mutant: one tick too many, which would take the time left below zero. *)
RestartTickTooMany(i) ==
    /\ restart[i] = "tick"
    /\ ticks' = [ticks EXCEPT ![i] = @ - 1]
    /\ restart' = [restart EXCEPT ![i] = IF ticks[i] = 0 THEN "request" ELSE "notify"]
    /\ UNCHANGED runtimeVars

RestartTick(i) ==
    /\ restart[i] = "tick"
    /\ ticks' = [ticks EXCEPT ![i] = @ - 1]
    /\ restart' = [restart EXCEPT ![i] = IF ticks[i] = 1 THEN "request" ELSE "notify"]
    /\ UNCHANGED runtimeVars

RestartCancelled(i) ==
    /\ restart[i] = "tick"
    /\ Cancelled("restart", i)
    /\ restart' = [restart EXCEPT ![i] = "done"]
    /\ UNCHANGED <<ticks, runtimeVars>>

RestartRequest(i) ==
    /\ restart[i] = "request"
    /\ Send("Restart")
    /\ restart' = [restart EXCEPT ![i] = "done"]
    /\ UNCHANGED <<ticks, receiving, token, cancelled>>

RestartTaskNext(i) ==
    RestartNotify(i) \/ RestartTick(i) \/ RestartCancelled(i) \/ RestartRequest(i)

RestartOver(i) == restart[i] \in {"none", "done"}

=============================================================================

--------------------------- MODULE ShutdownTask ----------------------------
(***************************************************************************)
(* The idle shutdown of one incarnation: a pinger publishes the player     *)
(* count in a watch cell, the shutdown task arms a timer when it sees an   *)
(* empty server and disarms it when it sees players or no server, and a    *)
(* timer that expires requests a stop.                                     *)
(***************************************************************************)
EXTENDS Runtime

CONSTANT ShutdownEnabled  (* shutdown_after_mins is not zero                   *)

ASSUME ShutdownAssumption == ShutdownEnabled \in BOOLEAN

VARIABLES pinger,    (* the ping task                                       *)
          players,   (* the player count last published                     *)
          counted,   (* published and not yet read by the shutdown task     *)
          shutdown,  (* where the shutdown task is                          *)
          timer,     (* the task that waits and requests the stop           *)
          disarmed   (* has the shutdown task cancelled the timer's token?  *)

shutdownVars == <<pinger, players, counted, shutdown, timer, disarmed>>

(* A count of -1 (no answer), of 0, and any other count. *)
PlayerCount == {"offline", "empty", "players"}

ShutdownTypeOK ==
    /\ pinger \in [Inc -> {"none", "running", "done"}]
    /\ players \in [Inc -> PlayerCount]
    /\ counted \in [Inc -> BOOLEAN]
    /\ shutdown \in [Inc -> {"none", "select", "joinTimer", "joinPinger", "done"}]
    /\ timer \in [Inc -> {"none", "waiting", "sending", "done"}]
    /\ disarmed \in [Inc -> BOOLEAN]

ShutdownInit ==
    /\ pinger = [i \in Inc |-> "none"]
    /\ players = [i \in Inc |-> "offline"]
    /\ counted = [i \in Inc |-> FALSE]
    /\ shutdown = [i \in Inc |-> "none"]
    /\ timer = [i \in Inc |-> "none"]
    /\ disarmed = [i \in Inc |-> FALSE]

BeginShutdownTask(i) ==
    IF ShutdownEnabled
    THEN /\ shutdown' = [shutdown EXCEPT ![i] = "select"]
         /\ pinger' = [pinger EXCEPT ![i] = "running"]
         /\ UNCHANGED <<players, counted, timer, disarmed>>
    ELSE UNCHANGED shutdownVars

Ping(i, count) ==
    /\ pinger[i] = "running"
    /\ players' = [players EXCEPT ![i] = count]
    /\ counted' = [counted EXCEPT ![i] = TRUE]
    /\ UNCHANGED <<pinger, shutdown, timer, disarmed, runtimeVars>>

PingerCancelled(i) ==
    /\ pinger[i] = "running"
    /\ Cancelled("shutdown", i)
    /\ pinger' = [pinger EXCEPT ![i] = "done"]
    /\ UNCHANGED <<players, counted, shutdown, timer, disarmed, runtimeVars>>

ReadCount(i) ==
    /\ shutdown[i] = "select"
    /\ counted[i]
    /\ counted' = [counted EXCEPT ![i] = FALSE]

(* An empty server arms the timer, unless one is already there: also one *)
(* that has expired and is only a finished handle.                       *)
SeeEmpty(i) ==
    /\ ReadCount(i)
    /\ players[i] = "empty"
    /\ timer' = [timer EXCEPT ![i] = IF @ = "none" THEN "waiting" ELSE @]
    /\ UNCHANGED <<pinger, players, shutdown, disarmed, runtimeVars>>

(* Mutant: a ping without an answer leaves the timer armed. *)
SeePlayersOnly(i) ==
    /\ ReadCount(i)
    /\ players[i] # "empty"
    /\ IF timer[i] = "none" \/ players[i] = "offline"
       THEN UNCHANGED <<shutdown, disarmed>>
       ELSE /\ disarmed' = [disarmed EXCEPT ![i] = TRUE]
            /\ shutdown' = [shutdown EXCEPT ![i] = "joinTimer"]
    /\ UNCHANGED <<pinger, players, timer, runtimeVars>>

(* Players, or no answer at all, disarm the timer; the task then waits for *)
(* the timer to end.                                                       *)
SeeOccupied(i) ==
    /\ ReadCount(i)
    /\ players[i] # "empty"
    /\ IF timer[i] = "none"
       THEN UNCHANGED <<shutdown, disarmed>>
       ELSE /\ disarmed' = [disarmed EXCEPT ![i] = TRUE]
            /\ shutdown' = [shutdown EXCEPT ![i] = "joinTimer"]
    /\ UNCHANGED <<pinger, players, timer, runtimeVars>>

(* Mutant: the timer is joined, and the next one shares its token. *)
TimerJoinedOnly(i) ==
    /\ shutdown[i] = "joinTimer"
    /\ timer[i] = "done"
    /\ timer' = [timer EXCEPT ![i] = "none"]
    /\ shutdown' = [shutdown EXCEPT ![i] = "select"]
    /\ UNCHANGED <<pinger, players, counted, disarmed, runtimeVars>>

TimerJoined(i) ==
    /\ shutdown[i] = "joinTimer"
    /\ timer[i] = "done"
    /\ timer' = [timer EXCEPT ![i] = "none"]
    /\ disarmed' = [disarmed EXCEPT ![i] = FALSE]
    /\ shutdown' = [shutdown EXCEPT ![i] = "select"]
    /\ UNCHANGED <<pinger, players, counted, runtimeVars>>

(* A pinger that has ended closes the watch cell: the wait for a count fails. *)
PingerLost(i) ==
    /\ shutdown[i] = "select"
    /\ pinger[i] = "done"
    /\ ~counted[i]
    /\ shutdown' = [shutdown EXCEPT ![i] = "done"]
    /\ UNCHANGED <<pinger, players, counted, timer, disarmed, runtimeVars>>

ShutdownCancelled(i) ==
    /\ shutdown[i] = "select"
    /\ Cancelled("shutdown", i)
    /\ shutdown' = [shutdown EXCEPT ![i] = "joinPinger"]
    /\ UNCHANGED <<pinger, players, counted, timer, disarmed, runtimeVars>>

(* The timer is not joined: it ends on its own, for its token is a child. *)
PingerJoined(i) ==
    /\ shutdown[i] = "joinPinger"
    /\ pinger[i] = "done"
    /\ shutdown' = [shutdown EXCEPT ![i] = "done"]
    /\ UNCHANGED <<pinger, players, counted, timer, disarmed, runtimeVars>>

TimerExpires(i) ==
    /\ timer[i] = "waiting"
    /\ timer' = [timer EXCEPT ![i] = "sending"]
    /\ UNCHANGED <<pinger, players, counted, shutdown, disarmed, runtimeVars>>

TimerCancelled(i) ==
    /\ timer[i] = "waiting"
    /\ disarmed[i] \/ Cancelled("shutdown", i)
    /\ timer' = [timer EXCEPT ![i] = "done"]
    /\ UNCHANGED <<pinger, players, counted, shutdown, disarmed, runtimeVars>>

TimerRequestsStop(i) ==
    /\ timer[i] = "sending"
    /\ Send("Stop")
    /\ timer' = [timer EXCEPT ![i] = "done"]
    /\ UNCHANGED <<pinger, players, counted, shutdown, disarmed,
                   receiving, token, cancelled>>

ShutdownTaskNext(i) ==
    \/ SeeEmpty(i) \/ SeeOccupied(i) \/ TimerJoined(i)
    \/ PingerLost(i) \/ ShutdownCancelled(i) \/ PingerJoined(i)

TimerNext(i) == TimerExpires(i) \/ TimerCancelled(i) \/ TimerRequestsStop(i)

ShutdownOver(i) == shutdown[i] \in {"none", "done"}

=============================================================================

----------------------------- MODULE IdleTimer -----------------------------
(***************************************************************************)
(* The idle shutdown of one incarnation in time. Counts are asked for at   *)
(* fixed times; an answer takes up to the interval and may come from any   *)
(* moment of it; a server that does not answer counts as offline. Players  *)
(* come and go. Times are kept as what is left of them, or has passed.     *)
(***************************************************************************)
EXTENDS ShutdownTask, Integers

CONSTANT PING_INTERVAL  (* the interval, and the timeout (5 in the source)     *)

ASSUME PingAssumption == PING_INTERVAL \in Nat \ {0}

VARIABLES idleWait,   (* shutdown_after_mins, as a time                       *)
          nextPing,   (* until the interval ticks                             *)
          pinging,    (* for how long a count has been asked for, -1 if none is *)
          askedWhen,  (* was a player online when it was asked for?           *)
          idleLeft,   (* until the timer expires, once it is armed            *)
          online,     (* is a player online?                                  *)
          onlineFor,  (* for how long one has been                            *)
          emptyFor,   (* for how long nobody has been, on a server that answers *)
          stopAsked   (* has the timer asked for a stop since it was disarmed? *)

pingVars == <<nextPing, pinging, askedWhen>>
playerVars == <<online, onlineFor, emptyFor>>
idleVars == <<idleWait, pingVars, idleLeft, playerVars, stopAsked>>

(* The times that matter are at most this; longer ones are not told apart, *)
(* and none matters when nobody asks for counts.                           *)
MaxTime == IF idleWait = 0 THEN 0 ELSE idleWait + 2 * PING_INTERVAL + 1

IdleTimerTypeOK ==
    /\ idleWait \in Nat
    /\ nextPing \in 0..PING_INTERVAL
    /\ pinging \in -1..PING_INTERVAL
    /\ idleLeft \in 0..idleWait
    /\ {onlineFor, emptyFor} \subseteq 0..MaxTime
    /\ {askedWhen, online, stopAsked} \subseteq BOOLEAN

(* No task is begun for a wait of zero. *)
IdleTimerInit(wait) ==
    /\ idleWait = wait
    /\ shutdown = <<IF wait = 0 THEN "none" ELSE "select">>
    /\ pinger = <<IF wait = 0 THEN "none" ELSE "running">>
    /\ players = <<"offline">> /\ counted = <<FALSE>>
    /\ timer = <<"none">> /\ disarmed = <<FALSE>>
    /\ nextPing = 0 /\ pinging = -1 /\ askedWhen = FALSE
    /\ idleLeft = 0 /\ stopAsked = FALSE
    /\ online = FALSE /\ onlineFor = 0 /\ emptyFor = 0

-----------------------------------------------------------------------------
(* The pinger and the players. *)

AskCount ==
    /\ pinger[1] = "running"
    /\ pinging = -1 /\ nextPing = 0
    /\ pinging' = 0
    /\ nextPing' = PING_INTERVAL
    /\ askedWhen' = online
    /\ UNCHANGED <<shutdownVars, runtimeVars, idleWait, idleLeft, playerVars, stopAsked>>

CountOf(occupied) == IF occupied THEN "players" ELSE "empty"

GetCount ==
    /\ pinging # -1
    /\ \E count \in {"offline", CountOf(askedWhen), CountOf(online)} :
        /\ Ping(1, count)
        /\ emptyFor' = IF count = "offline" THEN 0 ELSE emptyFor
    /\ pinging' = -1
    /\ UNCHANGED <<nextPing, askedWhen, idleWait, idleLeft, online, onlineFor, stopAsked>>

PingerStops ==
    /\ PingerCancelled(1)
    /\ pinging' = -1
    /\ UNCHANGED <<nextPing, askedWhen, idleWait, idleLeft, playerVars, stopAsked>>

PlayersChange ==
    /\ idleWait > 0
    /\ online' = ~online
    /\ onlineFor' = 0 /\ emptyFor' = 0
    /\ UNCHANGED <<shutdownVars, runtimeVars, idleWait, pingVars, idleLeft, stopAsked>>

-----------------------------------------------------------------------------
(* The shutdown task and its timer. *)

ArmsTimer ==
    /\ SeeEmpty(1)
    /\ idleLeft' = IF timer[1] = "none" THEN idleWait ELSE idleLeft
    /\ UNCHANGED <<idleWait, pingVars, playerVars, stopAsked>>

DisarmedTimerEnds ==
    /\ TimerJoined(1)
    /\ stopAsked' = FALSE
    /\ UNCHANGED <<idleWait, pingVars, idleLeft, playerVars>>

IdleTimeOver ==
    /\ idleLeft = 0
    /\ TimerExpires(1)
    /\ UNCHANGED idleVars

AsksForStop ==
    /\ TimerRequestsStop(1)
    /\ stopAsked' = TRUE
    /\ UNCHANGED <<idleWait, pingVars, idleLeft, playerVars>>

IdleTaskNext ==
    \/ AskCount \/ GetCount \/ PingerStops \/ ArmsTimer \/ DisarmedTimerEnds
    \/ IdleTimeOver \/ AsksForStop
    \/ /\ \/ SeeOccupied(1) \/ PingerLost(1) \/ ShutdownCancelled(1)
          \/ PingerJoined(1) \/ TimerCancelled(1)
       /\ UNCHANGED idleVars

(* What keeps the tasks from waiting: none of it lasts while time passes. *)
IdleTaskBusy ==
    \/ pinger[1] = "running" /\ (token \/ pinging = PING_INTERVAL \/ (pinging = -1 /\ nextPing = 0))
    \/ shutdown[1] = "select" /\ (token \/ counted[1])
    \/ shutdown[1] = "joinTimer" /\ timer[1] = "done"
    \/ shutdown[1] = "joinPinger" /\ pinger[1] = "done"
    \/ timer[1] = "waiting" /\ (idleLeft = 0 \/ disarmed[1] \/ token)
    \/ timer[1] = "sending" /\ ~(receiving /\ Len(requests) = QueueCap)

Later(time) == IF time < MaxTime THEN time + 1 ELSE time
Less(time) == IF time > 0 THEN time - 1 ELSE 0

IdleTimePasses ==
    /\ ~IdleTaskBusy
    /\ nextPing' = Less(nextPing)
    /\ pinging' = IF pinging = -1 THEN -1 ELSE pinging + 1
    /\ idleLeft' = IF timer[1] = "waiting" THEN Less(idleLeft) ELSE idleLeft
    /\ onlineFor' = IF online THEN Later(onlineFor) ELSE 0
    /\ emptyFor' = IF online \/ shutdown[1] # "select" THEN 0 ELSE Later(emptyFor)
    /\ UNCHANGED <<idleWait, askedWhen, online, stopAsked>>

-----------------------------------------------------------------------------
(* The timer only runs while players stay away: it is disarmed before one   *)
(* has been online for two pings, also when the server does not answer      *)
(* while it is busy with them (ping_task.rs:19-41, shutdown_task.rs:43-87). *)
OnlyIdleIsStopped ==
    timer[1] = "waiting" /\ online /\ ~token => onlineFor <= 2 * PING_INTERVAL

(* An empty server that answers is asked to stop after the time that was    *)
(* set and at most two pings, however often the timer has been armed and    *)
(* disarmed before, unless the channel blocks the request.                  *)
IdleIsStopped ==
    idleWait > 0 /\ ~token /\ ~stopAsked /\ timer[1] # "sending" =>
        emptyFor <= idleWait + 2 * PING_INTERVAL

=============================================================================

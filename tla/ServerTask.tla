---------------------------- MODULE ServerTask -----------------------------
(***************************************************************************)
(* The server task: one loop that waits for a request, a change of the     *)
(* server state or its cancellation, and handles each to its end before it *)
(* waits again. A handler that waits (for a channel slot or for another    *)
(* task) is a control state of its own, and every other task can run while *)
(* the server task is in it.                                               *)
(***************************************************************************)
EXTENDS ServerProcess, ListenerTask

CONSTANTS AutoStart,     (* the values of auto_start a config file may hold *)
          StartMayFail,  (* may loading, patching or spawning fail?         *)
          StartMayPanic  (* may patching or a duration setting panic?       *)

ASSUME ServerAssumption ==
    /\ AutoStart # {} /\ AutoStart \subseteq BOOLEAN
    /\ StartMayFail \in BOOLEAN /\ StartMayPanic \in BOOLEAN

VARIABLES srv,             (* where the server task is                        *)
          awaited,         (* the server or listener whose end it waits for   *)
          serverHandle,    (* handle_map["server"], 0 when absent             *)
          listenerHandle,  (* handle_map["listener"], 0 when absent           *)
          serverAuto,      (* auto_start in server.config, the last one loaded *)
          cachedAuto,      (* auto_start in config, the copy the loop reads   *)
          replies          (* the channel of answers to IsRunning             *)

serverVars == <<srv, awaited, serverHandle, listenerHandle,
                serverAuto, cachedAuto, replies>>

ServerPC == {"select", "joinListener", "starting", "reportOn", "sendStop",
             "joinServer", "sendCommand", "restartStop", "restartStart",
             "drain", "done", "panicked"}

ServerTypeOK ==
    /\ srv \in ServerPC
    /\ awaited \in 0..MaxStarts
    /\ serverHandle \in 0..MaxStarts
    /\ listenerHandle \in 0..MaxStarts
    /\ serverAuto \in BOOLEAN
    /\ cachedAuto \in BOOLEAN
    /\ replies \in Seq(BOOLEAN)

ServerInit ==
    /\ srv = "select"
    /\ awaited = 0
    /\ serverHandle = 0
    /\ listenerHandle = 0
    /\ \E auto \in AutoStart : serverAuto = auto /\ cachedAuto = auto
    /\ replies = <<>>

(* What the server task takes the state to be: the watch cell, as it is. *)
ServerIsRunning == watch = "On"

-----------------------------------------------------------------------------
(* Waiting. *)

Take(request) ==
    /\ srv = "select"
    /\ requests # <<>>
    /\ Head(requests) = request
    /\ requests' = Tail(requests)
    /\ UNCHANGED receiving

(* A state change: an Off begins a listener, anything else refreshes the    *)
(* copy of the configuration. A listener already in the map is overwritten: *)
(* its task goes on, and nothing but the root token can cancel it.          *)
StateChanged ==
    /\ srv = "select"
    /\ unseen
    /\ unseen' = FALSE
    /\ IF watch = "Off" /\ cachedAuto
       THEN /\ \E l \in Inc : BeginListener(l) /\ listenerHandle' = l
            /\ UNCHANGED cachedAuto
       ELSE /\ cachedAuto' = serverAuto
            /\ UNCHANGED <<listener, listenerHandle>>
    /\ UNCHANGED <<stateTask, reports, watch, runtimeVars, restartVars,
                   shutdownVars, procVars, srv, awaited, serverHandle,
                   serverAuto, replies>>

ServerCancelled ==
    /\ srv = "select"
    /\ token
    /\ srv' = "drain"
    /\ UNCHANGED <<taskVars, procVars,
                   listener, awaited, serverHandle, listenerHandle,
                   serverAuto, cachedAuto, replies>>

(* The server task ends and drops what it owns: the receiver, the handles   *)
(* (which detaches the tasks) and the only sender of the pipe.              *)
TaskEnds(how) ==
    /\ srv' = how
    /\ serverHandle' = 0
    /\ listenerHandle' = 0
    /\ sender' = 0
    /\ receiving' = FALSE
    /\ requests' = <<>>
    /\ UNCHANGED <<token, cancelled, restartVars, shutdownVars, spawned, proc,
                   stdinq, exitTask, listener, awaited, serverAuto, cachedAuto,
                   replies>>

(* Mutant: the tasks in the map are cancelled and not waited for. *)
DrainedAtOnce ==
    /\ srv = "drain"
    /\ TaskEnds("done")
    /\ UNCHANGED <<stateVars, pipe>>

(* Every task in the map has been cancelled (their tokens descend from the  *)
(* root) and is waited for; then the task ends.                             *)
Drained ==
    /\ srv = "drain"
    /\ stateTask = "done"
    /\ serverHandle # 0 => exitTask[serverHandle] = "done"
    /\ listenerHandle # 0 => ListenerOver(listenerHandle)
    /\ TaskEnds("done")
    /\ UNCHANGED <<stateVars, pipe>>

-----------------------------------------------------------------------------
(* Start. *)

(* Mutant: looking at the state marks it as seen. *)
IgnoreStartAndUpdate ==
    /\ Take("Start")
    /\ ServerIsRunning
    /\ unseen' = FALSE
    /\ UNCHANGED <<token, cancelled, stateTask, reports, watch, restartVars,
                   shutdownVars, procVars, listener, serverVars>>

IgnoreStart ==
    /\ Take("Start")
    /\ ServerIsRunning
    /\ UNCHANGED <<token, cancelled, stateVars, restartVars, shutdownVars,
                   procVars, listener, serverVars>>

AcceptStart ==
    /\ Take("Start")
    /\ ~ServerIsRunning
    /\ IF listenerHandle = 0
       THEN /\ srv' = "starting"
            /\ UNCHANGED <<awaited, listenerHandle, cancelled>>
       ELSE /\ srv' = "joinListener"
            /\ awaited' = listenerHandle
            /\ listenerHandle' = 0
            /\ Cancel("listener", listenerHandle)
    /\ UNCHANGED <<token, stateVars, restartVars, shutdownVars, procVars,
                   listener, serverHandle, serverAuto, cachedAuto, replies>>

ListenerJoined ==
    /\ srv = "joinListener"
    /\ ListenerOver(awaited)
    /\ srv' = "starting"
    /\ awaited' = 0
    /\ UNCHANGED <<taskVars, procVars,
                   listener, serverHandle, listenerHandle, serverAuto,
                   cachedAuto, replies>>

(* The configuration, the Log4Shell patch or the spawn fails. A start past *)
(* the bound MaxStarts also counts as one that fails.                      *)
StartFails ==
    /\ srv = "starting"
    /\ StartMayFail \/ spawned = MaxStarts
    /\ srv' = "select"
    /\ \E auto \in AutoStart \cup {serverAuto} : serverAuto' = auto
    /\ UNCHANGED <<taskVars, procVars,
                   listener, awaited, serverHandle, listenerHandle,
                   cachedAuto, replies>>

SpawnProcess ==
    /\ srv = "starting"
    /\ spawned < MaxStarts
    /\ spawned' = spawned + 1
    /\ proc' = [proc EXCEPT ![spawned + 1] = "running"]
    /\ srv' = "reportOn"
    /\ \E auto \in AutoStart : serverAuto' = auto
    /\ UNCHANGED <<taskVars, stdinq,
                   pipe, exitTask, sender, listener, awaited, serverHandle,
                   listenerHandle, cachedAuto, replies>>

(* Report On; then the pipe and the exit task with its children are begun, *)
(* and their handle and sender replace whatever the map held.              *)
ReportsOn ==
    /\ srv = "reportOn"
    /\ Report("On")
    /\ pipe' = [pipe EXCEPT ![spawned] = "running"]
    /\ exitTask' = [exitTask EXCEPT ![spawned] = "wait"]
    /\ BeginRestartTask(spawned)
    /\ BeginShutdownTask(spawned)
    /\ sender' = spawned
    /\ serverHandle' = spawned
    /\ srv' = "select"
    /\ UNCHANGED <<runtimeVars, spawned, proc, stdinq, listener, awaited,
                   listenerHandle, serverAuto, cachedAuto, replies>>

(* The state task is gone: start fails and leaves the process it spawned. *)
ReportOnFails ==
    /\ srv = "reportOn"
    /\ ReportFails
    /\ srv' = "select"
    /\ UNCHANGED <<runtimeVars, restartVars, shutdownVars, procVars, listener,
                   awaited, serverHandle, listenerHandle, serverAuto,
                   cachedAuto, replies>>

(* A panic ends the server task where it is, and cancels nothing: a manifest *)
(* without the versions that are looked up, or, after the report of On and  *)
(* with the pipe begun, a duration that is negative or too long.            *)
StartPanics ==
    /\ StartMayPanic
    /\ \/ srv = "starting" /\ UNCHANGED <<stateVars, pipe>>
       \/ /\ srv = "reportOn"
          /\ Report("On")
          /\ pipe' = [pipe EXCEPT ![spawned] = "running"]
    /\ TaskEnds("panicked")

-----------------------------------------------------------------------------
(* Stop and Kill. *)

(* Mutant: looking at the state marks it as seen. *)
IgnoreStopAndUpdate ==
    /\ ~ServerIsRunning
    /\ \/ Take("Stop") /\ UNCHANGED token
       \/ Take("Kill") /\ token' = TRUE
    /\ unseen' = FALSE
    /\ UNCHANGED <<cancelled, stateTask, reports, watch, restartVars,
                   shutdownVars, procVars, listener, serverVars>>

(* Only a Kill that finds no server cancels the root token. *)
IgnoreStop ==
    /\ ~ServerIsRunning
    /\ \/ Take("Stop") /\ UNCHANGED token
       \/ Take("Kill") /\ token' = TRUE
    /\ UNCHANGED <<cancelled, stateVars, restartVars, shutdownVars, procVars,
                   listener, serverVars>>

(* Where the handler goes once the stop command has been dealt with. *)
AwaitServer ==
    IF serverHandle = 0
    THEN /\ srv' = "select"
         /\ UNCHANGED <<awaited, serverHandle>>
    ELSE /\ srv' = "joinServer"
         /\ awaited' = serverHandle
         /\ serverHandle' = 0

(* Mutant: the server is waited for before the stop is sent. *)
AwaitsBeforeStop ==
    /\ ServerIsRunning
    /\ Take("Stop") \/ Take("Kill")
    /\ AwaitServer
    /\ UNCHANGED <<token, cancelled, stateVars, restartVars, shutdownVars,
                   procVars, listener, listenerHandle, serverAuto, cachedAuto,
                   replies>>

AcceptStop ==
    /\ ServerIsRunning
    /\ Take("Stop") \/ Take("Kill")
    /\ IF sender = 0
       THEN AwaitServer
       ELSE srv' = "sendStop" /\ UNCHANGED <<awaited, serverHandle>>
    /\ UNCHANGED <<token, cancelled, stateVars, restartVars, shutdownVars,
                   procVars, listener, listenerHandle, serverAuto, cachedAuto,
                   replies>>

SendsStop ==
    /\ srv = "sendStop"
    /\ SendStdin(sender, "stop")
    /\ AwaitServer
    /\ UNCHANGED <<taskVars, spawned,
                   proc, pipe, exitTask, sender, listener, listenerHandle,
                   serverAuto, cachedAuto, replies>>

ServerJoined ==
    /\ srv = "joinServer"
    /\ exitTask[awaited] = "done"
    /\ srv' = "select"
    /\ awaited' = 0
    /\ UNCHANGED <<taskVars, procVars,
                   listener, serverHandle, listenerHandle, serverAuto,
                   cachedAuto, replies>>

-----------------------------------------------------------------------------
(* Restart, Command and IsRunning. *)

ServerGoes(from, to) ==
    /\ srv = from
    /\ srv' = to
    /\ UNCHANGED <<awaited, serverHandle, listenerHandle, serverAuto, cachedAuto>>

(* A restart is two requests that the server task sends to itself. *)
AcceptRestart ==
    /\ Take("Restart")
    /\ ServerGoes("select", "restartStop")
    /\ UNCHANGED <<token, cancelled, stateVars, restartVars, shutdownVars,
                   procVars, listener, replies>>

RestartSendsStop ==
    /\ ServerGoes("restartStop", "restartStart")
    /\ Send("Stop")
    /\ UNCHANGED <<receiving, token, cancelled, stateVars, restartVars,
                   shutdownVars, procVars, listener, replies>>

RestartSendsStart ==
    /\ ServerGoes("restartStart", "select")
    /\ Send("Start")
    /\ UNCHANGED <<receiving, token, cancelled, stateVars, restartVars,
                   shutdownVars, procVars, listener, replies>>

AcceptCommand ==
    /\ Take("Command")
    /\ IF sender = 0 THEN UNCHANGED serverVars
       ELSE ServerGoes("select", "sendCommand") /\ UNCHANGED replies
    /\ UNCHANGED <<token, cancelled, stateVars, restartVars, shutdownVars,
                   procVars, listener>>

SendsCommand ==
    /\ ServerGoes("sendCommand", "select")
    /\ SendStdin(sender, "command")
    /\ UNCHANGED <<taskVars, spawned,
                   proc, pipe, exitTask, sender, listener, replies>>

(* Mutant: a server that does not run is not worth an answer. *)
AnswersIfRunning ==
    /\ Take("IsRunning")
    /\ replies' = IF ServerIsRunning THEN Append(replies, TRUE) ELSE replies
    /\ ServerGoes("select", "select")
    /\ UNCHANGED <<token, cancelled, stateVars, restartVars, shutdownVars,
                   procVars, listener>>

(* The answer goes out without a check for the one slot of its channel:    *)
(* OneAnswerPerQuestion (module Ssw) shows that the slot is always free.   *)
Answers ==
    /\ Take("IsRunning")
    /\ replies' = Append(replies, ServerIsRunning)
    /\ ServerGoes("select", "select")
    /\ UNCHANGED <<token, cancelled, stateVars, restartVars, shutdownVars,
                   procVars, listener>>

ServerTaskNext ==
    \/ StateChanged \/ ServerCancelled \/ Drained
    \/ IgnoreStart \/ AcceptStart \/ ListenerJoined
    \/ StartFails \/ SpawnProcess \/ ReportsOn \/ ReportOnFails \/ StartPanics
    \/ IgnoreStop \/ AcceptStop \/ SendsStop \/ ServerJoined
    \/ AcceptRestart \/ RestartSendsStop \/ RestartSendsStart
    \/ AcceptCommand \/ SendsCommand \/ Answers

=============================================================================

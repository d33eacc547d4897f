--------------------------- MODULE ServerProcess ---------------------------
(***************************************************************************)
(* What MinecraftServer::start leaves behind for each incarnation: the     *)
(* Java process, the task that pipes commands into its stdin, and the exit *)
(* task that waits for the process to end, kills it when the wrapper is    *)
(* cancelled, reports Off and joins its child tasks one after another.     *)
(***************************************************************************)
EXTENDS StateTask, RestartTask, ShutdownTask

VARIABLES spawned,   (* incarnations launched so far                         *)
          proc,      (* the Java process                                     *)
          stdinq,    (* commands sent to the stdin pipe                      *)
          pipe,      (* the stdin pipe task                                  *)
          exitTask,  (* where the exit task is                               *)
          sender     (* server_senders: the pipe the server task writes to   *)

procVars == <<spawned, proc, stdinq, pipe, exitTask, sender>>

(* The variables of the tasks this module builds on. *)
taskVars == <<runtimeVars, stateVars, restartVars, shutdownVars>>

StdinCap == 3

(* "stopping": the process has been handed the stop command. *)
ProcState == {"none", "running", "stopping", "exited", "killed"}
ExitPC == {"none", "wait", "grace", "report",
           "joinPipe", "joinRestart", "joinShutdown", "done"}

ProcessTypeOK ==
    /\ spawned \in 0..MaxStarts
    /\ proc \in [Inc -> ProcState]
    /\ stdinq \in [Inc -> Seq({"stop", "command"})]
    /\ pipe \in [Inc -> {"none", "running", "done"}]
    /\ exitTask \in [Inc -> ExitPC]
    /\ sender \in 0..MaxStarts

ProcessInit ==
    /\ spawned = 0
    /\ proc = [i \in Inc |-> "none"]
    /\ stdinq = [i \in Inc |-> <<>>]
    /\ pipe = [i \in Inc |-> "none"]
    /\ exitTask = [i \in Inc |-> "none"]
    /\ sender = 0

Alive(i) == proc[i] \in {"running", "stopping"}

(* Not yet reported Off by the exit task that owns it. *)
Unreported(i) == exitTask[i] \in {"wait", "grace", "report"}

-----------------------------------------------------------------------------
(* The Java process, outside the wrapper. *)

(* It ends without having been asked: a crash, or an operator in the game. *)
ProcessEnds(i) ==
    /\ proc[i] = "running"
    /\ proc' = [proc EXCEPT ![i] = "exited"]
    /\ UNCHANGED <<taskVars, spawned, stdinq, pipe, exitTask, sender>>

ProcessStops(i) ==
    /\ proc[i] = "stopping"
    /\ proc' = [proc EXCEPT ![i] = "exited"]
    /\ UNCHANGED <<taskVars, spawned, stdinq, pipe, exitTask, sender>>

-----------------------------------------------------------------------------
(* The stdin pipe. *)

(* A command sent to a pipe that is gone is logged and lost. *)
SendStdin(i, command) ==
    \/ /\ pipe[i] = "running"
       /\ Len(stdinq[i]) < StdinCap
       /\ stdinq' = [stdinq EXCEPT ![i] = Append(@, command)]
    \/ /\ pipe[i] # "running"
       /\ UNCHANGED stdinq

(* Mutant: the command is written and not flushed. *)
PipeWrites(i) ==
    /\ pipe[i] = "running"
    /\ stdinq[i] # <<>>
    /\ stdinq' = [stdinq EXCEPT ![i] = Tail(@)]
    /\ UNCHANGED <<taskVars, spawned, proc, pipe, exitTask, sender>>

PipeForwards(i) ==
    /\ pipe[i] = "running"
    /\ stdinq[i] # <<>>
    /\ stdinq' = [stdinq EXCEPT ![i] = Tail(@)]
    /\ proc' = [proc EXCEPT ![i] = IF @ = "running" /\ Head(stdinq[i]) = "stop"
                                   THEN "stopping" ELSE @]
    /\ UNCHANGED <<taskVars, spawned, pipe, exitTask, sender>>

PipeCancelled(i) ==
    /\ pipe[i] = "running"
    /\ Cancelled("pipe", i)
    /\ pipe' = [pipe EXCEPT ![i] = "done"]
    /\ stdinq' = [stdinq EXCEPT ![i] = <<>>]
    /\ UNCHANGED <<taskVars, spawned, proc, exitTask, sender>>

(* The server task has replaced or dropped the only sender. *)
PipeClosed(i) ==
    /\ pipe[i] = "running"
    /\ stdinq[i] = <<>>
    /\ sender # i
    /\ pipe' = [pipe EXCEPT ![i] = "done"]
    /\ UNCHANGED <<taskVars, spawned, proc, stdinq, exitTask, sender>>

-----------------------------------------------------------------------------
(* The exit task. *)

ExitStep(i, from, to) ==
    /\ exitTask[i] = from
    /\ exitTask' = [exitTask EXCEPT ![i] = to]

ExitObserved(i) ==
    /\ \/ ExitStep(i, "wait", "report")
       \/ ExitStep(i, "grace", "report")
    /\ ~Alive(i)
    /\ UNCHANGED <<taskVars, spawned, proc, stdinq, pipe, sender>>

(* Mutant: a stop, too, is given ten seconds. *)
ExitImpatient(i) ==
    /\ ExitStep(i, "wait", "grace")
    /\ token \/ proc[i] = "stopping"
    /\ UNCHANGED <<taskVars, spawned, stdinq, proc, pipe, sender>>

ExitCancelled(i) ==
    /\ ExitStep(i, "wait", "grace")
    /\ token
    /\ UNCHANGED <<taskVars, spawned, proc, stdinq, pipe, sender>>

(* Mutant: only a server that was told to stop is killed. *)
GraceExpiresIfStopping(i) ==
    /\ ExitStep(i, "grace", "report")
    /\ proc[i] = "stopping"
    /\ proc' = [proc EXCEPT ![i] = "killed"]
    /\ UNCHANGED <<taskVars, spawned, stdinq, pipe, sender>>

(* Mutant: after ten seconds the process is left to itself. *)
GraceExpiresKindly(i) ==
    /\ ExitStep(i, "grace", "report")
    /\ Alive(i)
    /\ UNCHANGED <<taskVars, spawned, proc, stdinq, pipe, sender>>

(* Ten seconds after the cancellation the process is killed. *)
GraceExpires(i) ==
    /\ ExitStep(i, "grace", "report")
    /\ Alive(i)
    /\ proc' = [proc EXCEPT ![i] = "killed"]
    /\ UNCHANGED <<taskVars, spawned, stdinq, pipe, sender>>

(* Mutant: the report is tried once and dropped when the channel is full. *)
TriesToReportOff(i) ==
    /\ ExitStep(i, "report", "joinPipe")
    /\ \/ Report("Off") \/ ReportFails
       \/ (Len(reports) = ReportCap /\ UNCHANGED stateVars)
    /\ Cancel("pipe", i)
    /\ UNCHANGED <<requests, receiving, token, restartVars, shutdownVars,
                   spawned, proc, stdinq, pipe, sender>>

(* Report Off, then cancel the first of the children and wait for it. *)
ReportsOff(i) ==
    /\ ExitStep(i, "report", "joinPipe")
    /\ Report("Off") \/ ReportFails
    /\ Cancel("pipe", i)
    /\ UNCHANGED <<requests, receiving, token, restartVars, shutdownVars,
                   spawned, proc, stdinq, pipe, sender>>

PipeJoined(i) ==
    /\ ExitStep(i, "joinPipe", "joinRestart")
    /\ pipe[i] = "done"
    /\ Cancel("restart", i)
    /\ UNCHANGED <<requests, receiving, token, stateVars, restartVars,
                   shutdownVars, spawned, proc, stdinq, pipe, sender>>

(* Mutant: the restart task is cancelled and not waited for. *)
RestartNotJoined(i) ==
    /\ ExitStep(i, "joinRestart", "joinShutdown")
    /\ Cancel("shutdown", i)
    /\ UNCHANGED <<requests, receiving, token, stateVars, restartVars,
                   shutdownVars, spawned, proc, stdinq, pipe, sender>>

RestartJoined(i) ==
    /\ ExitStep(i, "joinRestart", "joinShutdown")
    /\ RestartOver(i)
    /\ Cancel("shutdown", i)
    /\ UNCHANGED <<requests, receiving, token, stateVars, restartVars,
                   shutdownVars, spawned, proc, stdinq, pipe, sender>>

ShutdownJoined(i) ==
    /\ ExitStep(i, "joinShutdown", "done")
    /\ ShutdownOver(i)
    /\ UNCHANGED <<taskVars, spawned, proc, stdinq, pipe, sender>>

PipeTaskNext(i) == PipeForwards(i) \/ PipeCancelled(i) \/ PipeClosed(i)

ExitTaskNext(i) ==
    \/ ExitObserved(i) \/ ExitCancelled(i) \/ GraceExpires(i)
    \/ ReportsOff(i) \/ PipeJoined(i) \/ RestartJoined(i) \/ ShutdownJoined(i)

=============================================================================

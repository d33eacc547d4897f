-------------------------------- MODULE Ssw --------------------------------
(***************************************************************************)
(* The whole wrapper: the console and main, the server task, the state     *)
(* task, and per incarnation the Java process, its stdin pipe, its exit    *)
(* task, its restart task, its idle shutdown, and the listener that stands *)
(* in for it while it is stopped.                                          *)
(***************************************************************************)
EXTENDS Console

vars == <<runtimeVars, stateVars, restartVars, shutdownVars, procVars,
          listener, serverVars, consoleVars>>

TypeOK ==
    /\ RuntimeTypeOK
    /\ StateTypeOK
    /\ RestartTypeOK
    /\ ShutdownTypeOK
    /\ ProcessTypeOK
    /\ ListenerTypeOK
    /\ ServerTypeOK
    /\ ConsoleTypeOK

Init ==
    /\ RuntimeInit
    /\ StateInit
    /\ RestartInit
    /\ ShutdownInit
    /\ ProcessInit
    /\ ListenerInit
    /\ ServerInit
    /\ ConsoleInit

-----------------------------------------------------------------------------
(* The steps of each component, leaving the others alone. *)

ConsoleFrame(action) ==
    /\ action
    /\ UNCHANGED <<stateVars, restartVars, shutdownVars, procVars, listener,
                   srv, awaited, serverHandle, listenerHandle, serverAuto,
                   cachedAuto>>

UserStep == ConsoleFrame(StdinCloses \/ \E line \in Lines : ReadLine(line))
StdinStep == ConsoleFrame(StdinTaskNext)
MainStep == ConsoleFrame(MainCancels \/ MainReturns)

ServerStep == ServerTaskNext /\ UNCHANGED consoleVars

StateStep ==
    /\ StateTaskNext
    /\ UNCHANGED <<restartVars, shutdownVars, procVars, listener, serverVars,
                   consoleVars>>

RestartStep(i) ==
    /\ RestartTaskNext(i)
    /\ UNCHANGED <<stateVars, shutdownVars, procVars, listener, serverVars,
                   consoleVars>>

ShutdownFrame(action) ==
    /\ action
    /\ UNCHANGED <<stateVars, restartVars, procVars, listener, serverVars,
                   consoleVars>>

ShutdownStep(i) == ShutdownFrame(ShutdownTaskNext(i))
TimerStep(i) == ShutdownFrame(TimerNext(i))
PingerEnds(i) == ShutdownFrame(PingerCancelled(i))

(* Only a live server answers a ping, and it may fail to in time. A ping    *)
(* goes to the port: the server that answers may be of another launch.     *)
PingStep(i) ==
    \E count \in PlayerCount :
        /\ count = "offline" \/ \E k \in Inc : Alive(k)
        /\ ShutdownFrame(Ping(i, count))

ProcessFrame(action) ==
    /\ action
    /\ UNCHANGED <<listener, serverVars, consoleVars>>

PipeStep(i) == ProcessFrame(PipeTaskNext(i))
ExitStepOf(i) == ProcessFrame(ExitTaskNext(i))
JavaEnds(i) == ProcessFrame(ProcessEnds(i))
JavaStops(i) == ProcessFrame(ProcessStops(i))

ListenerFrame(action) ==
    /\ action
    /\ UNCHANGED <<stateVars, restartVars, shutdownVars, procVars, serverVars,
                   consoleVars>>

PortTaken == \E i \in Inc : Alive(i)

ListenerStep(l) ==
    ListenerFrame(Bind(l) \/ BindFails(l, PortTaken) \/ ListenerRequestsStart(l))
ListenerEnds(l) == ListenerFrame(ListenerCancelled(l))
PeerStep(l) ==
    ListenerFrame(Accept(l) \/ ReadOther(l) \/ ReadLogin(l) \/ ListenerFails(l))

(* The steps of the tasks that belong to incarnation i, or to listener i. *)
IncStep(i) ==
    \/ RestartStep(i) \/ ShutdownStep(i) \/ TimerStep(i)
    \/ PingStep(i) \/ PingerEnds(i)
    \/ PipeStep(i) \/ ExitStepOf(i)
    \/ ListenerStep(i) \/ ListenerEnds(i)

Running == main # "returned"

(* After main has returned no task is left; a process that is may go on. *)
Next ==
    \/ /\ Running
       /\ \/ UserStep \/ StdinStep \/ MainStep \/ ServerStep \/ StateStep
          \/ \E i \in Inc : IncStep(i) \/ PeerStep(i)
    \/ \E i \in Inc : JavaEnds(i) \/ JavaStops(i)
    \/ ~Running /\ UNCHANGED vars

Spec == Init /\ [][Next]_vars

-----------------------------------------------------------------------------
(* The runtime polls every task that is ready, and a select! polls its      *)
(* branches in random order, so a branch that stays ready (a cancellation)  *)
(* is taken. Timers and a grace period end. Users, peers and crashes owe    *)
(* nothing. Neither do the start, which awaits a download without a timeout *)
(* and outside any select! (log4shell.rs:60), and the Java process, unless  *)
(* StartFairness and JavaFairness say so.                                   *)
TaskFairness ==
    /\ WF_vars(Running /\ StdinStep)
    /\ WF_vars(Running /\ MainStep)
    /\ WF_vars(Running /\ srv # "starting" /\ ServerStep)
    /\ WF_vars(Running /\ StateStep)
    /\ \A i \in Inc :
        /\ WF_vars(Running /\ PipeStep(i))
        /\ WF_vars(Running /\ ExitStepOf(i))
        /\ WF_vars(Running /\ ListenerStep(i))
        /\ WF_vars(Running /\ ListenerEnds(i))

TimerFairness ==
    \A i \in Inc :
        /\ WF_vars(Running /\ RestartStep(i))
        /\ WF_vars(Running /\ ShutdownStep(i))
        /\ WF_vars(Running /\ TimerStep(i))
        /\ WF_vars(Running /\ PingerEnds(i))

(* A start that is under way comes to its end: it loads, downloads and      *)
(* spawns, or fails.                                                        *)
StartFairness == WF_vars(Running /\ srv = "starting" /\ ServerStep)

(* A server that was handed the stop command stops.                         *)
JavaFairness == \A i \in Inc : WF_vars(JavaStops(i))

FairSpec == Spec /\ TaskFairness /\ TimerFairness
FairJavaSpec == FairSpec /\ StartFairness /\ JavaFairness

-----------------------------------------------------------------------------
(* Invariants. *)

(* A joined exit task has seen everything through that it was given: the    *)
(* process it waited for is dead, and the pipe, the restart task and the    *)
(* shutdown task of that incarnation have ended (minecraft.rs:213-243). The *)
(* Stop handler and the shutdown of the wrapper rely on it when they take a *)
(* joined handle for a stopped server. A timer may outlive it.              *)
JoinedIsClean ==
    \A i \in Inc :
        exitTask[i] = "done" =>
            /\ ~Alive(i)
            /\ pipe[i] = "done"
            /\ RestartOver(i)
            /\ ShutdownOver(i)

(* The wrapper kills a server only while it is itself shutting down: a Stop *)
(* or a Restart waits for as long as the server takes, and the ten seconds  *)
(* of grace run only once the console has ended (minecraft.rs:213-234).     *)
KillOnlyAtExit ==
    \A i \in Inc : proc[i] = "killed" => console = "done" /\ token

(* When the server task has ended, the last server it launched is dead,     *)
(* unless the task was cancelled before that launch could be reported, in   *)
(* which case it has no exit task (minecraft.rs:184, 309-317). A panic is   *)
(* not an end of that kind: it drops every handle.                          *)
LastServerReaped ==
    srv = "done" /\ spawned > 0 /\ Alive(spawned) => exitTask[spawned] = "none"

(* A Stop that waits for its server has told it to stop: the command was    *)
(* handed to the process, or is in a pipe that still forwards it. So a wait, *)
(* which has no timeout, is never for a server that nobody asked, whatever  *)
(* became of its pipe and its handle before (minecraft.rs:34-65, 357-370).  *)
StopQueued(i) == \E n \in DOMAIN stdinq[i] : stdinq[i][n] = "stop"

AwaitedIsTold ==
    srv = "joinServer" /\ Alive(awaited) =>
        proc[awaited] = "stopping" \/ (pipe[awaited] = "running" /\ StopQueued(awaited))

(* No phantom server: whenever the state is On, or will be On when the      *)
(* reports in flight are applied, the latest incarnation to be reported On  *)
(* has not yet been reported Off. A phantom On would refuse every Start; it *)
(* is one if the server task panics half way through a start, but then      *)
(* nobody takes requests any more.                                          *)
LatestReported == IF srv = "reportOn" THEN spawned - 1 ELSE spawned

NoPhantomOn ==
    stateTask = "running" /\ srv # "panicked" /\ LatestReport = "On" =>
        LatestReported > 0 /\ Unreported(LatestReported)

(* The loop decides about listeners by the settings of the server it has    *)
(* seen: once an On has been seen, its copy of the configuration is the one *)
(* that was loaded last, whatever starts failed or were refused before and  *)
(* however the changes were coalesced (minecraft.rs:160, 295-306, 320).     *)
SeenOnIsLoaded ==
    watch = "On" /\ ~unseen => cachedAuto = serverAuto

(* Each question of the console is in one place: asked, or answered. So the *)
(* console never takes the answer to one question for another's, and the    *)
(* server task never waits for the one slot of the channel of answers       *)
(* (main.rs:105-119, minecraft.rs:383-387).                                 *)
Asked == Cardinality({n \in DOMAIN requests : requests[n] = "IsRunning"})

OneAnswerPerQuestion ==
    receiving => Asked + Len(replies) = IF console = "await" THEN 1 ELSE 0

(* The idle timer follows the count: between two counts the shutdown task   *)
(* holds a timer exactly when the count it read last was an empty server,   *)
(* however counts were coalesced (shutdown_task.rs:43-87).                  *)
TimerFollowsCount ==
    \A i \in Inc :
        shutdown[i] = "select" /\ ~counted[i] =>
            (timer[i] # "none" <=> players[i] = "empty")

-----------------------------------------------------------------------------
(* The promise. The server in charge is the one whose stdin the server task  *)
(* writes to, and it is settled when its exit task has ended.                *)

Settled == sender = 0 \/ exitTask[sender] = "done"

Over == CASE srv = "done"     -> "finished"
          [] srv = "panicked" -> "broken"
          [] OTHER            -> "no"

Promise == INSTANCE Lifecycle WITH
    server <- proc, launched <- spawned, charge <- sender, settled <- Settled,
    leaving <- (console = "done"), over <- Over, MayBreak <- StartMayPanic

(* Whatever the order of its tasks, the wrapper keeps its promise: servers   *)
(* are launched in order, the one in charge is seen through to its end       *)
(* before the server task finishes, and a kill needs an exit                 *)
(* (minecraft.rs:151-248, 309-317, 363-371).                                 *)
Promised == Promise!Spec

-----------------------------------------------------------------------------
(* Liveness. *)

(* Leaving the console ends the program, whatever the server does, if a     *)
(* start under way ends: one whose download stalls does not see that it is  *)
(* cancelled, and exit waits for it. Stated of no restart and no idle       *)
(* shutdown: with one, NoCircularWait (main.rs:46-55, minecraft.rs:213-234, *)
(* 309-317, 335-337).                                                       *)
ExitReturns == StartFairness => (console = "done" ~> main = "returned")

(* If starts end and servers obey the stop command, a line for the server   *)
(* is answered: the console does not hang on the answer, even behind a stop *)
(* or a start in progress (main.rs:105-119).                                *)
QuestionAnswered ==
    StartFairness /\ JavaFairness => (console = "await" ~> console # "await")

(* If servers obey the stop command, a stop that was accepted comes to its  *)
(* end: the exit task it waits for joins the pipe, which only ends because  *)
(* it is cancelled first (minecraft.rs:235-243, 363-369).                   *)
StopCompletes == JavaFairness => (srv = "joinServer" ~> srv # "joinServer")

Stopped == \A i \in Inc : ~Alive(i)

(* A listener holds the port, or a server runs, or nobody wants one. *)
Served ==
    \/ \E l \in Inc : HoldsPort(l)
    \/ ~Stopped
    \/ console = "done"

(* The first server has run and stopped, its end has not been reported yet, *)
(* and the settings, as the loop knows them, say auto_start.                *)
ToBeListenedFor == spawned = 1 /\ Stopped /\ Unreported(1) /\ cachedAuto

(* Why no listener comes to hold the port: its bind has failed, a Start has *)
(* ended it, the server task has panicked, or the loop has come to know     *)
(* that the settings say no.                                                *)
NotListening ==
    \/ \E l \in Inc : listener[l] = "failed"
    \/ srv \in {"joinListener", "panicked"}
    \/ ~cachedAuto

(* The end of a server is never missed: a listener comes to hold its port,  *)
(* whatever starts are refused or fail in the meantime and however the      *)
(* reports are coalesced, if starts end (minecraft.rs:295-308). Excused are *)
(* the four reasons of NotListening. A bind that fails is not tried again,  *)
(* and what becomes of the listener afterwards is not promised: an error of *)
(* accept or a panic ends it for good (listener_task.rs:40-56).             *)
StoppedIsListenedFor ==
    StartFairness => (ToBeListenedFor ~> (Served \/ NotListening))

-----------------------------------------------------------------------------
(* What the documentation, the comments and the messages of the repository  *)
(* say, and the code does not do: each is violated, by the run of its name. *)

(* README.md:11, a player who joins starts the server "if it is not already *)
(* running": at most one server runs.                                       *)
AtMostOneServer == \A i, j \in Inc : Alive(i) /\ Alive(j) => i = j

(* minecraft.rs:325, a Start is refused with "Server is already running".   *)
StartRefusedOnlyIfRunning == [][IgnoreStart => \E i \in Inc : Alive(i)]_vars

(* main.rs:131, "exit - stop the server and exit": when the program has     *)
(* ended, so has the server.                                                *)
NoServerLeftBehind == main = "returned" => \A i \in Inc : ~Alive(i)

WaitsForExit(i) ==
    \/ srv = "joinServer" /\ awaited = i
    \/ srv = "drain" /\ serverHandle = i

(* main.rs:131, "exit - stop the server and exit". It never does once the   *)
(* channel of the server task is full and the server task waits itself for  *)
(* a slot in it, or for an exit task that joins a restart task, or a timer, *)
(* that waits for a slot.                                                   *)
NoCircularWait ==
    Len(requests) = QueueCap =>
        /\ srv \notin {"restartStop", "restartStart"}
        /\ \A i \in Inc : WaitsForExit(i) =>
            /\ exitTask[i] = "joinRestart" => restart[i] \notin {"notify", "request"}
            /\ exitTask[i] = "joinShutdown" /\ shutdown[i] = "joinTimer" =>
                  timer[i] # "sending"

(* README.md:11, "Start the server when a player joins if it is not already *)
(* running": a stopped server is listened for, from the beginning.          *)
StoppedIsListenedForAtOnce == Stopped ~> Served

=============================================================================

------------------------------ MODULE SswTypes ------------------------------
(***************************************************************************)
(* Type correctness of the wrapper, for every capacity, every number of    *)
(* launches and every configuration. Each component first: its steps keep  *)
(* the types of its own variables; then the composition.                   *)
(***************************************************************************)
EXTENDS Ssw, TLAPS, SequenceTheorems

(* A send keeps the channel a sequence of requests. *)
LEMMA SendType ==
    ASSUME NEW request \in ServerTaskRequest, requests \in Seq(ServerTaskRequest),
           Send(request)
    PROVE  requests' \in Seq(ServerTaskRequest)
  BY DEF Send

(* A report keeps the channel of reports a sequence of states. *)
LEMMA ReportType ==
    ASSUME NEW state \in ServerState, StateTypeOK, Report(state) \/ ReportFails
    PROVE  StateTypeOK'
  BY DEF Report, ReportFails, StateTypeOK, stateVars

(* What changes the tree of tokens keeps it one. *)
LEMMA CancelType ==
    ASSUME NEW kind \in TokenKind, NEW i \in Inc,
           cancelled \subseteq (TokenKind \X Inc), Cancel(kind, i)
    PROVE  cancelled' \subseteq (TokenKind \X Inc)
  BY DEF Cancel

(* The state task keeps the types of the state and its queue.               *)
LEMMA StateTaskType ==
    ASSUME StateTypeOK, RuntimeTypeOK, StateTaskNext
    PROVE  StateTypeOK' /\ RuntimeTypeOK'
<1>1. CASE ApplyReport
  <2>1. Head(reports) \in ServerState /\ Tail(reports) \in Seq(ServerState)
    BY <1>1 DEF ApplyReport, StateTypeOK
  <2> QED BY <1>1, <2>1 DEF ApplyReport, StateTypeOK, RuntimeTypeOK, runtimeVars
<1>2. CASE StateTaskCancelled
  BY <1>2 DEF StateTaskCancelled, StateTypeOK, RuntimeTypeOK, runtimeVars
<1> QED BY <1>1, <1>2 DEF StateTaskNext

(* A restart task that announces or waits still has a tick to wait for. *)
TicksLeft == \A i \in Inc : restart[i] \in {"notify", "tick"} => ticks[i] > 0

(* Hence the ticks left never go below zero. *)
LEMMA RestartTaskType ==
    ASSUME NEW i \in Inc, RestartTypeOK, RuntimeTypeOK, TicksLeft, RestartTaskNext(i)
    PROVE  RestartTypeOK' /\ RuntimeTypeOK' /\ TicksLeft'
<1> USE DEF RestartTypeOK, RestartPC, TicksLeft
<1>1. CASE RestartNotify(i)
  BY <1>1, SendType DEF RestartNotify, RuntimeTypeOK, ServerTaskRequest
<1>2. CASE RestartTick(i)
  BY <1>2, RestartAssumption DEF RestartTick, RuntimeTypeOK, runtimeVars
<1>3. CASE RestartCancelled(i)
  BY <1>3 DEF RestartCancelled, RuntimeTypeOK, runtimeVars
<1>4. CASE RestartRequest(i)
  BY <1>4, SendType DEF RestartRequest, RuntimeTypeOK, ServerTaskRequest
<1> QED BY <1>1, <1>2, <1>3, <1>4 DEF RestartTaskNext

(* Beginning a restart task keeps its type.                                 *)
LEMMA BeginRestartTaskType ==
    ASSUME NEW i \in Inc, RestartTypeOK, TicksLeft, BeginRestartTask(i)
    PROVE  RestartTypeOK' /\ TicksLeft'
  BY RestartAssumption DEF BeginRestartTask, RestartTypeOK, RestartPC, TicksLeft, restartVars

(* The shutdown task keeps the types of the idle shutdown and sends         *)
(* nothing.                                                                 *)
LEMMA ShutdownTaskType ==
    ASSUME NEW i \in Inc, ShutdownTypeOK, RuntimeTypeOK, ShutdownTaskNext(i)
    PROVE  ShutdownTypeOK' /\ RuntimeTypeOK'
<1> USE DEF ShutdownTypeOK, RuntimeTypeOK, runtimeVars
<1>1. CASE SeeEmpty(i)           BY <1>1 DEF SeeEmpty, ReadCount
<1>2. CASE SeeOccupied(i)        BY <1>2 DEF SeeOccupied, ReadCount
<1>3. CASE TimerJoined(i)        BY <1>3 DEF TimerJoined
<1>4. CASE PingerLost(i)         BY <1>4 DEF PingerLost
<1>5. CASE ShutdownCancelled(i)  BY <1>5 DEF ShutdownCancelled
<1>6. CASE PingerJoined(i)       BY <1>6 DEF PingerJoined
<1> QED BY <1>1, <1>2, <1>3, <1>4, <1>5, <1>6 DEF ShutdownTaskNext

(* The idle timer keeps the types of the idle shutdown; its request is one  *)
(* more message.                                                            *)
LEMMA TimerType ==
    ASSUME NEW i \in Inc, ShutdownTypeOK, RuntimeTypeOK, TimerNext(i)
    PROVE  ShutdownTypeOK' /\ RuntimeTypeOK'
<1> USE DEF ShutdownTypeOK, RuntimeTypeOK, runtimeVars
<1>1. CASE TimerExpires(i)       BY <1>1 DEF TimerExpires
<1>2. CASE TimerCancelled(i)     BY <1>2 DEF TimerCancelled
<1>3. CASE TimerRequestsStop(i)
  BY <1>3, SendType DEF TimerRequestsStop, ServerTaskRequest
<1> QED BY <1>1, <1>2, <1>3 DEF TimerNext

(* The pinger keeps the types of the idle shutdown.                         *)
LEMMA PingerType ==
    ASSUME NEW i \in Inc, ShutdownTypeOK, RuntimeTypeOK,
           PingerCancelled(i) \/ \E count \in PlayerCount : Ping(i, count)
    PROVE  ShutdownTypeOK' /\ RuntimeTypeOK'
<1>1. UNCHANGED runtimeVars
  BY DEF PingerCancelled, Ping
<1>2. ASSUME PingerCancelled(i) PROVE ShutdownTypeOK'
  <2>1. /\ pinger' = [pinger EXCEPT ![i] = "done"]
        /\ UNCHANGED <<players, counted, shutdown, timer, disarmed>>
    BY <1>2 DEF PingerCancelled
  <2>2. pinger' \in [Inc -> {"none", "running", "done"}]
    BY <2>1 DEF ShutdownTypeOK
  <2> QED BY <2>1, <2>2 DEF ShutdownTypeOK
<1>3. ASSUME NEW count \in PlayerCount, Ping(i, count) PROVE ShutdownTypeOK'
  BY <1>3 DEF Ping, ShutdownTypeOK
<1>4. RuntimeTypeOK'
  BY <1>1 DEF RuntimeTypeOK, runtimeVars
<1> QED BY <1>2, <1>3, <1>4

(* Beginning the idle shutdown keeps its types.                             *)
LEMMA BeginShutdownTaskType ==
    ASSUME NEW i \in Inc, ShutdownTypeOK, BeginShutdownTask(i)
    PROVE  ShutdownTypeOK'
  BY DEF BeginShutdownTask, ShutdownTypeOK, shutdownVars

(* A listener keeps its type; its request is one more message.              *)
LEMMA ListenerType ==
    ASSUME NEW l \in Inc, ListenerTypeOK, RuntimeTypeOK,
           \/ Bind(l) \/ BindFails(l, PortTaken) \/ ListenerRequestsStart(l)
           \/ Accept(l) \/ ReadOther(l) \/ ReadLogin(l) \/ ListenerFails(l)
           \/ ListenerCancelled(l)
    PROVE  ListenerTypeOK' /\ RuntimeTypeOK'
<1> USE DEF ListenerTypeOK, ListenerPC, RuntimeTypeOK, runtimeVars
<1>1. CASE Bind(l)               BY <1>1 DEF Bind
<1>2. CASE BindFails(l, PortTaken) BY <1>2 DEF BindFails
<1>3. CASE ListenerRequestsStart(l)
  BY <1>3, SendType DEF ListenerRequestsStart, ServerTaskRequest
<1>4. CASE Accept(l)             BY <1>4 DEF Accept
<1>5. CASE ReadOther(l)          BY <1>5 DEF ReadOther
<1>6. CASE ReadLogin(l)          BY <1>6 DEF ReadLogin
<1>7. CASE ListenerCancelled(l)  BY <1>7 DEF ListenerCancelled
<1>8. CASE ListenerFails(l)      BY <1>8 DEF ListenerFails
<1> QED BY <1>1, <1>2, <1>3, <1>4, <1>5, <1>6, <1>7, <1>8

-----------------------------------------------------------------------------
(* The process, its pipe and its exit task. *)

(* What these steps leave alone keeps its type. *)
LEMMA TaskVarsType ==
    ASSUME RuntimeTypeOK, StateTypeOK, RestartTypeOK, ShutdownTypeOK, TicksLeft,
           UNCHANGED taskVars
    PROVE  RuntimeTypeOK' /\ StateTypeOK' /\ RestartTypeOK' /\ ShutdownTypeOK' /\ TicksLeft'
  BY DEF taskVars, runtimeVars, stateVars, restartVars, shutdownVars, RuntimeTypeOK,
         StateTypeOK, RestartTypeOK, ShutdownTypeOK, TicksLeft

(* A line handed to a pipe is a line.                                       *)
LEMMA SendStdinType ==
    ASSUME NEW i \in Inc, NEW command \in {"stop", "command"}, ProcessTypeOK,
           SendStdin(i, command)
    PROVE  stdinq' \in [Inc -> Seq({"stop", "command"})]
<1>1. Append(stdinq[i], command) \in Seq({"stop", "command"})
  BY DEF ProcessTypeOK
<1> QED BY <1>1 DEF SendStdin, ProcessTypeOK

(* The pipe, the exit task and the Java process keep the types of their     *)
(* incarnation.                                                             *)
LEMMA ProcessType ==
    ASSUME NEW i \in Inc, RuntimeTypeOK, StateTypeOK, RestartTypeOK, ShutdownTypeOK,
           TicksLeft, ProcessTypeOK,
           ProcessEnds(i) \/ ProcessStops(i) \/ PipeTaskNext(i) \/ ExitTaskNext(i)
    PROVE  /\ RuntimeTypeOK' /\ StateTypeOK' /\ RestartTypeOK' /\ ShutdownTypeOK'
           /\ TicksLeft' /\ ProcessTypeOK'
<1>1. CASE ProcessEnds(i) \/ ProcessStops(i)
  BY <1>1, TaskVarsType DEF ProcessEnds, ProcessStops, ProcessTypeOK, ProcState
<1>2. CASE PipeForwards(i)
  <2>1. Tail(stdinq[i]) \in Seq({"stop", "command"})
    BY <1>2 DEF PipeForwards, ProcessTypeOK
  <2> QED BY <1>2, <2>1, TaskVarsType DEF PipeForwards, ProcessTypeOK, ProcState
<1>3. CASE PipeCancelled(i) \/ PipeClosed(i)
  <2>1. <<>> \in Seq({"stop", "command"})
    OBVIOUS
  <2> QED BY <1>3, <2>1, TaskVarsType DEF PipeCancelled, PipeClosed, ProcessTypeOK
<1>4. CASE ExitObserved(i) \/ ExitCancelled(i) \/ GraceExpires(i) \/ ShutdownJoined(i)
  BY <1>4, TaskVarsType
     DEF ExitObserved, ExitCancelled, GraceExpires, ShutdownJoined, ExitStep,
         ProcessTypeOK, ProcState, ExitPC
<1>5. CASE ReportsOff(i)
  <2>1. StateTypeOK'
    BY <1>5, ReportType DEF ReportsOff, ServerState
  <2>2. RuntimeTypeOK'
    BY <1>5, CancelType DEF ReportsOff, RuntimeTypeOK, TokenKind
  <2> QED BY <1>5, <2>1, <2>2
          DEF ReportsOff, ExitStep, ProcessTypeOK, ExitPC, RestartTypeOK, restartVars,
              ShutdownTypeOK, shutdownVars, TicksLeft
<1>6. CASE PipeJoined(i) \/ RestartJoined(i)
  <2>1. RuntimeTypeOK'
    BY <1>6, CancelType DEF PipeJoined, RestartJoined, RuntimeTypeOK, TokenKind
  <2> QED BY <1>6, <2>1
          DEF PipeJoined, RestartJoined, ExitStep, ProcessTypeOK, ExitPC, RestartTypeOK,
              restartVars, ShutdownTypeOK, shutdownVars, StateTypeOK, stateVars, TicksLeft
<1> QED BY <1>1, <1>2, <1>3, <1>4, <1>5, <1>6 DEF PipeTaskNext, ExitTaskNext

-----------------------------------------------------------------------------
(* The server task. *)

(* A request that is taken is a request, and what stays queued are requests. *)
LEMMA TakeType ==
    ASSUME NEW request, RuntimeTypeOK, Take(request), token' \in BOOLEAN,
           cancelled' \subseteq (TokenKind \X Inc)
    PROVE  RuntimeTypeOK'
<1>1. Tail(requests) \in Seq(ServerTaskRequest)
  BY DEF Take, RuntimeTypeOK
<1> QED BY <1>1 DEF Take, RuntimeTypeOK

(* A report of On has a process to report, and a command has a pipe to go to. *)
HandlersFit ==
    /\ srv = "reportOn" => spawned > 0
    /\ srv \in {"sendStop", "sendCommand"} => sender > 0

(* The types and what it takes to preserve them. *)
TypeInv == TypeOK /\ TicksLeft /\ HandlersFit

(* Every handler of the server task keeps every type, and spawned keeps     *)
(* pace with what it has begun.                                             *)
LEMMA ServerTaskType ==
    ASSUME TypeInv, ServerTaskNext
    PROVE  /\ RuntimeTypeOK' /\ StateTypeOK' /\ RestartTypeOK' /\ ShutdownTypeOK'
           /\ TicksLeft' /\ ProcessTypeOK' /\ ListenerTypeOK' /\ ServerTypeOK' /\ HandlersFit'
<1> USE RuntimeAssumption DEF TypeInv, TypeOK, ServerTypeOK, ServerPC, HandlersFit
<1>a. UNCHANGED taskVars => /\ RuntimeTypeOK' /\ StateTypeOK' /\ RestartTypeOK'
                            /\ ShutdownTypeOK' /\ TicksLeft'
  BY TaskVarsType
<1>b. UNCHANGED procVars => ProcessTypeOK' /\ sender' = sender /\ spawned' = spawned
  BY DEF procVars, ProcessTypeOK
<1>c. UNCHANGED listener => ListenerTypeOK'
  BY DEF ListenerTypeOK
<1>d. UNCHANGED stateVars => StateTypeOK'
  BY DEF stateVars, StateTypeOK
<1>e. UNCHANGED restartVars => RestartTypeOK' /\ TicksLeft'
  BY DEF restartVars, RestartTypeOK, TicksLeft
<1>f. UNCHANGED shutdownVars => ShutdownTypeOK'
  BY DEF shutdownVars, ShutdownTypeOK
<1>g. UNCHANGED runtimeVars => RuntimeTypeOK'
  BY DEF runtimeVars, RuntimeTypeOK
<1>h. UNCHANGED serverVars => ServerTypeOK' /\ srv' = srv
  BY DEF serverVars
<1>i. Inc \subseteq 0..MaxStarts
  BY DEF Inc
<1>j. sender \in Nat /\ spawned \in Nat
  BY DEF ProcessTypeOK
<1>1. CASE StateChanged
  <2>1. ListenerTypeOK' /\ listenerHandle' \in 0..MaxStarts
    BY <1>1, <1>c, <1>i DEF StateChanged, BeginListener, ListenerTypeOK, ListenerPC
  <2>2. StateTypeOK'
    BY <1>1 DEF StateChanged, StateTypeOK
  <2> QED BY <1>1, <2>1, <2>2, <1>b, <1>e, <1>f, <1>g DEF StateChanged
<1>2. CASE ServerCancelled
  BY <1>2, <1>a, <1>b, <1>c DEF ServerCancelled
<1>3. CASE Drained
  <2>1. <<>> \in Seq(ServerTaskRequest)
    OBVIOUS
  <2>2. RuntimeTypeOK'
    BY <1>3, <2>1 DEF Drained, TaskEnds, RuntimeTypeOK
  <2>3. ProcessTypeOK'
    BY <1>3 DEF Drained, TaskEnds, ProcessTypeOK
  <2> QED BY <1>3, <2>2, <2>3, <1>c, <1>d, <1>e, <1>f DEF Drained, TaskEnds
<1>4. CASE IgnoreStart
  <2>1. RuntimeTypeOK'
    BY <1>4, TakeType DEF IgnoreStart, RuntimeTypeOK
  <2> QED BY <1>4, <2>1, <1>b, <1>c, <1>d, <1>e, <1>f, <1>h DEF IgnoreStart
<1>5. CASE AcceptStart
  <2>1. listenerHandle # 0 => listenerHandle \in Inc
    BY DEF Inc
  <2>2. cancelled' \subseteq (TokenKind \X Inc)
    BY <1>5, <2>1, CancelType DEF AcceptStart, RuntimeTypeOK, TokenKind
  <2>3. RuntimeTypeOK'
    BY <1>5, <2>2, TakeType DEF AcceptStart, RuntimeTypeOK
  <2> QED BY <1>5, <2>3, <1>b, <1>c, <1>d, <1>e, <1>f DEF AcceptStart
<1>6. CASE ListenerJoined
  BY <1>6, <1>a, <1>b, <1>c DEF ListenerJoined
<1>7. CASE StartFails
  BY <1>7, <1>a, <1>b, <1>c, ServerAssumption DEF StartFails
<1>8. CASE SpawnProcess
  <2>1. ProcessTypeOK'
    BY <1>8 DEF SpawnProcess, ProcessTypeOK, ProcState, Inc
  <2> QED BY <1>8, <1>j, <2>1, <1>a, <1>c, ServerAssumption DEF SpawnProcess
<1>9. CASE ReportsOn
  <2>1. spawned \in Inc
    BY <1>9 DEF ReportsOn, ProcessTypeOK, Inc
  <2>2. RestartTypeOK' /\ TicksLeft'
    BY <1>9, <2>1, BeginRestartTaskType DEF ReportsOn
  <2>3. ShutdownTypeOK'
    BY <1>9, <2>1, BeginShutdownTaskType DEF ReportsOn
  <2>4. StateTypeOK'
    BY <1>9, ReportType DEF ReportsOn, ServerState
  <2>5. ProcessTypeOK'
    BY <1>9, <2>1 DEF ReportsOn, ProcessTypeOK, ExitPC
  <2> QED BY <1>9, <2>2, <2>3, <2>4, <2>5, <1>c, <1>g
          DEF ReportsOn, ProcessTypeOK
<1>10. CASE ReportOnFails
  BY <1>10, <1>b, <1>c, <1>d, <1>e, <1>f, <1>g DEF ReportOnFails, ReportFails
<1>11. CASE IgnoreStop
  <2>1. RuntimeTypeOK'
    BY <1>11, TakeType DEF IgnoreStop, RuntimeTypeOK
  <2> QED BY <1>11, <2>1, <1>b, <1>c, <1>d, <1>e, <1>f, <1>h DEF IgnoreStop
<1>12. CASE AcceptStop
  <2>1. RuntimeTypeOK'
    BY <1>12, TakeType DEF AcceptStop, RuntimeTypeOK
  <2> QED BY <1>12, <1>j, <2>1, <1>b, <1>c, <1>d, <1>e, <1>f DEF AcceptStop, AwaitServer
<1>13. CASE SendsStop
  <2>1. sender \in Inc
    BY <1>13 DEF SendsStop, ProcessTypeOK, Inc
  <2>2. ProcessTypeOK'
    BY <1>13, <2>1, SendStdinType DEF SendsStop, ProcessTypeOK
  <2> QED BY <1>13, <2>2, <1>a, <1>c DEF SendsStop, AwaitServer
<1>14. CASE ServerJoined
  BY <1>14, <1>a, <1>b, <1>c DEF ServerJoined
<1>15. CASE AcceptRestart
  <2>1. RuntimeTypeOK'
    BY <1>15, TakeType DEF AcceptRestart, RuntimeTypeOK
  <2> QED BY <1>15, <2>1, <1>b, <1>c, <1>d, <1>e, <1>f DEF AcceptRestart, ServerGoes
<1>16. CASE RestartSendsStop \/ RestartSendsStart
  <2>1. RuntimeTypeOK'
    BY <1>16, SendType
       DEF RestartSendsStop, RestartSendsStart, RuntimeTypeOK, ServerTaskRequest
  <2> QED BY <1>16, <2>1, <1>b, <1>c, <1>d, <1>e, <1>f
          DEF RestartSendsStop, RestartSendsStart, ServerGoes
<1>17. CASE AcceptCommand
  <2>1. RuntimeTypeOK'
    BY <1>17, TakeType DEF AcceptCommand, RuntimeTypeOK
  <2> QED BY <1>17, <1>j, <2>1, <1>b, <1>c, <1>d, <1>e, <1>f, <1>h DEF AcceptCommand, ServerGoes
<1>18. CASE SendsCommand
  <2>1. sender \in Inc
    BY <1>18 DEF SendsCommand, ServerGoes, ProcessTypeOK, Inc
  <2>2. ProcessTypeOK'
    BY <1>18, <2>1, SendStdinType DEF SendsCommand, ProcessTypeOK
  <2> QED BY <1>18, <2>2, <1>a, <1>c DEF SendsCommand, ServerGoes
<1>19. CASE Answers
  <2>1. RuntimeTypeOK'
    BY <1>19, TakeType DEF Answers, RuntimeTypeOK
  <2>2. replies' \in Seq(BOOLEAN)
    BY <1>19 DEF Answers, ServerIsRunning
  <2> QED BY <1>19, <2>1, <2>2, <1>b, <1>c, <1>d, <1>e, <1>f DEF Answers, ServerGoes
<1>20. CASE StartPanics
  <2>1. <<>> \in Seq(ServerTaskRequest)
    OBVIOUS
  <2>2. RuntimeTypeOK'
    BY <1>20, <2>1 DEF StartPanics, TaskEnds, RuntimeTypeOK
  <2>3. ProcessTypeOK'
    <3>1. pipe' \in [Inc -> {"none", "running", "done"}]
      BY <1>20 DEF StartPanics, ProcessTypeOK
    <3>2. TaskEnds("panicked")
      BY <1>20 DEF StartPanics
    <3> QED BY <3>1, <3>2 DEF TaskEnds, ProcessTypeOK
  <2>4. StateTypeOK'
    <3>1. CASE Report("On")
      BY <3>1, ReportType DEF ServerState
    <3>2. CASE UNCHANGED stateVars
      BY <3>2, <1>d
    <3> QED BY <1>20, <3>1, <3>2 DEF StartPanics
  <2>5. TaskEnds("panicked")
    BY <1>20 DEF StartPanics
  <2> QED BY <2>2, <2>3, <2>4, <2>5, <1>c, <1>e, <1>f DEF TaskEnds
<1> QED BY <1>1, <1>2, <1>3, <1>4, <1>5, <1>6, <1>7, <1>8, <1>9, <1>10, <1>11, <1>12,
           <1>13, <1>14, <1>15, <1>16, <1>17, <1>18, <1>19, <1>20 DEF ServerTaskNext

-----------------------------------------------------------------------------
(* The console and main. *)

LEMMA ConsoleType ==
    ASSUME ConsoleTypeOK, RuntimeTypeOK, replies \in Seq(BOOLEAN),
           \/ StdinCloses \/ \E line \in Lines : ReadLine(line)
           \/ StdinTaskNext \/ MainCancels \/ MainReturns
    PROVE  ConsoleTypeOK' /\ RuntimeTypeOK' /\ replies' \in Seq(BOOLEAN)
<1> USE DEF ConsoleTypeOK, ConsolePC, RuntimeTypeOK, runtimeVars
<1>1. CASE StdinCloses
  BY <1>1 DEF StdinCloses
<1>2. ASSUME NEW line \in Lines, ReadLine(line)
      PROVE  ConsoleTypeOK' /\ RuntimeTypeOK' /\ replies' \in Seq(BOOLEAN)
  BY <1>2, ConsoleAssumption DEF ReadLine, LineKind
<1>3. ASSUME NEW from, NEW request \in ServerTaskRequest, NEW to \in ConsolePC,
             ConsoleSends(from, request, to)
      PROVE  ConsoleTypeOK' /\ RuntimeTypeOK' /\ replies' \in Seq(BOOLEAN)
  BY <1>3, SendType DEF ConsoleSends
<1>4. CASE ReadReply
  <2>1. Tail(replies) \in Seq(BOOLEAN)
    BY <1>4, HeadTailProperties DEF ReadReply
  <2> QED BY <1>4, <2>1 DEF ReadReply
<1>5. CASE MainCancels \/ MainReturns
  BY <1>5 DEF MainCancels, MainReturns
<1>6. CASE ReplyLost
  BY <1>6 DEF ReplyLost
<1> QED BY <1>1, <1>2, <1>3, <1>4, <1>5, <1>6 DEF StdinTaskNext, ServerTaskRequest

-----------------------------------------------------------------------------
(* The composition. *)

LEMMA InitTypes == Init => TypeInv
<1> SUFFICES ASSUME Init PROVE TypeInv
  OBVIOUS
<1>0. <<>> \in Seq(ServerTaskRequest) /\ <<>> \in Seq(ServerState)
  OBVIOUS
<1>1. RuntimeTypeOK /\ StateTypeOK /\ ListenerTypeOK
  BY <1>0 DEF Init, RuntimeInit, RuntimeTypeOK, StateInit, StateTypeOK, ServerState,
         ListenerInit, ListenerTypeOK, ListenerPC
<1>2. RestartTypeOK /\ TicksLeft
  BY RestartAssumption
     DEF Init, RestartInit, RestartTypeOK, RestartPC, TicksLeft
<1>3. ShutdownTypeOK
  BY DEF Init, ShutdownInit, ShutdownTypeOK, PlayerCount
<1>4. ProcessTypeOK
  BY RuntimeAssumption DEF Init, ProcessInit, ProcessTypeOK, ProcState, ExitPC
<1>5. ServerTypeOK /\ HandlersFit
  BY RuntimeAssumption, ServerAssumption
     DEF Init, ServerInit, ServerTypeOK, ServerPC, HandlersFit
<1>6. ConsoleTypeOK
  BY ConsoleAssumption DEF Init, ConsoleInit, ConsoleTypeOK, ConsolePC
<1> QED BY <1>1, <1>2, <1>3, <1>4, <1>5, <1>6 DEF TypeInv, TypeOK

(* Steps of the tasks of one incarnation, and of the peers of one listener. *)
LEMMA IncTypes ==
    ASSUME TypeInv, NEW i \in Inc, IncStep(i) \/ PeerStep(i) \/ JavaEnds(i) \/ JavaStops(i)
    PROVE  TypeInv'
<1> USE DEF TypeInv, TypeOK
<1>a. UNCHANGED consoleVars => ConsoleTypeOK'
  BY DEF consoleVars, ConsoleTypeOK
<1>b. UNCHANGED serverVars => ServerTypeOK' /\ srv' = srv
  BY DEF serverVars, ServerTypeOK
<1>c. UNCHANGED procVars => ProcessTypeOK' /\ spawned' = spawned /\ sender' = sender
  BY DEF procVars, ProcessTypeOK
<1>d. UNCHANGED listener => ListenerTypeOK'
  BY DEF ListenerTypeOK
<1>e. UNCHANGED stateVars => StateTypeOK'
  BY DEF stateVars, StateTypeOK
<1>f. UNCHANGED restartVars => RestartTypeOK' /\ TicksLeft'
  BY DEF restartVars, RestartTypeOK, TicksLeft
<1>g. UNCHANGED shutdownVars => ShutdownTypeOK'
  BY DEF shutdownVars, ShutdownTypeOK
<1>1. CASE RestartStep(i)
  BY <1>1, RestartTaskType, <1>a, <1>b, <1>c, <1>d, <1>e, <1>g
     DEF RestartStep, HandlersFit
<1>2. CASE ShutdownStep(i) \/ TimerStep(i) \/ PingStep(i) \/ PingerEnds(i)
  <2>1. ShutdownTypeOK' /\ RuntimeTypeOK'
    BY <1>2, ShutdownTaskType, TimerType, PingerType
       DEF ShutdownStep, TimerStep, PingStep, PingerEnds, ShutdownFrame
  <2> QED BY <1>2, <2>1, <1>a, <1>b, <1>c, <1>d, <1>e, <1>f
          DEF ShutdownStep, TimerStep, PingStep, PingerEnds, ShutdownFrame, HandlersFit
<1>3. CASE PipeStep(i) \/ ExitStepOf(i) \/ JavaEnds(i) \/ JavaStops(i)
  <2>1. /\ RuntimeTypeOK' /\ StateTypeOK' /\ RestartTypeOK' /\ ShutdownTypeOK'
        /\ TicksLeft' /\ ProcessTypeOK'
    BY <1>3, ProcessType DEF PipeStep, ExitStepOf, JavaEnds, JavaStops, ProcessFrame
  <2>2. spawned' = spawned /\ sender' = sender
    BY <1>3
       DEF PipeStep, ExitStepOf, JavaEnds, JavaStops, ProcessFrame, PipeTaskNext,
           ExitTaskNext, PipeForwards, PipeCancelled, PipeClosed, ExitObserved,
           ExitCancelled, GraceExpires, ReportsOff, PipeJoined, RestartJoined,
           ShutdownJoined, ProcessEnds, ProcessStops
  <2> QED BY <1>3, <2>1, <2>2, <1>a, <1>b, <1>d
          DEF PipeStep, ExitStepOf, JavaEnds, JavaStops, ProcessFrame, HandlersFit
<1>4. CASE ListenerStep(i) \/ ListenerEnds(i) \/ PeerStep(i)
  <2>1. ListenerTypeOK' /\ RuntimeTypeOK'
    BY <1>4, ListenerType DEF ListenerStep, ListenerEnds, PeerStep, ListenerFrame
  <2> QED BY <1>4, <2>1, <1>a, <1>b, <1>c, <1>e, <1>f, <1>g
          DEF ListenerStep, ListenerEnds, PeerStep, ListenerFrame, HandlersFit
<1> QED BY <1>1, <1>2, <1>3, <1>4 DEF IncStep

(* TypeInv is inductive.                                                    *)
LEMMA NextTypes == TypeInv /\ [Next]_vars => TypeInv'
<1> SUFFICES ASSUME TypeInv, [Next]_vars PROVE TypeInv'
  OBVIOUS
<1>1. CASE UserStep \/ StdinStep \/ MainStep
  <2>1. ConsoleTypeOK' /\ RuntimeTypeOK' /\ replies' \in Seq(BOOLEAN)
    BY <1>1, ConsoleType
       DEF UserStep, StdinStep, MainStep, ConsoleFrame, TypeInv, TypeOK, ServerTypeOK
  <2>2. UNCHANGED <<stateVars, restartVars, shutdownVars, procVars, listener, srv,
                    awaited, serverHandle, listenerHandle, serverAuto, cachedAuto>>
    BY <1>1 DEF UserStep, StdinStep, MainStep, ConsoleFrame
  <2>3. StateTypeOK' /\ RestartTypeOK' /\ ShutdownTypeOK' /\ TicksLeft'
    BY <2>2 DEF TypeInv, TypeOK, stateVars, StateTypeOK, restartVars, RestartTypeOK,
                shutdownVars, ShutdownTypeOK, TicksLeft
  <2>4. ProcessTypeOK' /\ ListenerTypeOK' /\ ServerTypeOK' /\ HandlersFit'
    BY <2>1, <2>2 DEF TypeInv, TypeOK, procVars, ProcessTypeOK, ListenerTypeOK,
                      ServerTypeOK, HandlersFit
  <2> QED BY <2>1, <2>3, <2>4 DEF TypeInv, TypeOK
<1>2. CASE ServerStep
  <2>1. ConsoleTypeOK'
    BY <1>2 DEF ServerStep, consoleVars, ConsoleTypeOK, TypeInv, TypeOK
  <2> QED BY <1>2, <2>1, ServerTaskType DEF ServerStep, TypeInv, TypeOK
<1>3. CASE StateStep
  <2>1. StateTypeOK' /\ RuntimeTypeOK'
    BY <1>3, StateTaskType DEF StateStep, TypeInv, TypeOK
  <2>2. RestartTypeOK' /\ ShutdownTypeOK' /\ TicksLeft' /\ ConsoleTypeOK'
    BY <1>3 DEF StateStep, TypeInv, TypeOK, restartVars, RestartTypeOK, shutdownVars,
                ShutdownTypeOK, TicksLeft, consoleVars, ConsoleTypeOK
  <2>3. ProcessTypeOK' /\ ListenerTypeOK' /\ ServerTypeOK' /\ HandlersFit'
    BY <1>3 DEF StateStep, TypeInv, TypeOK, procVars, ProcessTypeOK, ListenerTypeOK,
                serverVars, ServerTypeOK, HandlersFit
  <2> QED BY <2>1, <2>2, <2>3 DEF TypeInv, TypeOK
<1>4. ASSUME NEW i \in Inc, IncStep(i) \/ PeerStep(i) \/ JavaEnds(i) \/ JavaStops(i)
      PROVE  TypeInv'
  BY <1>4, IncTypes
<1>5. CASE UNCHANGED vars
  <2>1. RuntimeTypeOK' /\ StateTypeOK' /\ ConsoleTypeOK' /\ ListenerTypeOK'
    BY <1>5 DEF vars, TypeInv, TypeOK, runtimeVars, RuntimeTypeOK, stateVars,
                StateTypeOK, consoleVars, ConsoleTypeOK, ListenerTypeOK
  <2>2. RestartTypeOK' /\ ShutdownTypeOK' /\ TicksLeft'
    BY <1>5 DEF vars, TypeInv, TypeOK, restartVars, RestartTypeOK, shutdownVars,
                ShutdownTypeOK, TicksLeft
  <2>3. ProcessTypeOK' /\ ServerTypeOK' /\ HandlersFit'
    BY <1>5 DEF vars, TypeInv, TypeOK, procVars, ProcessTypeOK, serverVars,
                ServerTypeOK, HandlersFit
  <2> QED BY <2>1, <2>2, <2>3 DEF TypeInv, TypeOK
<1> QED BY <1>1, <1>2, <1>3, <1>4, <1>5 DEF Next

(* Every variable keeps its type, and the ticks a restart task counts down  *)
(* (restart_task.rs:18-31) never run below zero, in every reachable state.  *)
THEOREM TypeCorrect == Spec => []TypeInv
  BY InitTypes, NextTypes, PTL DEF Spec

(* Every variable of the wrapper keeps its type (the enums and channels the *)
(* code declares).                                                          *)
THEOREM TypeCorrectness == Spec => []TypeOK
<1>1. TypeInv => TypeOK
  BY DEF TypeInv
<1> QED BY <1>1, TypeCorrect, PTL

=============================================================================

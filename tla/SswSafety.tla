----------------------------- MODULE SswSafety -----------------------------
(***************************************************************************)
(* Safety of the wrapper, for every value of the constants. Each property  *)
(* has an inductive strengthening of its own, over the few variables that  *)
(* its argument needs, on top of the types of module SswTypes.             *)
(***************************************************************************)
EXTENDS SswTypes

-----------------------------------------------------------------------------
(* Who kills: only the exit task does, in its grace period, which only the  *)
(* root token begins, which only a Kill from the console or main cancels,   *)
(* and both come after the console has ended.                               *)

KillQueued == \E n \in DOMAIN requests : requests[n] = "Kill"

KillInv ==
    /\ token \/ KillQueued => console = "done"
    /\ \A i \in Inc : exitTask[i] = "grace" \/ proc[i] = "killed" => token

(* No request but a Kill puts a Kill into the channel. *)
LEMMA SendKeepsKills ==
    ASSUME RuntimeTypeOK, NEW request \in ServerTaskRequest \ {"Kill"}, Send(request),
           KillQueued'
    PROVE  KillQueued
<1>1. PICK n \in DOMAIN requests' : requests'[n] = "Kill"
  BY DEF KillQueued
<1>2. CASE requests' = Append(requests, request)
  <2>1. n \in 1..(Len(requests) + 1) /\ n # Len(requests) + 1
    BY <1>1, <1>2 DEF RuntimeTypeOK
  <2> QED BY <1>1, <1>2, <2>1 DEF RuntimeTypeOK, KillQueued
<1>3. CASE UNCHANGED requests
  BY <1>1, <1>3 DEF KillQueued
<1> QED BY <1>2, <1>3 DEF Send

(* Taking a request adds none, and a Kill that is taken was queued. *)
LEMMA TakeKeepsKills ==
    ASSUME RuntimeTypeOK, NEW request, Take(request)
    PROVE  /\ KillQueued' => KillQueued
           /\ request = "Kill" => KillQueued
<1>1. requests \in Seq(ServerTaskRequest) /\ requests # <<>>
  BY DEF RuntimeTypeOK, Take
<1>2. request = "Kill" => KillQueued
  <2>1. 1 \in DOMAIN requests /\ Head(requests) = requests[1]
    BY <1>1
  <2> QED BY <2>1 DEF Take, KillQueued
<1>3. ASSUME KillQueued' PROVE KillQueued
  <2>1. PICK n \in DOMAIN Tail(requests) : Tail(requests)[n] = "Kill"
    BY <1>3 DEF KillQueued, Take
  <2>2. n \in 1..Len(Tail(requests)) /\ Len(Tail(requests)) = Len(requests) - 1
    BY <1>1, <2>1, HeadTailProperties
  <2>3. Tail(requests)[n] = requests[n + 1] /\ n + 1 \in DOMAIN requests
    BY <1>1, <2>2, HeadTailProperties
  <2> QED BY <2>1, <2>3 DEF KillQueued
<1> QED BY <1>2, <1>3

(* No step of the server task makes an exit task begin its grace period.    *)
LEMMA KillServerTask ==
    ASSUME TypeInv, KillInv, ServerStep
    PROVE  KillInv'
<1>1. console' = console /\ RuntimeTypeOK
  BY DEF ServerStep, consoleVars, TypeInv, TypeOK
<1>2. (token' => token \/ KillQueued) /\ (KillQueued' => KillQueued) /\ (token => token')
  <2>1. CASE \/ StateChanged \/ ServerCancelled \/ ListenerJoined \/ StartFails
             \/ SpawnProcess \/ ReportsOn \/ ReportOnFails \/ SendsStop \/ ServerJoined
             \/ SendsCommand
    BY <2>1 DEF StateChanged, ServerCancelled, ListenerJoined, StartFails, SpawnProcess,
                ReportsOn, ReportOnFails, SendsStop, ServerJoined, SendsCommand,
                runtimeVars, taskVars, KillQueued
  <2>2. CASE Drained \/ StartPanics
    BY <2>2 DEF Drained, StartPanics, TaskEnds, KillQueued
  <2>3. CASE \/ IgnoreStart \/ AcceptStart \/ AcceptStop \/ AcceptRestart
             \/ AcceptCommand \/ Answers
    BY <1>1, <2>3, TakeKeepsKills
       DEF IgnoreStart, AcceptStart, AcceptStop, AcceptRestart, AcceptCommand, Answers
  <2>4. CASE IgnoreStop
    BY <1>1, <2>4, TakeKeepsKills DEF IgnoreStop
  <2>5. CASE RestartSendsStop \/ RestartSendsStart
    BY <1>1, <2>5, SendKeepsKills
       DEF RestartSendsStop, RestartSendsStart, ServerTaskRequest
  <2> QED BY <2>1, <2>2, <2>3, <2>4, <2>5 DEF ServerStep, ServerTaskNext
<1>3. \A i \in Inc : exitTask'[i] = "grace" \/ proc'[i] = "killed" =>
                        exitTask[i] = "grace" \/ proc[i] = "killed"
  <2>1. CASE SpawnProcess
    BY <2>1 DEF SpawnProcess, TypeInv, TypeOK, ProcessTypeOK
  <2>2. CASE ReportsOn
    BY <2>2 DEF ReportsOn, TypeInv, TypeOK, ProcessTypeOK
  <2>3. CASE ~SpawnProcess /\ ~ReportsOn
    BY <2>3 DEF ServerStep, ServerTaskNext, StateChanged, ServerCancelled,
                ListenerJoined, StartFails, ReportOnFails, SendsStop, ServerJoined,
                SendsCommand, Drained, StartPanics, TaskEnds, IgnoreStart,
                AcceptStart, AcceptStop,
                AcceptRestart, AcceptCommand, Answers, IgnoreStop, RestartSendsStop,
                RestartSendsStart, procVars
  <2> QED BY <2>1, <2>2, <2>3
<1> QED BY <1>1, <1>2, <1>3 DEF KillInv

(* What the tasks of an incarnation, its process and the peers can do to the *)
(* rest: send a request, which is never a Kill or a question.               *)
LEMMA IncEffects ==
    ASSUME NEW i \in Inc, IncStep(i) \/ PeerStep(i) \/ JavaEnds(i) \/ JavaStops(i)
    PROVE  /\ UNCHANGED <<console, typed, main, token, receiving, replies, spawned, srv,
                          awaited, serverHandle>>
           /\ \/ UNCHANGED requests
              \/ \E request \in {"Command", "Restart", "Stop", "Start"} : Send(request)
  BY DEF IncStep, PeerStep, JavaEnds, JavaStops, RestartStep, ShutdownStep,
         TimerStep, PingStep, PingerEnds, PipeStep, ExitStepOf, ListenerStep,
         ListenerEnds, ShutdownFrame, ProcessFrame, ListenerFrame, consoleVars, serverVars,
         procVars,
         RestartTaskNext, RestartNotify, RestartTick, RestartCancelled,
         RestartRequest, ShutdownTaskNext, SeeEmpty, SeeOccupied, TimerJoined,
         PingerLost, ShutdownCancelled, PingerJoined, TimerNext, TimerExpires,
         TimerCancelled, TimerRequestsStop, Ping, PingerCancelled, PipeTaskNext,
         PipeForwards, PipeCancelled, PipeClosed, ExitTaskNext, ExitObserved,
         ExitCancelled, GraceExpires, ReportsOff, PipeJoined, RestartJoined,
         ShutdownJoined, ProcessEnds, ProcessStops, Bind, BindFails,
         ListenerRequestsStart, ListenerCancelled, Accept, ReadOther, ReadLogin,
         ListenerFails, runtimeVars, taskVars

(* No exit task is in its grace period at first.                            *)
LEMMA KillInitial == Init => KillInv
  BY DEF Init, RuntimeInit, ProcessInit, KillInv, KillQueued

(* KillInv is inductive: only a cancelled token begins a grace period, and  *)
(* a token stays cancelled.                                                 *)
LEMMA KillStep == TypeInv /\ KillInv /\ [Next]_vars => KillInv'
<1> SUFFICES ASSUME TypeInv, KillInv, [Next]_vars PROVE KillInv'
  OBVIOUS
<1> USE DEF TypeInv, TypeOK
<1>1. CASE UserStep \/ StdinStep \/ MainStep
  <2>1. UNCHANGED <<exitTask, proc>>
    BY <1>1 DEF UserStep, StdinStep, MainStep, ConsoleFrame, procVars
  <2>2. CASE UserStep \/ MainStep
    BY <2>1, <2>2 DEF UserStep, MainStep, ConsoleFrame, StdinCloses, ReadLine,
                      MainCancels, MainReturns, runtimeVars, KillInv, KillQueued
  <2>3. CASE StdinStep
    <3>1. console # "done"
      BY <2>3 DEF StdinStep, ConsoleFrame, StdinTaskNext, ConsoleSends, ReadReply,
                  ReplyLost
    <3>2. ~token /\ ~KillQueued
      BY <3>1 DEF KillInv
    <3>3. ASSUME NEW from, NEW request \in ServerTaskRequest \ {"Kill"},
                 NEW to, ConsoleSends(from, request, to)
          PROVE  KillInv'
      BY <2>1, <3>2, <3>3, SendKeepsKills DEF ConsoleSends, KillInv
    <3>4. CASE ConsoleSends("sendKill", "Kill", "done")
      BY <2>1, <3>2, <3>4 DEF ConsoleSends, KillInv
    <3>5. CASE ReadReply
      BY <2>1, <3>2, <3>5 DEF ReadReply, runtimeVars, KillInv, KillQueued
    <3>6. CASE ReplyLost
      BY <2>1, <3>2, <3>6 DEF ReplyLost, runtimeVars, KillInv, KillQueued
    <3> QED BY <2>3, <3>3, <3>4, <3>5, <3>6
            DEF StdinStep, ConsoleFrame, StdinTaskNext, ServerTaskRequest
  <2> QED BY <1>1, <2>2, <2>3
<1>2. CASE ServerStep
  BY <1>2, KillServerTask
<1>3. CASE StateStep
  BY <1>3 DEF StateStep, StateTaskNext, ApplyReport, StateTaskCancelled, runtimeVars,
              procVars, consoleVars, KillInv, KillQueued
<1>4. ASSUME NEW i \in Inc, IncStep(i) \/ PeerStep(i) \/ JavaEnds(i) \/ JavaStops(i)
      PROVE  KillInv'
  <2>1. console' = console /\ token' = token
    BY <1>4, IncEffects
  <2>2. KillQueued' => KillQueued
    <3>1. CASE UNCHANGED requests
      BY <3>1 DEF KillQueued
    <3>2. CASE \E request \in {"Command", "Restart", "Stop", "Start"} : Send(request)
      BY <3>2, SendKeepsKills DEF ServerTaskRequest
    <3> QED BY <1>4, <3>1, <3>2, IncEffects
  <2>3. \A k \in Inc : exitTask'[k] = "grace" \/ proc'[k] = "killed" => token
    <3>1. CASE PipeStep(i) \/ ExitStepOf(i) \/ JavaEnds(i) \/ JavaStops(i)
      BY <3>1 DEF PipeStep, ExitStepOf, JavaEnds, JavaStops, ProcessFrame, PipeTaskNext,
                  PipeForwards, PipeCancelled, PipeClosed, ExitTaskNext, ExitStep,
                  ExitObserved, ExitCancelled, GraceExpires, ReportsOff, PipeJoined,
                  RestartJoined, ShutdownJoined, ProcessEnds, ProcessStops, KillInv,
                  ProcessTypeOK
    <3>2. CASE UNCHANGED procVars
      BY <3>2 DEF procVars, KillInv
    <3> QED BY <1>4, <3>1, <3>2
            DEF IncStep, PeerStep, RestartStep, ShutdownStep, TimerStep, PingStep,
                PingerEnds, ListenerStep, ListenerEnds, ShutdownFrame, ListenerFrame
  <2> QED BY <2>1, <2>2, <2>3 DEF KillInv
<1>5. CASE UNCHANGED vars
  BY <1>5 DEF vars, runtimeVars, procVars, consoleVars, KillInv, KillQueued
<1> QED BY <1>1, <1>2, <1>3, <1>4, <1>5 DEF Next

(* The wrapper kills a server only after the console has ended and the root *)
(* token has been cancelled (minecraft.rs:213-234): no stop, no restart and *)
(* no idle shutdown ever loses the world to a kill.                         *)
THEOREM KillsOnlyAtExit == Spec => []KillOnlyAtExit
<1>1. KillInv => KillOnlyAtExit
  BY DEF KillInv, KillOnlyAtExit
<1> QED BY <1>1, KillInitial, KillStep, TypeCorrect, PTL DEF Spec

-----------------------------------------------------------------------------
(* What a joined exit task leaves behind. The exit task of i cancels and    *)
(* joins its children in order, so how far it is tells which have ended; a  *)
(* task that has ended stays so, because only the report of On begins it.   *)

JoinInvOf(i) ==
    /\ i > spawned => proc[i] = "none" /\ exitTask[i] = "none"
    /\ exitTask[i] \notin {"none", "wait", "grace"} => ~Alive(i)
    /\ exitTask[i] \in {"joinRestart", "joinShutdown", "done"} => pipe[i] = "done"
    /\ exitTask[i] \in {"joinShutdown", "done"} => RestartOver(i)
    /\ exitTask[i] = "done" => ShutdownOver(i)

JoinInv ==
    /\ srv = "reportOn" => exitTask[spawned] = "none"
    /\ \A i \in Inc : JoinInvOf(i)

(* No exit task has joined anything at first.                               *)
LEMMA JoinInitial == Init => JoinInv
  BY DEF Init, ProcessInit, ServerInit, JoinInv, JoinInvOf

(* The server task begins tasks only for a fresh incarnation, whose exit    *)
(* task is where it has joined nothing.                                     *)
LEMMA JoinServerTask ==
    ASSUME TypeInv, JoinInv, ServerStep
    PROVE  JoinInv'
<1> USE DEF TypeInv, TypeOK, ProcessTypeOK
<1>1. CASE SpawnProcess
  <2>1. spawned + 1 \in Inc /\ exitTask[spawned + 1] = "none"
    BY <1>1, RuntimeAssumption DEF SpawnProcess, Inc, JoinInv, JoinInvOf
  <2>2. ASSUME NEW i \in Inc PROVE JoinInvOf(i)'
    BY <1>1, <2>1, RuntimeAssumption
       DEF SpawnProcess, taskVars, restartVars, shutdownVars, Inc, JoinInv, JoinInvOf,
           Alive, RestartOver, ShutdownOver
  <2> QED BY <1>1, <2>1, <2>2 DEF SpawnProcess, JoinInv
<1>2. CASE ReportsOn
  <2>1. spawned \in Inc /\ exitTask[spawned] = "none"
    BY <1>2, RuntimeAssumption DEF ReportsOn, Inc, JoinInv, HandlersFit
  <2>2. ASSUME NEW i \in Inc PROVE JoinInvOf(i)'
    <3>1. CASE i = spawned
      BY <1>2, <3>1 DEF ReportsOn, JoinInvOf
    <3>2. CASE i # spawned
      <4>1. /\ UNCHANGED <<spawned, proc>>
            /\ exitTask'[i] = exitTask[i] /\ pipe'[i] = pipe[i]
        BY <1>2, <3>2 DEF ReportsOn
      <4>2. RestartOver(i)' = RestartOver(i) /\ ShutdownOver(i)' = ShutdownOver(i)
        BY <1>2, <3>2
           DEF ReportsOn, BeginRestartTask, BeginShutdownTask, restartVars,
               shutdownVars, RestartTypeOK, ShutdownTypeOK, RestartOver, ShutdownOver
      <4> QED BY <4>1, <4>2 DEF JoinInv, JoinInvOf, Alive
    <3> QED BY <3>1, <3>2
  <2> QED BY <1>2, <2>2 DEF ReportsOn, JoinInv
<1>4. CASE StartPanics
  <2>1. UNCHANGED <<spawned, proc, exitTask, restart, shutdown>> /\ srv' = "panicked"
    BY <1>4 DEF StartPanics, TaskEnds, restartVars, shutdownVars
  <2>2. \A i \in Inc : pipe'[i] = pipe[i] \/ exitTask[i] = "none"
    BY <1>4 DEF StartPanics, JoinInv
  <2> QED BY <2>1, <2>2 DEF JoinInv, JoinInvOf, Alive, RestartOver, ShutdownOver
<1>3. CASE ~SpawnProcess /\ ~ReportsOn /\ ~StartPanics
  <2>1. UNCHANGED <<spawned, proc, exitTask, pipe, restart, shutdown>>
        /\ (srv' = "reportOn" => srv = "reportOn")
    BY <1>3 DEF ServerStep, ServerTaskNext, StateChanged, ServerCancelled,
                ListenerJoined, StartFails, ReportOnFails, SendsStop, ServerJoined,
                SendsCommand, Drained, TaskEnds, IgnoreStart,
                AcceptStart, AcceptStop, AwaitServer,
                AcceptRestart, AcceptCommand, Answers, IgnoreStop, RestartSendsStop,
                RestartSendsStart, ServerGoes, Take, procVars, taskVars, restartVars,
                shutdownVars, serverVars
  <2> QED BY <2>1 DEF JoinInv, JoinInvOf, Alive, RestartOver, ShutdownOver
<1> QED BY <1>1, <1>2, <1>3, <1>4

(* An exit task moves past a join only when the task it joins has ended,    *)
(* and an ended task stays so.                                              *)
LEMMA JoinIncarnation ==
    ASSUME TypeInv, JoinInv, NEW i \in Inc,
           IncStep(i) \/ PeerStep(i) \/ JavaEnds(i) \/ JavaStops(i)
    PROVE  JoinInv'
<1> USE DEF TypeInv, TypeOK, ProcessTypeOK
<1>1. CASE RestartStep(i)
  <2>1. UNCHANGED <<spawned, proc, exitTask, pipe, shutdown, srv>>
    BY <1>1 DEF RestartStep, procVars, shutdownVars, serverVars
  <2>2. \A k \in Inc : RestartOver(k) => RestartOver(k)'
    BY <1>1 DEF RestartStep, RestartTaskNext, RestartNotify, RestartTick,
                RestartCancelled, RestartRequest, RestartOver, RestartTypeOK
  <2> QED BY <2>1, <2>2 DEF JoinInv, JoinInvOf, Alive, ShutdownOver
<1>2. CASE ShutdownStep(i) \/ TimerStep(i) \/ PingStep(i) \/ PingerEnds(i)
  <2>1. UNCHANGED <<spawned, proc, exitTask, pipe, restart, srv>>
    BY <1>2 DEF ShutdownStep, TimerStep, PingStep, PingerEnds, ShutdownFrame, procVars,
                restartVars, serverVars
  <2>2. \A k \in Inc : ShutdownOver(k) => ShutdownOver(k)'
    BY <1>2 DEF ShutdownStep, TimerStep, PingStep, PingerEnds, ShutdownFrame,
                ShutdownTaskNext, SeeEmpty, SeeOccupied, ReadCount, TimerJoined,
                PingerLost, ShutdownCancelled, PingerJoined, TimerNext, TimerExpires,
                TimerCancelled, TimerRequestsStop, Ping, PingerCancelled, ShutdownOver,
                ShutdownTypeOK
  <2> QED BY <2>1, <2>2 DEF JoinInv, JoinInvOf, Alive, RestartOver
<1>3. CASE PipeStep(i) \/ ExitStepOf(i) \/ JavaEnds(i) \/ JavaStops(i)
  <2>1. UNCHANGED <<spawned, restart, shutdown, srv>>
    BY <1>3 DEF PipeStep, ExitStepOf, JavaEnds, JavaStops, ProcessFrame, PipeTaskNext,
                PipeForwards, PipeCancelled, PipeClosed, ExitTaskNext, ExitObserved,
                ExitCancelled, GraceExpires, ReportsOff, PipeJoined, RestartJoined,
                ShutdownJoined, ProcessEnds, ProcessStops, taskVars, restartVars,
                shutdownVars, serverVars
  <2>2. ASSUME NEW k \in Inc PROVE JoinInvOf(k)'
    BY <1>3, <2>1
       DEF PipeStep, ExitStepOf, JavaEnds, JavaStops, ProcessFrame, PipeTaskNext,
           PipeForwards, PipeCancelled, PipeClosed, ExitTaskNext, ExitStep, ExitObserved,
           ExitCancelled, GraceExpires, ReportsOff, PipeJoined, RestartJoined,
           ShutdownJoined, ProcessEnds, ProcessStops, JoinInv, JoinInvOf, Alive,
           RestartOver, ShutdownOver
  <2>3. srv = "reportOn" => exitTask'[spawned] = "none"
    <3>1. srv = "reportOn" => spawned \in Inc
      BY RuntimeAssumption DEF HandlersFit, Inc
    <3> QED
      BY <1>3, <3>1
         DEF PipeStep, ExitStepOf, JavaEnds, JavaStops, ProcessFrame, PipeTaskNext,
             PipeForwards, PipeCancelled, PipeClosed, ExitTaskNext, ExitStep,
             ExitObserved, ExitCancelled, GraceExpires, ReportsOff, PipeJoined,
             RestartJoined, ShutdownJoined, ProcessEnds, ProcessStops, JoinInv
  <2> QED BY <2>1, <2>2, <2>3 DEF JoinInv
<1>4. CASE ListenerStep(i) \/ ListenerEnds(i) \/ PeerStep(i)
  BY <1>4 DEF ListenerStep, ListenerEnds, PeerStep, ListenerFrame, procVars, restartVars,
              shutdownVars, serverVars, JoinInv, JoinInvOf, Alive, RestartOver,
              ShutdownOver
<1> QED BY <1>1, <1>2, <1>3, <1>4 DEF IncStep

(* JoinInv is inductive.                                                    *)
LEMMA JoinStep == TypeInv /\ JoinInv /\ [Next]_vars => JoinInv'
<1> SUFFICES ASSUME TypeInv, JoinInv, [Next]_vars PROVE JoinInv'
  OBVIOUS
<1>1. CASE UserStep \/ StdinStep \/ MainStep \/ StateStep \/ UNCHANGED vars
  BY <1>1 DEF UserStep, StdinStep, MainStep, ConsoleFrame, StateStep, vars, procVars,
              restartVars, shutdownVars, serverVars, JoinInv, JoinInvOf, Alive,
              RestartOver, ShutdownOver
<1>2. CASE ServerStep
  BY <1>2, JoinServerTask
<1>3. ASSUME NEW i \in Inc, IncStep(i) \/ PeerStep(i) \/ JavaEnds(i) \/ JavaStops(i)
      PROVE  JoinInv'
  BY <1>3, JoinIncarnation
<1> QED BY <1>1, <1>2, <1>3 DEF Next

(* A joined exit task leaves no process and no task of its incarnation      *)
(* behind (minecraft.rs:213-243), whatever its children were waiting for.   *)
THEOREM JoinedLeavesNothing == Spec => []JoinedIsClean
<1>1. TypeInv /\ JoinInv => JoinedIsClean
  BY DEF JoinInv, JoinInvOf, JoinedIsClean
<1> QED BY <1>1, JoinInitial, JoinStep, TypeCorrect, PTL DEF Spec

-----------------------------------------------------------------------------
(* Who waits for the last server. Its exit task is in the handle map or is  *)
(* being waited for, until it has ended, or a panic has dropped the map; the *)
(* drain of the map waits for it.                                           *)

ReapInv ==
    spawned > 0 /\ exitTask[spawned] \notin {"none", "done"} /\ srv # "panicked" =>
        /\ srv # "done"
        /\ serverHandle = spawned \/ (srv = "joinServer" /\ awaited = spawned)

(* No server has been spawned at first.                                     *)
LEMMA ReapInitial == Init => ReapInv
  BY DEF Init, ProcessInit, ReapInv

(* ReapInv is inductive: the server task keeps the handle of the last exit  *)
(* task until it has joined it.                                             *)
LEMMA ReapStep == TypeInv /\ JoinInv /\ ReapInv /\ [Next]_vars => ReapInv'
<1> SUFFICES ASSUME TypeInv, JoinInv, ReapInv, [Next]_vars PROVE ReapInv'
  OBVIOUS
<1> USE DEF TypeInv, TypeOK, ProcessTypeOK, ServerTypeOK
<1>0. spawned > 0 => spawned \in Inc
  BY RuntimeAssumption DEF Inc
<1>1. CASE UserStep \/ StdinStep \/ MainStep \/ StateStep \/ UNCHANGED vars
  BY <1>1 DEF UserStep, StdinStep, MainStep, ConsoleFrame, StateStep, vars, procVars,
              serverVars, ReapInv
<1>2. CASE ServerStep
  <2>1. CASE SpawnProcess
    <3>1. spawned + 1 \in Inc /\ exitTask[spawned + 1] = "none"
      BY <2>1, RuntimeAssumption DEF SpawnProcess, Inc, JoinInv, JoinInvOf
    <3> QED BY <2>1, <3>1 DEF SpawnProcess, ReapInv
  <2>2. CASE ReportsOn
    BY <2>2 DEF ReportsOn, ReapInv
  <2>3. CASE Drained
    BY <2>3 DEF Drained, TaskEnds, ReapInv
  <2>7. CASE StartPanics
    BY <2>7 DEF StartPanics, TaskEnds, ReapInv
  <2>4. CASE AcceptStop \/ SendsStop
    BY <1>0, <2>4 DEF AcceptStop, SendsStop, AwaitServer, Take, procVars, ReapInv
  <2>5. CASE ServerJoined
    BY <2>5 DEF ServerJoined, procVars, ReapInv
  <2>6. CASE \/ StateChanged \/ ServerCancelled \/ IgnoreStart \/ AcceptStart
             \/ ListenerJoined \/ StartFails \/ ReportOnFails \/ IgnoreStop
             \/ AcceptRestart \/ RestartSendsStop \/ RestartSendsStart
             \/ AcceptCommand \/ SendsCommand \/ Answers
    BY <2>6 DEF StateChanged, ServerCancelled, IgnoreStart, AcceptStart, ListenerJoined,
                StartFails, ReportOnFails, IgnoreStop, AcceptRestart, RestartSendsStop,
                RestartSendsStart, AcceptCommand, SendsCommand, Answers, ServerGoes,
                Take, procVars, serverVars, ReapInv
  <2> QED BY <1>2, <2>1, <2>2, <2>3, <2>4, <2>5, <2>6, <2>7 DEF ServerStep, ServerTaskNext
<1>3. ASSUME NEW i \in Inc, IncStep(i) \/ PeerStep(i) \/ JavaEnds(i) \/ JavaStops(i)
      PROVE  ReapInv'
  <2>1. UNCHANGED <<spawned, srv, awaited, serverHandle>>
    BY <1>3, IncEffects
  <2>2. CASE ExitStepOf(i)
    BY <1>0, <2>1, <2>2
       DEF ExitStepOf, ProcessFrame, ExitTaskNext, ExitStep, ExitObserved, ExitCancelled,
           GraceExpires, ReportsOff, PipeJoined, RestartJoined, ShutdownJoined, ReapInv
  <2>3. CASE PipeStep(i) \/ JavaEnds(i) \/ JavaStops(i)
    BY <2>1, <2>3
       DEF PipeStep, JavaEnds, JavaStops, ProcessFrame, PipeTaskNext, PipeForwards,
           PipeCancelled, PipeClosed, ProcessEnds, ProcessStops, ReapInv
  <2>4. CASE UNCHANGED procVars
    BY <2>1, <2>4 DEF procVars, ReapInv
  <2> QED BY <1>3, <2>2, <2>3, <2>4
          DEF IncStep, PeerStep, RestartStep, ShutdownStep, TimerStep, PingStep,
              PingerEnds, ListenerStep, ListenerEnds, ShutdownFrame, ListenerFrame
<1> QED BY <1>1, <1>2, <1>3 DEF Next

(* When the server task has ended, the last server it launched is dead      *)
(* (minecraft.rs:309-317), unless its launch was cut short at line 184.     *)
THEOREM LastServerIsReaped == Spec => []LastServerReaped
<1>1. TypeInv /\ JoinInv /\ ReapInv => LastServerReaped
  <2> SUFFICES ASSUME TypeInv, JoinInv, ReapInv, srv = "done", spawned > 0, Alive(spawned)
               PROVE  exitTask[spawned] = "none"
    BY DEF LastServerReaped
  <2>1. spawned \in Inc
    BY RuntimeAssumption DEF TypeInv, TypeOK, ProcessTypeOK, Inc
  <2> QED BY <2>1 DEF JoinInv, JoinInvOf, ReapInv
<1> QED BY <1>1, JoinInitial, JoinStep, ReapInitial, ReapStep, TypeCorrect, PTL DEF Spec

-----------------------------------------------------------------------------
(* No phantom server: the invariant is inductive as it stands. A report of  *)
(* On is the last one until its own exit task, or another one, reports Off. *)

LEMMA PhantomInitial == Init => NoPhantomOn
  BY DEF Init, StateInit, NoPhantomOn, LatestReport

(* Applying a report does not change which one is the last. *)
LEMMA ApplyKeepsLatest ==
    ASSUME StateTypeOK, ApplyReport
    PROVE  LatestReport' = LatestReport
<1>1. reports \in Seq(ServerState) /\ reports # <<>>
  BY DEF StateTypeOK, ApplyReport
<1>2. /\ Tail(reports) \in Seq(ServerState)
      /\ Len(Tail(reports)) = Len(reports) - 1
      /\ \A n \in 1..Len(Tail(reports)) : Tail(reports)[n] = reports[n + 1]
  BY <1>1, HeadTailProperties
<1>3. Len(reports) \in Nat \ {0}
  BY <1>1, EmptySeq
<1>4. CASE Tail(reports) = <<>>
  <2>1. Len(reports) = 1
    BY <1>2, <1>3, <1>4
  <2> QED BY <1>1, <1>4, <2>1 DEF ApplyReport, LatestReport
<1>5. CASE Tail(reports) # <<>>
  <2>1. Len(Tail(reports)) \in Nat \ {0}
    BY <1>2, <1>5, EmptySeq
  <2>2. Tail(reports)[Len(Tail(reports))] = reports[Len(reports)]
    BY <1>2, <1>3, <2>1
  <2> QED BY <1>1, <1>5, <2>2 DEF ApplyReport, LatestReport
<1> QED BY <1>4, <1>5

(* A report that is sent is the last one. *)
LEMMA ReportIsLatest ==
    ASSUME StateTypeOK, NEW state \in ServerState, Report(state)
    PROVE  LatestReport' = state /\ UNCHANGED stateTask
  BY DEF StateTypeOK, Report, LatestReport

(* NoPhantomOn is inductive: reports are applied in the order in which they *)
(* are queued.                                                              *)
LEMMA PhantomStep == TypeInv /\ NoPhantomOn /\ [Next]_vars => NoPhantomOn'
<1> SUFFICES ASSUME TypeInv, NoPhantomOn, [Next]_vars PROVE NoPhantomOn'
  OBVIOUS
<1> USE DEF TypeInv, TypeOK, ProcessTypeOK
<1>0. UNCHANGED stateVars => UNCHANGED <<stateTask, LatestReport>>
  BY DEF stateVars, LatestReport
<1>1. CASE UserStep \/ StdinStep \/ MainStep \/ UNCHANGED vars
  BY <1>0, <1>1 DEF UserStep, StdinStep, MainStep, ConsoleFrame, vars, procVars,
                    serverVars, NoPhantomOn, LatestReported, Unreported
<1>2. CASE StateStep
  <2>1. UNCHANGED <<LatestReported, exitTask, srv>>
    BY <1>2 DEF StateStep, procVars, serverVars, LatestReported
  <2> QED BY <1>2, <2>1, ApplyKeepsLatest
          DEF StateStep, StateTaskNext, StateTaskCancelled, ApplyReport, NoPhantomOn,
              Unreported
<1>3. CASE ServerStep
  <2>1. CASE SpawnProcess
    BY <1>0, <2>1 DEF SpawnProcess, taskVars, NoPhantomOn, LatestReported, Unreported
  <2>2. CASE ReportsOn
    <3>1. spawned \in Inc
      BY <2>2, RuntimeAssumption DEF ReportsOn, HandlersFit, Inc
    <3> QED BY <2>2, <3>1 DEF ReportsOn, NoPhantomOn, LatestReported, Unreported, Inc
  <2>3. CASE ReportOnFails
    BY <2>3 DEF ReportOnFails, ReportFails, stateVars, NoPhantomOn
  <2>6. CASE StartPanics
    BY <2>6 DEF StartPanics, TaskEnds, NoPhantomOn
  <2>4. CASE StateChanged
    BY <2>4 DEF StateChanged, procVars, LatestReport, NoPhantomOn, LatestReported,
                Unreported
  <2>5. CASE \/ ServerCancelled \/ Drained \/ IgnoreStart \/ AcceptStart \/ ListenerJoined
             \/ StartFails \/ IgnoreStop \/ AcceptStop \/ SendsStop \/ ServerJoined
             \/ AcceptRestart \/ RestartSendsStop \/ RestartSendsStart
             \/ AcceptCommand \/ SendsCommand \/ Answers
    <3>1. UNCHANGED <<stateVars, spawned, exitTask>>
      BY <2>5 DEF ServerCancelled, Drained, TaskEnds, IgnoreStart, AcceptStart, ListenerJoined,
                  StartFails, IgnoreStop, AcceptStop, SendsStop, ServerJoined,
                  AcceptRestart, RestartSendsStop, RestartSendsStart, AcceptCommand,
                  SendsCommand, Answers, procVars, taskVars
    <3>2. srv \notin {"reportOn", "panicked"} /\ srv' # "reportOn"
      BY <2>5 DEF ServerCancelled, Drained, TaskEnds, IgnoreStart, AcceptStart, ListenerJoined,
                  StartFails, IgnoreStop, AcceptStop, AwaitServer, SendsStop,
                  ServerJoined, AcceptRestart, RestartSendsStop, RestartSendsStart,
                  AcceptCommand, SendsCommand, Answers, ServerGoes, Take, serverVars
    <3> QED BY <1>0, <3>1, <3>2 DEF NoPhantomOn, LatestReported, Unreported
  <2> QED BY <1>3, <2>1, <2>2, <2>3, <2>4, <2>5, <2>6 DEF ServerStep, ServerTaskNext
<1>4. ASSUME NEW i \in Inc, IncStep(i) \/ PeerStep(i) \/ JavaEnds(i) \/ JavaStops(i)
      PROVE  NoPhantomOn'
  <2>1. UNCHANGED <<spawned, srv, LatestReported>>
    BY <1>4, IncEffects DEF LatestReported
  <2>2. CASE ExitStepOf(i) /\ ReportsOff(i)
    <3>1. CASE Report("Off")
      BY <3>1, ReportIsLatest DEF ServerState, NoPhantomOn
    <3>2. CASE ReportFails
      BY <3>2 DEF ReportFails, stateVars, NoPhantomOn
    <3> QED BY <2>2, <3>1, <3>2 DEF ReportsOff
  <2>3. CASE ExitStepOf(i) /\ ~ReportsOff(i)
    <3>1. UNCHANGED stateVars
      BY <2>3 DEF ExitStepOf, ProcessFrame, ExitTaskNext, ExitObserved, ExitCancelled,
                  GraceExpires, PipeJoined, RestartJoined, ShutdownJoined, taskVars
    <3>2. \A k \in Inc : Unreported(k) => Unreported(k)'
      BY <2>3 DEF ExitStepOf, ProcessFrame, ExitTaskNext, ExitStep, ExitObserved,
                  ExitCancelled, GraceExpires, PipeJoined, RestartJoined,
                  ShutdownJoined, Unreported
    <3>3. LatestReported > 0 => LatestReported \in Inc
      BY RuntimeAssumption DEF LatestReported, Inc
    <3> QED BY <1>0, <2>1, <3>1, <3>2, <3>3 DEF NoPhantomOn, LatestReported, Unreported
  <2>4. CASE UNCHANGED <<stateVars, exitTask>>
    BY <1>0, <2>1, <2>4 DEF NoPhantomOn, LatestReported, Unreported
  <2> QED BY <1>4, <2>2, <2>3, <2>4
          DEF IncStep, PeerStep, JavaEnds, JavaStops, RestartStep, ShutdownStep,
              TimerStep, PingStep, PingerEnds, PipeStep, ListenerStep, ListenerEnds,
              ShutdownFrame, ProcessFrame, ListenerFrame, PipeTaskNext, PipeForwards,
              PipeCancelled, PipeClosed, ProcessEnds, ProcessStops, taskVars, procVars
<1> QED BY <1>1, <1>2, <1>3, <1>4 DEF Next

(* However its reports are queued and coalesced, the state never ends at On *)
(* for a server that has already been reported Off (state_task.rs:28-50,    *)
(* minecraft.rs:184, 235): a later Start is not refused for ever.           *)
THEOREM NoPhantomServer == Spec => []NoPhantomOn
  BY PhantomInitial, PhantomStep, TypeCorrect, PTL DEF Spec

-----------------------------------------------------------------------------
(* The idle timer. While the shutdown task joins a timer it disarmed, new   *)
(* counts may be published but none is read; one that is read arms or       *)
(* disarms, and a shutdown task that has not begun holds no timer.          *)

TimerInvOf(i) ==
    /\ i > spawned => shutdown[i] = "none"
    /\ shutdown[i] = "none" =>
          pinger[i] = "none" /\ timer[i] = "none" /\ players[i] = "offline"
    /\ shutdown[i] = "joinTimer" /\ ~counted[i] => players[i] # "empty"
    /\ shutdown[i] = "select" /\ ~counted[i] => (timer[i] # "none" <=> players[i] = "empty")

TimerInv ==
    /\ srv = "reportOn" => shutdown[spawned] = "none"
    /\ \A i \in Inc : TimerInvOf(i)

(* No shutdown task holds a timer at first.                                 *)
LEMMA TimerInitial == Init => TimerInv
  BY DEF Init, ShutdownInit, ServerInit, TimerInv, TimerInvOf

(* The server task only begins the idle shutdown of a fresh incarnation,    *)
(* which holds no timer.                                                    *)
LEMMA TimerServerTask ==
    ASSUME TypeInv, TimerInv, ServerStep
    PROVE  TimerInv'
<1> USE DEF TypeInv, TypeOK, ProcessTypeOK
<1>1. CASE SpawnProcess
  <2>1. spawned + 1 \in Inc /\ shutdown[spawned + 1] = "none"
    BY <1>1, RuntimeAssumption DEF SpawnProcess, Inc, TimerInv, TimerInvOf
  <2>2. ASSUME NEW i \in Inc PROVE TimerInvOf(i)'
    BY <1>1, <2>1, RuntimeAssumption
       DEF SpawnProcess, taskVars, shutdownVars, Inc, TimerInv, TimerInvOf
  <2> QED BY <1>1, <2>1, <2>2 DEF SpawnProcess, taskVars, shutdownVars, TimerInv
<1>2. CASE ReportsOn
  <2>1. spawned \in Inc /\ shutdown[spawned] = "none"
    BY <1>2, RuntimeAssumption DEF ReportsOn, Inc, TimerInv, HandlersFit
  <2>2. ASSUME NEW i \in Inc PROVE TimerInvOf(i)'
    <3>1. spawned' = spawned /\ UNCHANGED <<players, counted, timer>>
      BY <1>2 DEF ReportsOn, BeginShutdownTask, shutdownVars
    <3>2. CASE i = spawned
      <4>1. timer[i] = "none" /\ players[i] = "offline"
        BY <2>1, <3>2 DEF TimerInv, TimerInvOf
      <4>2. shutdown'[i] \in {"none", "select"}
            /\ (shutdown'[i] = "none" => pinger'[i] = "none")
        BY <1>2, <2>1, <3>2
           DEF ReportsOn, BeginShutdownTask, shutdownVars, ShutdownTypeOK, TimerInv,
               TimerInvOf
      <4> QED BY <2>1, <3>1, <3>2, <4>1, <4>2, RuntimeAssumption DEF TimerInvOf, Inc
    <3>3. CASE i # spawned
      <4>1. shutdown'[i] = shutdown[i] /\ pinger'[i] = pinger[i]
        BY <1>2, <3>3 DEF ReportsOn, BeginShutdownTask, shutdownVars, ShutdownTypeOK
      <4> QED BY <3>1, <4>1 DEF TimerInv, TimerInvOf
    <3> QED BY <3>2, <3>3
  <2> QED BY <1>2, <2>2 DEF ReportsOn, TimerInv
<1>3. CASE ~SpawnProcess /\ ~ReportsOn
  <2>1. UNCHANGED <<spawned, shutdownVars>> /\ (srv' = "reportOn" => srv = "reportOn")
    BY <1>3 DEF ServerStep, ServerTaskNext, StateChanged, ServerCancelled,
                ListenerJoined, StartFails, ReportOnFails, SendsStop, ServerJoined,
                SendsCommand, Drained, StartPanics, TaskEnds, IgnoreStart,
                AcceptStart, AcceptStop, AwaitServer,
                AcceptRestart, AcceptCommand, Answers, IgnoreStop, RestartSendsStop,
                RestartSendsStart, ServerGoes, Take, procVars, taskVars, serverVars
  <2> QED BY <2>1 DEF TimerInv, TimerInvOf, shutdownVars
<1> QED BY <1>1, <1>2, <1>3

(* The tasks of an incarnation arm a timer on an empty count and drop it on *)
(* any other.                                                               *)
LEMMA TimerIncarnation ==
    ASSUME TypeInv, TimerInv, NEW i \in Inc,
           IncStep(i) \/ PeerStep(i) \/ JavaEnds(i) \/ JavaStops(i)
    PROVE  TimerInv'
<1> USE DEF TypeInv, TypeOK, ProcessTypeOK, ShutdownTypeOK
<1>0. UNCHANGED <<spawned, srv>>
  BY IncEffects
<1>1. CASE ShutdownStep(i)
  <2>1. ASSUME NEW k \in Inc PROVE TimerInvOf(k)'
    BY <1>0, <1>1
       DEF ShutdownStep, ShutdownFrame, ShutdownTaskNext, SeeEmpty, SeeOccupied,
           ReadCount, TimerJoined, PingerLost, ShutdownCancelled, PingerJoined,
           PlayerCount, TimerInv, TimerInvOf
  <2>2. \A k \in Inc : shutdown[k] = "none" => shutdown'[k] = "none"
    BY <1>1 DEF ShutdownStep, ShutdownFrame, ShutdownTaskNext, SeeEmpty, SeeOccupied,
                ReadCount, TimerJoined, PingerLost, ShutdownCancelled, PingerJoined
  <2>3. srv = "reportOn" => spawned \in Inc
    BY RuntimeAssumption DEF HandlersFit, Inc
  <2> QED BY <1>0, <2>1, <2>2, <2>3 DEF TimerInv
<1>2. CASE TimerStep(i) \/ PingStep(i) \/ PingerEnds(i)
  <2>1. UNCHANGED shutdown
    BY <1>2 DEF TimerStep, PingStep, PingerEnds, ShutdownFrame, TimerNext, TimerExpires,
                TimerCancelled, TimerRequestsStop, Ping, PingerCancelled
  <2>2. CASE TimerStep(i)
    <3>1. timer[i] # "none" /\ UNCHANGED <<pinger, players, counted>>
          /\ \A k \in Inc : timer'[k] = "none" <=> timer[k] = "none"
      BY <2>2 DEF TimerStep, ShutdownFrame, TimerNext, TimerExpires, TimerCancelled,
                  TimerRequestsStop
    <3> QED BY <1>0, <2>1, <3>1 DEF TimerInv, TimerInvOf
  <2>3. CASE PingStep(i)
    <3>1. shutdown[i] # "none"
      BY <2>3 DEF PingStep, ShutdownFrame, Ping, TimerInv, TimerInvOf
    <3>2. counted'[i] /\ UNCHANGED <<pinger, timer>>
          /\ \A k \in Inc \ {i} : counted'[k] = counted[k] /\ players'[k] = players[k]
      BY <2>3 DEF PingStep, ShutdownFrame, Ping
    <3>3. ASSUME NEW k \in Inc PROVE TimerInvOf(k)'
      <4>1. CASE k = i
        BY <1>0, <2>1, <3>1, <3>2, <4>1 DEF TimerInv, TimerInvOf
      <4>2. CASE k # i
        BY <1>0, <2>1, <3>2, <4>2 DEF TimerInv, TimerInvOf
      <4> QED BY <4>1, <4>2
    <3> QED BY <1>0, <2>1, <3>3 DEF TimerInv
  <2>4. CASE PingerEnds(i)
    <3>1. shutdown[i] # "none" /\ UNCHANGED <<players, counted, timer>>
          /\ \A k \in Inc \ {i} : pinger'[k] = pinger[k]
      BY <2>4 DEF PingerEnds, ShutdownFrame, PingerCancelled, TimerInv, TimerInvOf
    <3>2. ASSUME NEW k \in Inc PROVE TimerInvOf(k)'
      BY <1>0, <2>1, <3>1 DEF TimerInv, TimerInvOf
    <3> QED BY <1>0, <2>1, <3>2 DEF TimerInv
  <2> QED BY <1>2, <2>2, <2>3, <2>4
<1>3. CASE UNCHANGED shutdownVars
  BY <1>0, <1>3 DEF shutdownVars, TimerInv, TimerInvOf
<1> QED BY <1>1, <1>2, <1>3
        DEF IncStep, PeerStep, JavaEnds, JavaStops, RestartStep, PipeStep, ExitStepOf,
            ListenerStep, ListenerEnds, ProcessFrame, ListenerFrame, PipeTaskNext,
            PipeForwards, PipeCancelled, PipeClosed, ExitTaskNext, ExitObserved,
            ExitCancelled, GraceExpires, ReportsOff, PipeJoined, RestartJoined,
            ShutdownJoined, ProcessEnds, ProcessStops, taskVars

(* TimerInv is inductive.                                                   *)
LEMMA TimerInvStep == TypeInv /\ TimerInv /\ [Next]_vars => TimerInv'
<1> SUFFICES ASSUME TypeInv, TimerInv, [Next]_vars PROVE TimerInv'
  OBVIOUS
<1>1. CASE UserStep \/ StdinStep \/ MainStep \/ StateStep \/ UNCHANGED vars
  BY <1>1 DEF UserStep, StdinStep, MainStep, ConsoleFrame, StateStep, vars, procVars,
              shutdownVars, serverVars, TimerInv, TimerInvOf
<1>2. CASE ServerStep
  BY <1>2, TimerServerTask
<1>3. ASSUME NEW i \in Inc, IncStep(i) \/ PeerStep(i) \/ JavaEnds(i) \/ JavaStops(i)
      PROVE  TimerInv'
  BY <1>3, TimerIncarnation
<1> QED BY <1>1, <1>2, <1>3 DEF Next

(* Whatever counts are coalesced while the shutdown task is away, it holds  *)
(* a timer exactly when the last count it read was an empty server          *)
(* (shutdown_task.rs:22-88).                                                *)
THEOREM TimerFollows == Spec => []TimerFollowsCount
<1>1. TimerInv => TimerFollowsCount
  BY DEF TimerInv, TimerInvOf, TimerFollowsCount
<1> QED BY <1>1, TimerInitial, TimerInvStep, TypeCorrect, PTL DEF Spec

-----------------------------------------------------------------------------
(* The settings the loop decides by. A start changes the loaded copy only    *)
(* after it was accepted with the cell at Off; an On that comes in between   *)
(* is a change, and stays unseen until the loop is back.                     *)

SeenInv ==
    watch = "On" /\ ~unseen =>
        /\ cachedAuto = serverAuto
        /\ srv \notin {"joinListener", "starting"}

(* The first value of the cell is Off.                                      *)
LEMMA SeenInitial == Init => SeenInv
  BY DEF Init, StateInit, SeenInv

(* SeenInv is inductive: the steps that load settings need it, and the steps *)
(* that apply a report or look at the cell restore it.                      *)
LEMMA SeenStep == SeenInv /\ [Next]_vars => SeenInv'
<1> SUFFICES ASSUME SeenInv, [Next]_vars PROVE SeenInv'
  OBVIOUS
<1>1. CASE UserStep \/ StdinStep \/ MainStep \/ UNCHANGED vars
  BY <1>1 DEF UserStep, StdinStep, MainStep, ConsoleFrame, vars, stateVars, serverVars,
              SeenInv
<1>2. CASE StateStep
  BY <1>2 DEF StateStep, StateTaskNext, ApplyReport, StateTaskCancelled, serverVars,
              SeenInv
<1>3. CASE ServerStep
  <2>1. CASE StateChanged
    BY <2>1 DEF StateChanged, SeenInv
  <2>2. CASE AcceptStart
    BY <2>2 DEF AcceptStart, ServerIsRunning, stateVars, SeenInv
  <2>3. CASE ListenerJoined \/ StartFails \/ SpawnProcess
    BY <2>3 DEF ListenerJoined, StartFails, SpawnProcess, taskVars, stateVars, SeenInv
  <2>4. CASE ReportsOn \/ ReportOnFails
    BY <2>4 DEF ReportsOn, ReportOnFails, Report, ReportFails, stateVars, SeenInv
  <2>5. CASE StartPanics
    <3>1. UNCHANGED <<watch, unseen>>
      BY <2>5 DEF StartPanics, Report, stateVars
    <3>2. TaskEnds("panicked")
      BY <2>5 DEF StartPanics
    <3> QED BY <3>1, <3>2 DEF TaskEnds, SeenInv
  <2>6. CASE \/ ServerCancelled \/ Drained \/ IgnoreStart \/ IgnoreStop \/ AcceptStop
             \/ SendsStop \/ ServerJoined \/ AcceptRestart \/ RestartSendsStop
             \/ RestartSendsStart \/ AcceptCommand \/ SendsCommand \/ Answers
    <3>1. UNCHANGED <<stateVars, cachedAuto, serverAuto>>
      BY <2>6 DEF ServerCancelled, Drained, TaskEnds, IgnoreStart, IgnoreStop, AcceptStop,
                  SendsStop, ServerJoined, AcceptRestart, RestartSendsStop,
                  RestartSendsStart, AcceptCommand, SendsCommand, Answers, ServerGoes,
                  taskVars, serverVars
    <3>2. srv' \notin {"joinListener", "starting"}
      BY <2>6 DEF ServerCancelled, Drained, TaskEnds, IgnoreStart, IgnoreStop, AcceptStop,
                  AwaitServer, SendsStop, ServerJoined, AcceptRestart, RestartSendsStop,
                  RestartSendsStart, AcceptCommand, SendsCommand, Answers, ServerGoes,
                  Take, serverVars
    <3> QED BY <3>1, <3>2 DEF stateVars, SeenInv
  <2> QED BY <1>3, <2>1, <2>2, <2>3, <2>4, <2>5, <2>6 DEF ServerStep, ServerTaskNext
<1>4. ASSUME NEW i \in Inc, IncStep(i) \/ PeerStep(i) \/ JavaEnds(i) \/ JavaStops(i)
      PROVE  SeenInv'
  <2>1. UNCHANGED serverVars /\ UNCHANGED <<watch, unseen>>
    BY <1>4
       DEF IncStep, PeerStep, JavaEnds, JavaStops, RestartStep, ShutdownStep, TimerStep,
           PingStep, PingerEnds, PipeStep, ExitStepOf, ListenerStep, ListenerEnds,
           ShutdownFrame, ProcessFrame, ListenerFrame, PipeTaskNext, PipeForwards,
           PipeCancelled, PipeClosed, ExitTaskNext, ExitObserved, ExitCancelled,
           GraceExpires, ReportsOff, Report, ReportFails, PipeJoined, RestartJoined,
           ShutdownJoined, ProcessEnds, ProcessStops, taskVars, stateVars
  <2> QED BY <2>1 DEF serverVars, SeenInv
<1> QED BY <1>1, <1>2, <1>3, <1>4 DEF Next

(* Once an On has been seen, listeners are decided by the settings loaded   *)
(* last (minecraft.rs:160, 295-306): no coalesced change and no refused or   *)
(* failed start leaves the loop with older ones.                            *)
THEOREM SeenServerIsLoaded == Spec => []SeenOnIsLoaded
<1>1. SeenInv => SeenOnIsLoaded
  BY DEF SeenInv, SeenOnIsLoaded
<1> QED BY <1>1, SeenInitial, SeenStep, PTL DEF Spec

=============================================================================

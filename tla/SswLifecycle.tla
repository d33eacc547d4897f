--------------------------- MODULE SswLifecycle ----------------------------
(***************************************************************************)
(* The wrapper implements Lifecycle, for every value of the constants: the *)
(* initial states map to initial states, and every step maps to a step of  *)
(* Lifecycle or changes nothing that it speaks of.                         *)
(***************************************************************************)
EXTENDS SswSafety

-----------------------------------------------------------------------------
(* Who answers for the server in charge: its exit task has ended, or is in  *)
(* the handle map, or is being waited for. This is what lets the drain of   *)
(* the map stand for "seen through to its end".                             *)

ChargeInv ==
    /\ sender <= spawned
    /\ srv = "reportOn" => sender < spawned
    /\ srv = "drain" => token
    /\ sender # 0 =>
          \/ exitTask[sender] = "done"
          \/ /\ exitTask[sender] # "none"
             /\ serverHandle = sender \/ (srv = "joinServer" /\ awaited = sender)

(* Nobody is in charge at first.                                            *)
LEMMA ChargeInitial == Init => ChargeInv
  BY DEF Init, ProcessInit, ServerInit, ChargeInv

(* The server task takes charge of a server together with its handle, and   *)
(* gives the handle away only to wait for it.                               *)
LEMMA ChargeServerTask ==
    ASSUME TypeInv, ChargeInv, ServerStep
    PROVE  ChargeInv'
<1> USE DEF TypeInv, TypeOK, ProcessTypeOK, ServerTypeOK
<1>0. spawned \in Nat /\ sender \in Nat /\ (sender > 0 => sender \in Inc)
  BY RuntimeAssumption DEF Inc
<1>1. CASE SpawnProcess
  BY <1>0, <1>1 DEF SpawnProcess, ChargeInv
<1>2. CASE ReportsOn
  <2>1. spawned \in Inc
    BY <1>2, RuntimeAssumption DEF ReportsOn, HandlersFit, Inc
  <2> QED BY <1>0, <1>2, <2>1 DEF ReportsOn, ChargeInv
<1>3. CASE Drained \/ StartPanics
  BY <1>0, <1>3 DEF Drained, StartPanics, TaskEnds, ChargeInv
<1>4. CASE AcceptStop \/ SendsStop
  <2>1. UNCHANGED <<spawned, exitTask, sender>>
    BY <1>4 DEF AcceptStop, SendsStop, procVars
  <2>2. srv # "joinServer" /\ srv' \in {"select", "sendStop", "joinServer"}
    BY <1>4 DEF AcceptStop, SendsStop, AwaitServer, Take
  <2>3. \/ UNCHANGED serverHandle
        \/ srv' = "joinServer" /\ awaited' = serverHandle
    BY <1>4 DEF AcceptStop, SendsStop, AwaitServer
  <2>4. CASE sender # 0 /\ exitTask[sender] # "done"
    BY <2>1, <2>2, <2>3, <2>4 DEF ChargeInv
  <2>5. CASE sender = 0 \/ exitTask[sender] = "done"
    BY <2>1, <2>2, <2>5 DEF ChargeInv
  <2> QED BY <2>4, <2>5
<1>5. CASE ServerJoined
  BY <1>5 DEF ServerJoined, procVars, ChargeInv
<1>6. CASE \/ StateChanged \/ ServerCancelled \/ IgnoreStart \/ AcceptStart
           \/ ListenerJoined \/ StartFails \/ ReportOnFails \/ IgnoreStop
           \/ AcceptRestart \/ RestartSendsStop \/ RestartSendsStart
           \/ AcceptCommand \/ SendsCommand \/ Answers
  <2>1. UNCHANGED <<spawned, exitTask, sender, serverHandle>>
    BY <1>6 DEF StateChanged, ServerCancelled, IgnoreStart, AcceptStart, ListenerJoined,
                StartFails, ReportOnFails, IgnoreStop, AcceptRestart, RestartSendsStop,
                RestartSendsStart, AcceptCommand, SendsCommand, Answers, ServerGoes,
                serverVars, procVars
  <2>3. token => token'
    BY <1>6 DEF StateChanged, ServerCancelled, IgnoreStart, AcceptStart, ListenerJoined,
                StartFails, ReportOnFails, IgnoreStop, AcceptRestart, RestartSendsStop,
                RestartSendsStart, AcceptCommand, SendsCommand, Answers, taskVars,
                runtimeVars
  <2>2. srv' # "reportOn" /\ srv # "joinServer" /\ (srv' = "drain" => token)
    BY <1>6 DEF StateChanged, ServerCancelled, IgnoreStart, AcceptStart, ListenerJoined,
                StartFails, ReportOnFails, IgnoreStop, AcceptRestart, RestartSendsStop,
                RestartSendsStart, AcceptCommand, SendsCommand, Answers, ServerGoes,
                Take, serverVars
  <2> QED BY <2>1, <2>2, <2>3 DEF ChargeInv
<1> QED BY <1>1, <1>2, <1>3, <1>4, <1>5, <1>6 DEF ServerStep, ServerTaskNext

(* ChargeInv is inductive: an exit task that has begun only moves on.       *)
LEMMA ChargeStep == TypeInv /\ ChargeInv /\ [Next]_vars => ChargeInv'
<1> SUFFICES ASSUME TypeInv, ChargeInv, [Next]_vars PROVE ChargeInv'
  OBVIOUS
<1> USE DEF TypeInv, TypeOK, ProcessTypeOK
<1>1. CASE UserStep \/ StdinStep \/ MainStep \/ StateStep \/ UNCHANGED vars
  <2>1. UNCHANGED <<procVars, srv, serverHandle, awaited>>
    BY <1>1 DEF UserStep, StdinStep, MainStep, ConsoleFrame, StateStep, vars, serverVars
  <2>2. token => token'
    BY <1>1 DEF UserStep, StdinStep, MainStep, ConsoleFrame, StdinCloses, ReadLine,
                StdinTaskNext, ConsoleSends, ReadReply, ReplyLost, MainCancels,
                MainReturns, StateStep, StateTaskNext, ApplyReport, StateTaskCancelled,
                vars, runtimeVars
  <2> QED BY <2>1, <2>2 DEF procVars, ChargeInv
<1>2. CASE ServerStep
  BY <1>2, ChargeServerTask
<1>3. ASSUME NEW i \in Inc, IncStep(i) \/ PeerStep(i) \/ JavaEnds(i) \/ JavaStops(i)
      PROVE  ChargeInv'
  <2>1. UNCHANGED <<token, spawned, srv, awaited, serverHandle>>
    BY <1>3, IncEffects
  <2>2. UNCHANGED sender /\ \A k \in Inc :
            \/ exitTask'[k] = exitTask[k]
            \/ exitTask[k] \notin {"none", "done"} /\ exitTask'[k] # "none"
    BY <1>3 DEF IncStep, PeerStep, JavaEnds, JavaStops, RestartStep, ShutdownStep, TimerStep,
                PingStep, PingerEnds, PipeStep, ExitStepOf, ListenerStep, ListenerEnds,
                ShutdownFrame, ProcessFrame, ListenerFrame, PipeTaskNext, PipeForwards,
                PipeCancelled, PipeClosed, ExitTaskNext, ExitStep, ExitObserved,
                ExitCancelled, GraceExpires, ReportsOff, PipeJoined, RestartJoined,
                ShutdownJoined, ProcessEnds, ProcessStops, procVars
  <2>3. sender # 0 => sender \in Inc
    BY RuntimeAssumption DEF Inc
  <2> QED BY <2>1, <2>2, <2>3 DEF ChargeInv
<1> QED BY <1>1, <1>2, <1>3 DEF Next

-----------------------------------------------------------------------------
(* The refinement. *)

(* What the invariants say together. *)
PromiseInv == TypeInv /\ KillInv /\ JoinInv /\ ChargeInv

(* The variables that the refinement mapping reads. *)
promiseVars == <<proc, spawned, sender, exitTask, console, srv>>

(* A step that changes none of them is not seen.                            *)
LEMMA Unseen == UNCHANGED promiseVars => UNCHANGED Promise!vars
  BY DEF promiseVars, Promise!vars, Settled, Over

(* The initial states of the wrapper map to those of Lifecycle.             *)
LEMMA PromiseInitial == Init => Promise!Init
  BY DEF Init, ProcessInit, ServerInit, ConsoleInit, Promise!Init, Promise!Server, Inc,
         Settled, Over

(* The console leaves, or is not seen.                                      *)
LEMMA ConsolePromise ==
    ASSUME PromiseInv, UserStep \/ StdinStep \/ MainStep
    PROVE  [Promise!Next]_(Promise!vars)
<1>1. UNCHANGED <<procVars, srv>>
  BY DEF UserStep, StdinStep, MainStep, ConsoleFrame
<1>2. CASE console' = "done" /\ console # "done"
  BY <1>1, <1>2 DEF procVars, Promise!Leave, Promise!Next, Settled, Over
<1>3. CASE console' = "done" <=> console = "done"
  BY <1>1, <1>3 DEF procVars, Promise!vars, Settled, Over
<1>4. console = "done" => console' = "done"
  BY DEF UserStep, StdinStep, MainStep, ConsoleFrame, StdinCloses, ReadLine,
         StdinTaskNext, ConsoleSends, ReadReply, ReplyLost, MainCancels, MainReturns
<1> QED BY <1>2, <1>3, <1>4

(* The server task launches, takes charge, finishes or breaks.              *)
LEMMA ServerPromise ==
    ASSUME PromiseInv, ServerStep
    PROVE  [Promise!Next]_(Promise!vars)
<1> USE DEF PromiseInv, TypeInv, TypeOK, ProcessTypeOK, ServerTypeOK
<1>0. console' = console
  BY DEF ServerStep, consoleVars
<1>1. CASE SpawnProcess
  <2>1. Promise!Launch
    BY <1>0, <1>1 DEF SpawnProcess, Promise!Launch, Settled, Over
  <2> QED BY <2>1 DEF Promise!Next
<1>2. CASE ReportsOn
  <2>1. spawned \in Inc /\ spawned # 0
    BY <1>2, RuntimeAssumption DEF ReportsOn, HandlersFit, Inc
  <2>2. ~Settled'
    BY <1>2, <2>1 DEF ReportsOn, Settled
  <2>3. Promise!TakeCharge
    BY <1>0, <1>2, <2>1, <2>2 DEF ReportsOn, ChargeInv, Promise!TakeCharge, Over
  <2> QED BY <2>3 DEF Promise!Next
<1>3. CASE Drained
  <2>1. srv = "drain" /\ console = "done"
    BY <1>3 DEF Drained, ChargeInv, KillInv
  <2>2. Settled
    BY <1>3, <2>1 DEF Drained, ChargeInv, Settled
  <2>3. Promise!Finish
    BY <1>0, <1>3, <2>1, <2>2 DEF Drained, TaskEnds, Promise!Finish, Settled, Over
  <2> QED BY <2>3 DEF Promise!Next
<1>4. CASE StartPanics
  <2>1. srv \in {"starting", "reportOn"} /\ TaskEnds("panicked") /\ StartMayPanic
    BY <1>4 DEF StartPanics
  <2>2. Promise!Break
    BY <1>0, <2>1 DEF TaskEnds, Promise!Break, Settled, Over
  <2> QED BY <2>2 DEF Promise!Next
<1>5. CASE \/ StateChanged \/ ServerCancelled \/ IgnoreStart \/ AcceptStart
           \/ ListenerJoined \/ StartFails \/ ReportOnFails \/ IgnoreStop
           \/ AcceptStop \/ SendsStop \/ ServerJoined
           \/ AcceptRestart \/ RestartSendsStop \/ RestartSendsStart
           \/ AcceptCommand \/ SendsCommand \/ Answers
  <2>1. UNCHANGED <<spawned, proc, exitTask, sender>>
    BY <1>5 DEF StateChanged, ServerCancelled, IgnoreStart, AcceptStart, ListenerJoined,
                StartFails, ReportOnFails, IgnoreStop, AcceptStop, SendsStop,
                ServerJoined, AcceptRestart, RestartSendsStop, RestartSendsStart,
                AcceptCommand, SendsCommand, Answers, procVars
  <2>2. {srv, srv'} \cap {"done", "panicked"} = {}
    BY <1>5 DEF StateChanged, ServerCancelled, IgnoreStart, AcceptStart, ListenerJoined,
                StartFails, ReportOnFails, IgnoreStop, AcceptStop, AwaitServer,
                SendsStop, ServerJoined, AcceptRestart, RestartSendsStop,
                RestartSendsStart, AcceptCommand, SendsCommand, Answers, ServerGoes,
                Take, serverVars
  <2> QED BY <1>0, <2>1, <2>2 DEF Promise!vars, Settled, Over
<1> QED BY <1>1, <1>2, <1>3, <1>4, <1>5 DEF ServerStep, ServerTaskNext

(* A server is asked or ends, is killed when the wrapper is being left, or  *)
(* its exit task settles it; nothing else that happens to it is seen.       *)
LEMMA IncPromise ==
    ASSUME PromiseInv, NEW i \in Inc,
           IncStep(i) \/ PeerStep(i) \/ JavaEnds(i) \/ JavaStops(i)
    PROVE  [Promise!Next]_(Promise!vars)
<1> USE DEF PromiseInv, TypeInv, TypeOK, ProcessTypeOK
<1>0. UNCHANGED <<console, spawned, srv, sender>> /\ i \in Promise!Server
  BY IncEffects
     DEF Promise!Server, Inc, IncStep, PeerStep, JavaEnds, JavaStops, RestartStep,
         ShutdownStep, TimerStep, PingStep, PingerEnds, PipeStep, ExitStepOf,
         ListenerStep, ListenerEnds, ShutdownFrame, ProcessFrame, ListenerFrame,
         PipeTaskNext, PipeForwards, PipeCancelled, PipeClosed, ExitTaskNext,
         ExitObserved, ExitCancelled, GraceExpires, ReportsOff, PipeJoined,
         RestartJoined, ShutdownJoined, ProcessEnds, ProcessStops, procVars
<1>1. CASE JavaEnds(i) \/ JavaStops(i)
  <2>1. Promise!End(i)
    BY <1>0, <1>1 DEF JavaEnds, JavaStops, ProcessFrame, ProcessEnds, ProcessStops,
                      Promise!End, Promise!Alive, Settled, Over
  <2> QED BY <1>0, <2>1 DEF Promise!Next
<1>2. CASE PipeStep(i)
  <2>1. UNCHANGED exitTask
        /\ \/ UNCHANGED proc
           \/ proc[i] = "running" /\ proc' = [proc EXCEPT ![i] = "stopping"]
    BY <1>2 DEF PipeStep, ProcessFrame, PipeTaskNext, PipeForwards, PipeCancelled, PipeClosed
  <2>2. CASE UNCHANGED proc
    BY <1>0, <2>1, <2>2, Unseen DEF promiseVars
  <2>3. CASE proc[i] = "running" /\ proc' = [proc EXCEPT ![i] = "stopping"]
    <3>1. Promise!Ask(i)
      BY <1>0, <2>1, <2>3 DEF Promise!Ask, Settled, Over
    <3> QED BY <1>0, <3>1 DEF Promise!Next
  <2> QED BY <2>1, <2>2, <2>3
<1>3. CASE ExitStepOf(i)
  <2>1. CASE GraceExpires(i)
    <3>1. console = "done"
      BY <2>1 DEF GraceExpires, ExitStep, KillInv
    <3>2. Promise!Kill(i)
      BY <1>0, <2>1, <3>1 DEF GraceExpires, ExitStep, Alive, Promise!Kill, Promise!Alive,
                              Settled, Over, Inc
    <3> QED BY <1>0, <3>2 DEF Promise!Next
  <2>2. CASE ShutdownJoined(i) /\ sender = i
    <3>1. ~Alive(i) /\ ~Settled /\ Settled' /\ UNCHANGED proc
      BY <1>0, <2>2 DEF ShutdownJoined, ExitStep, JoinInv, JoinInvOf, Settled, Inc
    <3>2. Promise!Settle
      BY <1>0, <2>2, <3>1 DEF Promise!Settle, Promise!Alive, Alive, Over
    <3> QED BY <3>2 DEF Promise!Next
  <2>3. CASE ExitTaskNext(i) /\ ~GraceExpires(i) /\ ~(ShutdownJoined(i) /\ sender = i)
    <3>1. UNCHANGED proc /\ exitTask[i] # "done"
      BY <2>3 DEF ExitTaskNext, ExitStep, ExitObserved, ExitCancelled, ReportsOff,
                  PipeJoined, RestartJoined, ShutdownJoined
    <3>2. sender = i => exitTask'[i] # "done"
      BY <2>3 DEF ExitTaskNext, ExitStep, ExitObserved, ExitCancelled, ReportsOff,
                  PipeJoined, RestartJoined, ShutdownJoined
    <3>3. sender \in Inc \ {i} => exitTask'[sender] = exitTask[sender]
      BY <2>3 DEF ExitTaskNext, ExitStep, ExitObserved, ExitCancelled, ReportsOff,
                  PipeJoined, RestartJoined, ShutdownJoined
    <3>4. Settled' <=> Settled
      BY <1>0, <3>1, <3>2, <3>3 DEF Settled, Inc
    <3> HIDE DEF PromiseInv
    <3>5. Settled' = Settled
      BY <3>4 DEF Settled
    <3> QED BY <1>0, <3>1, <3>5 DEF Promise!vars, Over
  <2> QED BY <1>3, <2>1, <2>2, <2>3 DEF ExitStepOf, ProcessFrame
<1>4. CASE UNCHANGED procVars
  BY <1>0, <1>4, Unseen DEF promiseVars, procVars
<1> QED BY <1>1, <1>2, <1>3, <1>4
        DEF IncStep, PeerStep, RestartStep, ShutdownStep, TimerStep, PingStep,
            PingerEnds, ListenerStep, ListenerEnds, ShutdownFrame, ListenerFrame

(* Every step of the wrapper is a step of Lifecycle, or is not seen.        *)
LEMMA PromiseStep == PromiseInv /\ [Next]_vars => [Promise!Next]_(Promise!vars)
<1> SUFFICES ASSUME PromiseInv, [Next]_vars PROVE [Promise!Next]_(Promise!vars)
  OBVIOUS
<1>1. CASE StateStep \/ UNCHANGED vars
  BY <1>1, Unseen DEF StateStep, vars, procVars, serverVars, consoleVars, promiseVars
<1>2. CASE UserStep \/ StdinStep \/ MainStep
  BY <1>2, ConsolePromise
<1>3. CASE ServerStep
  BY <1>3, ServerPromise
<1>4. ASSUME NEW i \in Inc, IncStep(i) \/ PeerStep(i) \/ JavaEnds(i) \/ JavaStops(i)
      PROVE  [Promise!Next]_(Promise!vars)
  BY <1>4, IncPromise
<1> QED BY <1>1, <1>2, <1>3, <1>4 DEF Next

(* The invariants of the modules before, together.                          *)
LEMMA PromiseInvariant == Spec => []PromiseInv
  BY TypeCorrect, KillInitial, KillStep, JoinInitial, JoinStep, ChargeInitial,
     ChargeStep, PTL DEF Spec, PromiseInv

(* The wrapper launches servers in order, sees the one in its charge         *)
(* through to its end before it finishes, and kills only on its way out      *)
(* (minecraft.rs:151-248, 309-317, 363-371): Ssw implements Lifecycle.       *)
THEOREM KeepsItsPromise == Spec => Promised
<1> QED BY PromiseInvariant, PromiseInitial, PromiseStep, PTL DEF Spec, Promised, Promise!Spec

-----------------------------------------------------------------------------
(* What a server that is waited for was told. A pipe forwards while its     *)
(* server lives and is in charge: only the exit task of a dead server       *)
(* cancels it, and it closes when another server takes charge. The server   *)
(* task only waits for the one that its command went to.                   *)

PipesOpen ==
    /\ \A i \in Inc : <<"pipe", i>> \in cancelled =>
          exitTask[i] \notin {"none", "wait", "grace", "report"}
    /\ sender # 0 /\ Alive(sender) => pipe[sender] = "running"

OneInCharge ==
    /\ serverHandle # 0 => serverHandle = sender
    /\ srv = "joinServer" => awaited = sender /\ sender # 0

ToldInv == PipesOpen /\ OneInCharge /\ AwaitedIsTold

(* Nobody is waited for at first.                                           *)
LEMMA ToldInitial == Init => ToldInv
  BY DEF Init, RuntimeInit, ProcessInit, ServerInit, ToldInv, PipesOpen, OneInCharge, AwaitedIsTold

(* A command in the pipe stays there when another one follows it.           *)
LEMMA SendStdinQueues ==
    ASSUME ProcessTypeOK, NEW i \in Inc, pipe[i] = "running", SendStdin(i, "stop")
    PROVE  StopQueued(i)'
<1>1. stdinq[i] \in Seq({"stop", "command"}) /\ stdinq'[i] = Append(stdinq[i], "stop")
  BY DEF ProcessTypeOK, SendStdin
<1>2. /\ Len(stdinq[i]) + 1 \in DOMAIN Append(stdinq[i], "stop")
      /\ Append(stdinq[i], "stop")[Len(stdinq[i]) + 1] = "stop"
  BY <1>1
<1> QED BY <1>1, <1>2 DEF StopQueued

(* What is taken from a pipe is a stop, or the stop is still behind it.     *)
LEMMA ForwardKeepsStop ==
    ASSUME ProcessTypeOK, NEW i \in Inc, StopQueued(i), stdinq[i] # <<>>,
           Head(stdinq[i]) # "stop", stdinq'[i] = Tail(stdinq[i])
    PROVE  StopQueued(i)'
<1>1. stdinq[i] \in Seq({"stop", "command"})
  BY DEF ProcessTypeOK
<1>2. PICK n \in DOMAIN stdinq[i] : stdinq[i][n] = "stop"
  BY DEF StopQueued
<1>3. n \in 1..Len(stdinq[i]) /\ n # 1
  BY <1>1, <1>2
<1>4. n - 1 \in DOMAIN Tail(stdinq[i]) /\ Tail(stdinq[i])[n - 1] = stdinq[i][n]
  BY <1>1, <1>3
<1> QED BY <1>2, <1>4 DEF StopQueued

(* The server task sends the stop before it waits, and to the server whose  *)
(* handle it then takes.                                                    *)
LEMMA ToldServerTask ==
    ASSUME TypeInv, JoinInv, ChargeInv, ToldInv, ServerStep
    PROVE  ToldInv'
<1> USE RuntimeAssumption DEF TypeInv, TypeOK, ProcessTypeOK, ServerTypeOK, ToldInv, Inc
<1>1. CASE SpawnProcess
  <2>1. UNCHANGED <<cancelled, exitTask, sender, pipe, serverHandle>> /\ srv' = "reportOn"
        /\ proc' = [proc EXCEPT ![spawned + 1] = "running"]
    BY <1>1 DEF SpawnProcess, taskVars, runtimeVars
  <2>2. sender # spawned + 1
    BY DEF ChargeInv
  <2>3. sender # 0 /\ Alive(sender)' => Alive(sender)
    BY <2>1, <2>2 DEF Alive
  <2> QED BY <2>1, <2>3 DEF PipesOpen, OneInCharge, AwaitedIsTold
<1>2. CASE ReportsOn
  <2>1. spawned \in Inc /\ exitTask[spawned] = "none"
    BY <1>2 DEF ReportsOn, HandlersFit, JoinInv
  <2>2. /\ UNCHANGED cancelled /\ sender' = spawned /\ serverHandle' = spawned
        /\ pipe' = [pipe EXCEPT ![spawned] = "running"] /\ srv' = "select"
        /\ exitTask' = [exitTask EXCEPT ![spawned] = "wait"]
    BY <1>2 DEF ReportsOn, runtimeVars
  <2> QED BY <2>1, <2>2 DEF PipesOpen, OneInCharge, AwaitedIsTold
<1>3. CASE Drained \/ StartPanics
  <2>1. /\ UNCHANGED <<cancelled, exitTask>> /\ sender' = 0 /\ serverHandle' = 0
        /\ srv' \in {"done", "panicked"}
    BY <1>3 DEF Drained, StartPanics, TaskEnds
  <2> QED BY <2>1 DEF PipesOpen, OneInCharge, AwaitedIsTold
<1>4. CASE AcceptStop
  <2>1. UNCHANGED <<cancelled, exitTask, sender, pipe, proc>>
    BY <1>4 DEF AcceptStop, procVars
  <2>2. /\ serverHandle' # 0 => serverHandle' = serverHandle
        /\ srv' # "joinServer"
    BY <1>4 DEF AcceptStop, AwaitServer, OneInCharge
  <2> QED BY <2>1, <2>2 DEF PipesOpen, OneInCharge, AwaitedIsTold, Alive
<1>5. CASE SendsStop
  <2>1. /\ UNCHANGED <<cancelled, exitTask, sender, pipe, proc>>
        /\ sender \in Inc /\ SendStdin(sender, "stop") /\ AwaitServer
    BY <1>5 DEF SendsStop, taskVars, runtimeVars, HandlersFit
  <2>2. /\ serverHandle' # 0 => serverHandle' = serverHandle
        /\ srv' = "joinServer" => awaited' = sender
        /\ serverHandle' # 0 => serverHandle = sender
    BY <2>1 DEF AwaitServer, OneInCharge
  <2>3. Alive(sender) => pipe[sender] = "running" /\ StopQueued(sender)'
    BY <2>1, SendStdinQueues DEF PipesOpen
  <2>4. srv' = "joinServer" => (Alive(awaited)' <=> Alive(sender)) /\ pipe'[awaited'] = pipe[sender]
    BY <2>1, <2>2 DEF Alive
  <2>5. srv' = "joinServer" => (StopQueued(awaited)' <=> StopQueued(sender)')
    BY <2>1, <2>2 DEF StopQueued
  <2>6. PipesOpen' /\ OneInCharge'
    BY <2>1, <2>2 DEF PipesOpen, OneInCharge, Alive
  <2> QED BY <2>3, <2>4, <2>5, <2>6 DEF AwaitedIsTold
<1>6. CASE \/ StateChanged \/ ServerCancelled \/ IgnoreStart \/ AcceptStart
           \/ ListenerJoined \/ StartFails \/ ReportOnFails \/ IgnoreStop
           \/ AcceptRestart \/ RestartSendsStop \/ RestartSendsStart
           \/ AcceptCommand \/ SendsCommand \/ Answers \/ ServerJoined
  <2>1. UNCHANGED <<exitTask, sender, serverHandle, pipe, proc>>
    BY <1>6 DEF StateChanged, ServerCancelled, IgnoreStart, AcceptStart, ListenerJoined,
                StartFails, ReportOnFails, IgnoreStop, AcceptRestart, RestartSendsStop,
                RestartSendsStart, AcceptCommand, SendsCommand, Answers, ServerJoined,
                ServerGoes, serverVars, procVars
  <2>2. srv' # "joinServer"
    BY <1>6 DEF StateChanged, ServerCancelled, IgnoreStart, AcceptStart, ListenerJoined,
                StartFails, ReportOnFails, IgnoreStop, AcceptRestart, RestartSendsStop,
                RestartSendsStart, AcceptCommand, SendsCommand, Answers, ServerJoined,
                ServerGoes, Take, serverVars
  <2>3. cancelled' = cancelled \/ Cancel("listener", listenerHandle)
    BY <1>6 DEF StateChanged, ServerCancelled, IgnoreStart, AcceptStart, ListenerJoined,
                StartFails, ReportOnFails, IgnoreStop, AcceptRestart, RestartSendsStop,
                RestartSendsStart, AcceptCommand, SendsCommand, Answers, ServerJoined,
                taskVars, runtimeVars
  <2>4. \A i \in Inc : <<"pipe", i>> \in cancelled' => <<"pipe", i>> \in cancelled
    BY <2>3 DEF Cancel
  <2> QED BY <2>1, <2>2, <2>4 DEF PipesOpen, OneInCharge, AwaitedIsTold, Alive
<1> QED BY <1>1, <1>2, <1>3, <1>4, <1>5, <1>6 DEF ServerStep, ServerTaskNext

(* The pipe forwards the stop, unless its server has died.                  *)
LEMMA ToldIncarnation ==
    ASSUME TypeInv, JoinInv, ToldInv, NEW i \in Inc,
           PipeStep(i) \/ ExitStepOf(i) \/ JavaEnds(i) \/ JavaStops(i)
    PROVE  ToldInv'
<1> USE RuntimeAssumption DEF TypeInv, TypeOK, ProcessTypeOK, ServerTypeOK, ToldInv
<1>0. UNCHANGED <<srv, awaited, serverHandle, sender>> /\ (sender # 0 => sender \in Inc)
  BY DEF PipeStep, ExitStepOf, JavaEnds, JavaStops, ProcessFrame, PipeTaskNext,
         PipeForwards, PipeCancelled, PipeClosed, ExitTaskNext, ExitObserved,
         ExitCancelled, GraceExpires, ReportsOff, PipeJoined, RestartJoined,
         ShutdownJoined, ProcessEnds, ProcessStops, serverVars, Inc
<1>1. OneInCharge'
  BY <1>0 DEF OneInCharge
<1>2. CASE PipeStep(i)
  <2>1. UNCHANGED <<cancelled, exitTask>>
    BY <1>2 DEF PipeStep, ProcessFrame, PipeTaskNext, PipeForwards, PipeCancelled,
                PipeClosed, taskVars, runtimeVars
  <2>2. ASSUME NEW k \in Inc PROVE Alive(k)' <=> Alive(k)
    BY <1>2 DEF PipeStep, ProcessFrame, PipeTaskNext, PipeForwards, PipeCancelled,
                PipeClosed, Alive
  <2>3. ASSUME NEW k \in Inc, k = sender, Alive(k) PROVE pipe'[k] = pipe[k]
    <3>1. i = k => ~PipeCancelled(i) /\ ~PipeClosed(i)
      BY <2>3 DEF PipeCancelled, PipeClosed, Cancelled, PipesOpen, JoinInv, JoinInvOf
    <3> QED BY <1>2, <3>1 DEF PipeStep, ProcessFrame, PipeTaskNext, PipeForwards, PipeCancelled,
                              PipeClosed
  <2>4. ASSUME NEW k \in Inc, k = sender, Alive(k), proc[k] = "stopping" \/ StopQueued(k)
        PROVE  proc'[k] = "stopping" \/ StopQueued(k)'
    <3>1. CASE i # k
      <4>1. stdinq'[k] = stdinq[k] /\ proc'[k] = proc[k]
        BY <1>2, <3>1 DEF PipeStep, ProcessFrame, PipeTaskNext, PipeForwards, PipeCancelled,
                          PipeClosed
      <4> QED BY <2>4, <4>1 DEF StopQueued
    <3>2. CASE i = k
      <4>1. PipeForwards(k)
        BY <1>2, <2>4, <3>2 DEF PipeStep, ProcessFrame, PipeTaskNext, PipeCancelled, PipeClosed,
                                Cancelled, PipesOpen, JoinInv, JoinInvOf
      <4>2. CASE proc[k] = "stopping" \/ Head(stdinq[k]) = "stop"
        BY <2>4, <4>1, <4>2 DEF PipeForwards, Alive
      <4>3. CASE proc[k] # "stopping" /\ Head(stdinq[k]) # "stop"
        BY <2>4, <4>1, <4>3, ForwardKeepsStop DEF PipeForwards
      <4> QED BY <4>2, <4>3
    <3> QED BY <3>1, <3>2
  <2> QED BY <1>0, <1>1, <2>1, <2>2, <2>3, <2>4 DEF PipesOpen, OneInCharge, AwaitedIsTold
<1>3. CASE ExitStepOf(i) \/ JavaEnds(i) \/ JavaStops(i)
  <2>1. UNCHANGED <<pipe, stdinq>>
    BY <1>3 DEF ExitStepOf, JavaEnds, JavaStops, ProcessFrame, ExitTaskNext, ExitObserved,
                ExitCancelled, GraceExpires, ReportsOff, PipeJoined, RestartJoined,
                ShutdownJoined, ProcessEnds, ProcessStops
  <2>2. ASSUME NEW k \in Inc
        PROVE  Alive(k)' => Alive(k) /\ proc'[k] = proc[k]
    BY <1>3 DEF ExitStepOf, JavaEnds, JavaStops, ProcessFrame, ExitTaskNext, ExitObserved,
                ExitCancelled, GraceExpires, ReportsOff, PipeJoined, RestartJoined,
                ShutdownJoined, ProcessEnds, ProcessStops, Alive
  <2>3. ASSUME NEW k \in Inc, <<"pipe", k>> \in cancelled'
        PROVE  exitTask'[k] \notin {"none", "wait", "grace", "report"}
    BY <1>3, <2>3
       DEF ExitStepOf, JavaEnds, JavaStops, ProcessFrame, ExitTaskNext, ExitStep, ExitObserved,
           ExitCancelled, GraceExpires, ReportsOff, PipeJoined, RestartJoined,
           ShutdownJoined, ProcessEnds, ProcessStops, Cancel, taskVars, runtimeVars, PipesOpen
  <2> QED BY <1>0, <1>1, <2>1, <2>2, <2>3 DEF PipesOpen, OneInCharge, AwaitedIsTold, StopQueued
<1> QED BY <1>2, <1>3

(* ToldInv is inductive.                                                    *)
LEMMA ToldStep == PromiseInv /\ ToldInv /\ [Next]_vars => ToldInv'
<1> SUFFICES ASSUME PromiseInv, ToldInv, [Next]_vars PROVE ToldInv'
  OBVIOUS
<1> USE DEF PromiseInv
<1>1. ASSUME UNCHANGED <<procVars, cancelled, srv, awaited, serverHandle>> PROVE ToldInv'
  BY <1>1 DEF procVars, ToldInv, PipesOpen, OneInCharge, AwaitedIsTold, Alive, StopQueued
<1>2. CASE UserStep \/ StdinStep \/ MainStep \/ StateStep \/ UNCHANGED vars
  <2>1. UNCHANGED <<procVars, cancelled, srv, awaited, serverHandle>>
    BY <1>2 DEF UserStep, StdinStep, MainStep, ConsoleFrame, StdinCloses, ReadLine,
                StdinTaskNext, ConsoleSends, ReadReply, ReplyLost, MainCancels,
                MainReturns, StateStep, StateTaskNext, ApplyReport, StateTaskCancelled,
                vars, runtimeVars, serverVars
  <2> QED BY <1>1, <2>1
<1>3. CASE ServerStep
  BY <1>3, ToldServerTask
<1>4. ASSUME NEW i \in Inc, IncStep(i) \/ PeerStep(i) \/ JavaEnds(i) \/ JavaStops(i)
      PROVE  ToldInv'
  <2>1. CASE PipeStep(i) \/ ExitStepOf(i) \/ JavaEnds(i) \/ JavaStops(i)
    BY <2>1, ToldIncarnation
  <2>2. CASE ~(PipeStep(i) \/ ExitStepOf(i) \/ JavaEnds(i) \/ JavaStops(i))
    <3>1. UNCHANGED <<procVars, cancelled, serverVars>>
      BY <1>4, <2>2
         DEF IncStep, PeerStep, RestartStep, ShutdownStep, TimerStep, PingStep, PingerEnds,
             ListenerStep, ListenerEnds, ShutdownFrame, ListenerFrame, RestartTaskNext,
             RestartNotify, RestartTick, RestartCancelled, RestartRequest, ShutdownTaskNext,
             SeeEmpty, SeeOccupied, TimerJoined, PingerLost, ShutdownCancelled, PingerJoined,
             TimerNext, TimerExpires, TimerCancelled, TimerRequestsStop, Ping,
             PingerCancelled, Bind, BindFails, ListenerRequestsStart, ListenerCancelled,
             Accept, ReadOther, ReadLogin, ListenerFails, runtimeVars
    <3> QED BY <1>1, <3>1 DEF serverVars
  <2> QED BY <1>4, <2>1, <2>2
<1> QED BY <1>2, <1>3, <1>4 DEF Next

(* A Stop waits only for a server that was told to stop, or that is dead    *)
(* already (minecraft.rs:34-65, 357-370).                                   *)
THEOREM AwaitedServerIsTold == Spec => []AwaitedIsTold
<1>1. ToldInv => AwaitedIsTold
  BY DEF ToldInv
<1> QED BY <1>1, ToldInitial, ToldStep, PromiseInvariant, PTL DEF Spec

=============================================================================

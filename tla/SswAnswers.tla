---------------------------- MODULE SswAnswers -----------------------------
(***************************************************************************)
(* The console and the server task talk over two channels: questions among *)
(* the requests, answers in a channel of one slot. Whatever capacity and   *)
(* interleaving, there is one question or one answer while the console     *)
(* waits, and neither otherwise.                                           *)
(***************************************************************************)
EXTENDS SswSafety, FiniteSetTheorems

(* Where the questions are among the requests. *)
Asks == {n \in DOMAIN requests : requests[n] = "IsRunning"}

AnswerInv ==
    /\ receiving \/ requests = <<>>
    /\ Len(replies) <= 1
    /\ replies # <<>> => console = "await" /\ Asks = {}
    /\ Asks # {} => console = "await"
    /\ \A m, n \in Asks : m = n
    /\ console = "await" /\ receiving => Asks # {} \/ replies # <<>>

(* A channel of one slot that is not empty holds one answer.                *)
LEMMA OneSlot ==
    ASSUME NEW S, NEW s \in Seq(S), s # <<>>, Len(s) <= 1
    PROVE  Len(s) = 1 /\ Tail(s) = <<>>
<1>1. Len(s) \in Nat /\ (s = <<>> <=> Len(s) = 0)
  OBVIOUS
<1>2. Len(s) = 1
  BY <1>1
<1>3. Tail(s) \in Seq(S) /\ Len(Tail(s)) = 0
  BY <1>2, HeadTailProperties
<1> QED BY <1>2, <1>3, EmptySeq

(* A request that is no question leaves the questions where they are; a      *)
(* question goes to the end.                                                *)
LEMMA SendAsks ==
    ASSUME RuntimeTypeOK, NEW request \in ServerTaskRequest, receiving, Send(request)
    PROVE  /\ request # "IsRunning" => Asks' = Asks
           /\ request = "IsRunning" => Asks' = Asks \cup {Len(requests) + 1}
<1>1. requests \in Seq(ServerTaskRequest) /\ requests' = Append(requests, request)
  BY DEF Send, RuntimeTypeOK
<1>2. /\ DOMAIN requests' = DOMAIN requests \cup {Len(requests) + 1}
      /\ \A n \in DOMAIN requests : requests'[n] = requests[n]
      /\ requests'[Len(requests) + 1] = request
      /\ Len(requests) + 1 \notin DOMAIN requests
  BY <1>1
<1> QED BY <1>2 DEF Asks

(* Taking the first request moves the questions forward, and takes the one  *)
(* in front if it is a question.                                            *)
LEMMA TakeAsks ==
    ASSUME RuntimeTypeOK, NEW request, Take(request)
    PROVE  /\ \A n \in Asks' : n + 1 \in Asks /\ n > 0
           /\ request # "IsRunning" => \A n \in Asks : n - 1 \in Asks'
           /\ request = "IsRunning" => 1 \in Asks
<1>1. /\ requests \in Seq(ServerTaskRequest) /\ requests # <<>>
      /\ requests' = Tail(requests) /\ requests[1] = request
  BY DEF RuntimeTypeOK, Take
<1>2. /\ DOMAIN requests = 1..Len(requests) /\ Len(requests) \in Nat \ {0}
      /\ DOMAIN requests' = 1..(Len(requests) - 1)
      /\ \A n \in 1..(Len(requests) - 1) : requests'[n] = requests[n + 1]
  BY <1>1, HeadTailProperties
<1>3. ASSUME NEW n \in Asks' PROVE n + 1 \in Asks /\ n > 0
  BY <1>2, <1>3 DEF Asks
<1>4. ASSUME request # "IsRunning", NEW n \in Asks PROVE n - 1 \in Asks'
  <2>1. n \in 2..Len(requests)
    BY <1>1, <1>2, <1>4 DEF Asks
  <2>2. n - 1 \in 1..(Len(requests) - 1) /\ (n - 1) + 1 = n
    BY <1>2, <2>1
  <2> QED BY <1>2, <1>4, <2>2 DEF Asks
<1>5. request = "IsRunning" => 1 \in Asks
  BY <1>1, <1>2 DEF Asks
<1> QED BY <1>3, <1>4, <1>5

(* A send of anything but a question is not seen here.                      *)
LEMMA SendKeepsAnswers ==
    ASSUME TypeInv, AnswerInv, NEW request \in ServerTaskRequest \ {"IsRunning"},
           Send(request), UNCHANGED <<receiving, replies>>,
           console' = "await" <=> console = "await"
    PROVE  AnswerInv'
<1>1. Asks' = Asks /\ (receiving' \/ requests' = <<>>)
  BY SendAsks DEF Send, AnswerInv, Asks, TypeInv, TypeOK
<1> QED BY <1>1 DEF AnswerInv

(* Taking any other request keeps the question that is queued.              *)
LEMMA TakeKeepsAnswers ==
    ASSUME TypeInv, AnswerInv, NEW request, request # "IsRunning", Take(request),
           UNCHANGED <<replies, console>>
    PROVE  AnswerInv'
<1>1. /\ \A n \in Asks' : n + 1 \in Asks /\ n > 0
      /\ \A n \in Asks : n - 1 \in Asks'
  BY TakeAsks DEF TypeInv, TypeOK
<1>2. \A n \in Asks' : n \in Nat
  BY DEF Asks, Take, TypeInv, TypeOK, RuntimeTypeOK
<1>3. \A m, n \in Asks' : m = n
  BY <1>1, <1>2 DEF AnswerInv
<1>4. receiving' = receiving /\ receiving
  BY DEF Take, AnswerInv
<1> QED BY <1>1, <1>3, <1>4 DEF AnswerInv

(* Nothing is asked at first.                                               *)
LEMMA AnswerInitial == Init => AnswerInv
  BY DEF Init, RuntimeInit, ServerInit, ConsoleInit, AnswerInv, Asks

(* The server task takes the question and answers it in one step.           *)
LEMMA AnswerServerTask ==
    ASSUME TypeInv, AnswerInv, ServerStep
    PROVE  AnswerInv'
<1>0. console' = console
  BY DEF ServerStep, consoleVars
<1>1. CASE Answers
  <2>1. 1 \in Asks /\ \A n \in Asks' : n + 1 \in Asks /\ n > 0 /\ n \in Nat
    BY <1>1, TakeAsks DEF Answers, Take, Asks, TypeInv, TypeOK, RuntimeTypeOK
  <2>2. Asks' = {}
    BY <2>1 DEF AnswerInv
  <2>3. replies = <<>> /\ console = "await"
    BY <2>1 DEF AnswerInv
  <2>4. replies' = <<ServerIsRunning>>
    BY <1>1, <2>3 DEF Answers
  <2>5. replies' # <<>> /\ Len(replies') <= 1
    BY <2>4
  <2>6. receiving'
    BY <1>1 DEF Answers, Take, AnswerInv
  <2> QED BY <1>0, <2>2, <2>3, <2>5, <2>6 DEF AnswerInv
<1>2. CASE \/ IgnoreStart \/ AcceptStart \/ IgnoreStop \/ AcceptStop \/ AcceptRestart
           \/ AcceptCommand
  <2>1. replies' = replies
        /\ \E request \in ServerTaskRequest \ {"IsRunning"} : Take(request)
    BY <1>2 DEF IgnoreStart, AcceptStart, IgnoreStop, AcceptStop, AcceptRestart,
                AcceptCommand, ServerTaskRequest, serverVars
  <2> QED BY <1>0, <2>1, TakeKeepsAnswers
<1>3. CASE RestartSendsStop \/ RestartSendsStart
  <2>1. UNCHANGED <<receiving, replies>>
        /\ \E request \in ServerTaskRequest \ {"IsRunning"} : Send(request)
    BY <1>3 DEF RestartSendsStop, RestartSendsStart, ServerTaskRequest
  <2> QED BY <1>0, <2>1, SendKeepsAnswers
<1>4. CASE Drained \/ StartPanics
  BY <1>0, <1>4 DEF Drained, StartPanics, TaskEnds, AnswerInv, Asks
<1>5. CASE \/ StateChanged \/ ServerCancelled \/ ListenerJoined \/ StartFails
           \/ SpawnProcess \/ ReportsOn \/ ReportOnFails \/ SendsStop \/ ServerJoined
           \/ SendsCommand
  <2>1. UNCHANGED <<requests, receiving, replies>>
    BY <1>5 DEF StateChanged, ServerCancelled, ListenerJoined, StartFails, SpawnProcess,
                ReportsOn, ReportOnFails, SendsStop, ServerJoined, SendsCommand,
                runtimeVars, taskVars, serverVars
  <2> QED BY <1>0, <2>1 DEF AnswerInv, Asks
<1> QED BY <1>1, <1>2, <1>3, <1>4, <1>5 DEF ServerStep, ServerTaskNext

(* The console asks only when it is not waiting, and waits until it has     *)
(* read the answer, or the server task is gone.                             *)
LEMMA AnswerConsole ==
    ASSUME TypeInv, AnswerInv, StdinStep
    PROVE  AnswerInv'
<1>1. ASSUME NEW from \in ConsolePC \ {"await"}, NEW to \in ConsolePC \ {"await"},
             NEW request \in ServerTaskRequest \ {"IsRunning"},
             ConsoleSends(from, request, to)
      PROVE  AnswerInv'
  BY <1>1, SendKeepsAnswers DEF ConsoleSends
<1>2. CASE ConsoleSends("ask", "IsRunning", "await")
  <2>1. console # "await" /\ Asks = {} /\ replies = <<>> /\ console' = "await"
        /\ UNCHANGED <<receiving, replies>>
    BY <1>2 DEF ConsoleSends, AnswerInv
  <2>2. CASE receiving
    <3>1. Asks' = {Len(requests) + 1}
      BY <1>2, <2>1, <2>2, SendAsks DEF ConsoleSends, ServerTaskRequest, TypeInv, TypeOK
    <3> QED BY <2>1, <2>2, <3>1 DEF AnswerInv
  <2>3. CASE ~receiving
    BY <1>2, <2>1, <2>3 DEF ConsoleSends, Send, AnswerInv, Asks
  <2> QED BY <2>2, <2>3
<1>3. CASE ReadReply
  <2>1. Asks = {} /\ UNCHANGED <<requests, receiving>> /\ console' # "await"
    BY <1>3 DEF ReadReply, AnswerInv, runtimeVars
  <2>2. Tail(replies) = <<>>
    BY <1>3, OneSlot DEF ReadReply, TypeInv, TypeOK, ServerTypeOK, AnswerInv
  <2>3. replies' = <<>>
    BY <1>3, <2>2 DEF ReadReply
  <2> QED BY <2>1, <2>3 DEF AnswerInv, Asks
<1>4. CASE ReplyLost
  BY <1>4 DEF ReplyLost, runtimeVars, AnswerInv, Asks
<1> QED BY <1>1, <1>2, <1>3, <1>4
        DEF StdinStep, ConsoleFrame, StdinTaskNext, ConsolePC, ServerTaskRequest

(* AnswerInv is inductive: nobody else asks or answers.                     *)
LEMMA AnswerStep == TypeInv /\ AnswerInv /\ [Next]_vars => AnswerInv'
<1> SUFFICES ASSUME TypeInv, AnswerInv, [Next]_vars PROVE AnswerInv'
  OBVIOUS
<1>1. CASE UserStep \/ MainStep \/ StateStep \/ UNCHANGED vars
  <2>1. UNCHANGED <<requests, receiving, replies>>
    <3>1. CASE UserStep \/ MainStep
      BY <3>1 DEF UserStep, MainStep, ConsoleFrame, StdinCloses, ReadLine, MainCancels,
                  MainReturns, runtimeVars
    <3>2. CASE StateStep \/ UNCHANGED vars
      BY <3>2 DEF StateStep, StateTaskNext, ApplyReport, StateTaskCancelled, vars,
                  runtimeVars, serverVars
    <3> QED BY <1>1, <3>1, <3>2
  <2>2. console' = "await" <=> console = "await"
    BY <1>1, ConsoleAssumption
       DEF UserStep, MainStep, ConsoleFrame, StdinCloses, ReadLine, MainCancels,
           MainReturns, StateStep, vars, consoleVars, LineKind
  <2> QED BY <2>1, <2>2 DEF AnswerInv, Asks
<1>2. CASE StdinStep
  BY <1>2, AnswerConsole
<1>3. CASE ServerStep
  BY <1>3, AnswerServerTask
<1>4. ASSUME NEW i \in Inc, IncStep(i) \/ PeerStep(i) \/ JavaEnds(i) \/ JavaStops(i)
      PROVE  AnswerInv'
  <2>1. UNCHANGED <<receiving, replies, console>>
    BY <1>4, IncEffects
  <2>2. CASE UNCHANGED requests
    BY <2>1, <2>2 DEF AnswerInv, Asks
  <2>3. CASE \E request \in {"Command", "Restart", "Stop", "Start"} : Send(request)
    BY <2>1, <2>3, SendKeepsAnswers DEF ServerTaskRequest
  <2> QED BY <1>4, <2>2, <2>3, IncEffects
<1> QED BY <1>1, <1>2, <1>3, <1>4 DEF Next

(* While the console waits there is one question or one answer, and else     *)
(* neither (main.rs:105-119, minecraft.rs:383-387): an answer is never taken *)
(* for that of another question, and finds its one slot free.               *)
THEOREM QuestionsAreAnsweredInTurn == Spec => []OneAnswerPerQuestion
<1>1. TypeInv /\ AnswerInv => OneAnswerPerQuestion
  <2> SUFFICES ASSUME TypeInv, AnswerInv, receiving
               PROVE  Cardinality(Asks) + Len(replies) = IF console = "await" THEN 1 ELSE 0
    BY DEF OneAnswerPerQuestion, Asked, Asks
  <2>0. replies \in Seq(BOOLEAN) /\ Len(<<>>) = 0
    BY DEF TypeInv, TypeOK, ServerTypeOK
  <2>1. CASE Asks = {}
    <3>1. Cardinality(Asks) = 0
      BY <2>1, FS_EmptySet
    <3>2. replies # <<>> <=> console = "await"
      BY <2>1 DEF AnswerInv
    <3>3. replies # <<>> => Len(replies) = 1
      BY <2>0, OneSlot DEF AnswerInv
    <3> QED BY <2>0, <3>1, <3>2, <3>3
  <2>2. CASE Asks # {}
    <3>1. PICK n : Asks = {n}
      BY <2>2 DEF AnswerInv
    <3>2. Cardinality(Asks) = 1
      BY <3>1, FS_Singleton
    <3> QED BY <2>0, <2>2, <3>2 DEF AnswerInv
  <2> QED BY <2>1, <2>2
<1> QED BY <1>1, AnswerInitial, AnswerStep, TypeCorrect, PTL DEF Spec

=============================================================================

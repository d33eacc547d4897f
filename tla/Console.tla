------------------------------ MODULE Console ------------------------------
(***************************************************************************)
(* The console: the stdin task, which turns the lines a user types into    *)
(* requests, and main, which waits for the stdin task to end, cancels the  *)
(* root token and waits for the server task. When main returns, the        *)
(* runtime drops every task that is left.                                  *)
(***************************************************************************)
EXTENDS ServerTask

CONSTANTS Lines,     (* the kinds of line the user types                       *)
          MaxLines   (* bound: how many lines                                  *)

LineKind == {"start", "stop", "exit", "other"}

ASSUME ConsoleAssumption == Lines \subseteq LineKind /\ MaxLines \in Nat

VARIABLES console,  (* where the stdin task is                              *)
          typed,    (* lines read so far                                     *)
          main      (* what main waits for                                   *)

consoleVars == <<console, typed, main>>

ConsolePC == {"read", "sendStart", "sendStop", "sendKill", "ask", "await",
              "sendCommand", "done"}

ConsoleTypeOK ==
    /\ console \in ConsolePC
    /\ typed \in 0..MaxLines
    /\ main \in {"stdin", "server", "returned"}

ConsoleInit ==
    /\ console = "read"
    /\ typed = 0
    /\ main = "stdin"

(* Any line that is not a command of the wrapper is meant for the server. *)
ReadLine(line) ==
    /\ console = "read"
    /\ typed < MaxLines
    /\ typed' = typed + 1
    /\ console' = CASE line = "start" -> "sendStart"
                    [] line = "stop"  -> "sendStop"
                    [] line = "exit"  -> "sendKill"
                    [] line = "other" -> "ask"
    /\ UNCHANGED <<main, runtimeVars, replies>>

StdinCloses ==
    /\ console = "read"
    /\ console' = "done"
    /\ UNCHANGED <<typed, main, runtimeVars, replies>>

ConsoleSends(from, request, to) ==
    /\ console = from
    /\ Send(request)
    /\ console' = to
    /\ UNCHANGED <<typed, main, receiving, token, cancelled, replies>>

(* The line is passed on if the server was running when it was asked. *)
ReadReply ==
    /\ console = "await"
    /\ replies # <<>>
    /\ replies' = Tail(replies)
    /\ console' = IF Head(replies) THEN "sendCommand" ELSE "read"
    /\ UNCHANGED <<typed, main, runtimeVars>>

(* A server task that has ended closes the channel of answers, and counts as *)
(* a server that does not run.                                             *)
ReplyLost ==
    /\ console = "await"
    /\ replies = <<>>
    /\ ~receiving
    /\ console' = "read"
    /\ UNCHANGED <<typed, main, runtimeVars, replies>>

StdinTaskNext ==
    \/ ConsoleSends("sendStart", "Start", "read")
    \/ ConsoleSends("sendStop", "Stop", "read")
    \/ ConsoleSends("sendKill", "Kill", "done")
    \/ ConsoleSends("ask", "IsRunning", "await")
    \/ ConsoleSends("sendCommand", "Command", "read")
    \/ ReadReply \/ ReplyLost

MainCancels ==
    /\ main = "stdin"
    /\ console = "done"
    /\ main' = "server"
    /\ token' = TRUE
    /\ UNCHANGED <<console, typed, requests, receiving, cancelled, replies>>

MainReturns ==
    /\ main = "server"
    /\ srv \in {"done", "panicked"}
    /\ main' = "returned"
    /\ UNCHANGED <<console, typed, runtimeVars, replies>>

=============================================================================

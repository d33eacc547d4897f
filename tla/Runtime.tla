------------------------------ MODULE Runtime ------------------------------
(***************************************************************************)
(* What every task of the wrapper shares: the bounded request channel of   *)
(* the server task, and the tree of cancellation tokens.                   *)
(*                                                                         *)
(* A launch of the Minecraft server is an incarnation, numbered from 1 in  *)
(* launch order; 0 stands for "none" wherever the code has an Option.      *)
(***************************************************************************)
EXTENDS Naturals, Sequences, FiniteSets

CONSTANTS QueueCap,   (* capacity of the request channel (5 in the source)   *)
          MaxStarts   (* bound: how many times the server is launched        *)

ASSUME RuntimeAssumption ==
    /\ QueueCap \in Nat \ {0}
    /\ MaxStarts \in Nat \ {0}

VARIABLES requests,   (* ServerTaskRequests sent and not yet received        *)
          receiving,  (* FALSE once the server task has dropped its receiver *)
          token,      (* is the root token, made in main, cancelled?         *)
          cancelled   (* tokens cancelled by themselves, as <<kind, number>> *)

runtimeVars == <<requests, receiving, token, cancelled>>

Inc == 1..MaxStarts

ServerTaskRequest == {"Start", "Stop", "Restart", "Kill", "IsRunning", "Command"}

TokenKind == {"pipe", "restart", "shutdown", "listener"}

RuntimeTypeOK ==
    /\ requests \in Seq(ServerTaskRequest)
    /\ receiving \in BOOLEAN
    /\ token \in BOOLEAN
    /\ cancelled \subseteq (TokenKind \X Inc)

RuntimeInit ==
    /\ requests = <<>>
    /\ receiving = TRUE
    /\ token = FALSE
    /\ cancelled = {}

(* The token of a stdin pipe is a root of its own; every other one descends *)
(* from the token that main cancels.                                        *)
Cancelled(kind, i) == <<kind, i>> \in cancelled \/ (kind # "pipe" /\ token)

Cancel(kind, i) == cancelled' = cancelled \cup {<<kind, i>>}

(* A send waits for a free slot; once the receiver is gone it fails at once, *)
(* and every caller logs the failure and goes on.                            *)
Send(request) ==
    \/ /\ receiving
       /\ Len(requests) < QueueCap
       /\ requests' = Append(requests, request)
    \/ /\ ~receiving
       /\ UNCHANGED requests

=============================================================================

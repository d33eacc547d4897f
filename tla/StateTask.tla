----------------------------- MODULE StateTask -----------------------------
(***************************************************************************)
(* The task that holds the server state: reports of On and Off come in     *)
(* through a bounded channel, and the latest value goes out through a      *)
(* watch cell that coalesces, so its one observer (the server task) may    *)
(* miss values and may read a value that reports in flight make stale.     *)
(***************************************************************************)
EXTENDS Runtime

VARIABLES stateTask,  (* "running" or "done"                                 *)
          reports,    (* the channel of state reports                        *)
          watch,      (* the value in the watch cell                         *)
          unseen      (* has the cell changed since the observer looked?     *)

stateVars == <<stateTask, reports, watch, unseen>>

ServerState == {"On", "Off"}
ReportCap == 2

StateTypeOK ==
    /\ stateTask \in {"running", "done"}
    /\ reports \in Seq(ServerState)
    /\ watch \in ServerState
    /\ unseen \in BOOLEAN

(* The first value of a watch channel counts as seen. *)
StateInit ==
    /\ stateTask = "running"
    /\ reports = <<>>
    /\ watch = "Off"
    /\ unseen = FALSE

Report(state) ==
    /\ stateTask = "running"
    /\ Len(reports) < ReportCap
    /\ reports' = Append(reports, state)
    /\ UNCHANGED <<stateTask, watch, unseen>>

(* The receiver died with the state task: the send fails. *)
ReportFails ==
    /\ stateTask = "done"
    /\ UNCHANGED stateVars

(* send_if_modified wakes the observer only when the value differs. *)
ApplyReport ==
    /\ stateTask = "running"
    /\ reports # <<>>
    /\ reports' = Tail(reports)
    /\ watch' = Head(reports)
    /\ unseen' = (unseen \/ Head(reports) # watch)
    /\ UNCHANGED <<stateTask, runtimeVars>>

StateTaskCancelled ==
    /\ stateTask = "running"
    /\ token
    /\ stateTask' = "done"
    /\ reports' = <<>>
    /\ UNCHANGED <<watch, unseen, runtimeVars>>

StateTaskNext == ApplyReport \/ StateTaskCancelled

(* The value the cell ends with if no further report is sent. *)
LatestReport == IF reports = <<>> THEN watch ELSE reports[Len(reports)]

=============================================================================

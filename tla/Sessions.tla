------------------------------ MODULE Sessions -----------------------------
(***************************************************************************)
(* The program from run to run: what it leaves in its files when it ends,  *)
(* wherever it ends, and what the next run makes of them.                  *)
(***************************************************************************)
EXTENDS LogRotation, Launch

CONSTANT Manifests  (* the manifests that may be there, as how much they have *)

ASSUME ManifestsAssumption == Manifests \subseteq 0..Len(Release)

vars == <<logVars, launchVars>>

TypeOK == LogTypeOK /\ LaunchTypeOK

Init == LogInit /\ LaunchInit(Manifests)

LogStep ==
    /\ BeginSession \/ NothingToRotate \/ CreateArchive \/ FinishArchive \/ RemoveLatest
       \/ WriteLine \/ EndSession \/ ClockChanges
    /\ UNCHANGED launchVars

Begin == CreateLatest /\ New

LaunchStep ==
    /\ logging = "logging"
    /\ StartStep
    /\ UNCHANGED logVars

UserStep == Edit /\ UNCHANGED logVars

Next == LogStep \/ Begin \/ LaunchStep \/ UserStep

Spec == Init /\ [][Next]_vars

=============================================================================

---------------------------- MODULE LogRotation ----------------------------
(***************************************************************************)
(* The log files over many runs of the program, called sessions here: each *)
(* one archives the log that it finds, under the name of a second of local *)
(* time, and then writes one of its own. It may end after any step, by a   *)
(* crash or by an error of the file system.                                *)
(***************************************************************************)
EXTENDS Naturals

CONSTANTS Second,      (* the seconds of local time, which is also set back   *)
          MaxSessions  (* bound: how often the program is run                 *)

ASSUME LogAssumption == MaxSessions \in Nat

VARIABLES clock,    (* whose time the file system keeps of a log             *)
          now,      (* the local time                                        *)
          session,  (* the session that runs, or that ran last               *)
          logging,  (* where it is                                           *)
          latest,   (* whose log latest.log is; 0 if there is none           *)
          created,  (* and when it was created                               *)
          modified, (* and last written to                                   *)
          name,     (* the archive that is being written                     *)
          archive,  (* of each name: whose log it has; 0 if there is none    *)
          whole,    (* the names whose archive is complete                   *)
          logged,   (* history: the sessions that had a log                  *)
          named     (* history: which logs were archived under which names   *)

latestVars == <<latest, created, modified>>
archiveVars == <<name, archive, whole, named>>
logVars == <<clock, now, session, logging, latestVars, archiveVars, logged>>

Session == 1..MaxSessions

LogTypeOK ==
    /\ clock \in {"created", "modified", "none"}
    /\ {now, created, modified, name} \subseteq Second
    /\ session \in 0..MaxSessions
    /\ logging \in {"ended", "rotate", "write", "remove", "create", "logging"}
    /\ latest \in 0..MaxSessions
    /\ archive \in [Second -> 0..MaxSessions]
    /\ whole \subseteq Second
    /\ logged \subseteq Session
    /\ named \subseteq (Session \X Second)

LogInit ==
    /\ clock \in {"created", "modified", "none"}
    /\ now \in Second
    /\ created = now /\ modified = now /\ name = now
    /\ session = 0
    /\ logging = "ended"
    /\ latest = 0
    /\ archive = [n \in Second |-> 0]
    /\ whole = {}
    /\ logged = {}
    /\ named = {}

BeginSession ==
    /\ logging = "ended"
    /\ session < MaxSessions
    /\ session' = session + 1
    /\ logging' = "rotate"
    /\ UNCHANGED <<clock, now, latestVars, archiveVars, logged>>

(* Mutant: the archive is named after the time it is made at. *)
DatedNow ==
    now

(* The time that the archive is named after, and the current one if the    *)
(* file system tells none.                                                 *)
CreateTime ==
    IF clock = "created" THEN created
    ELSE IF clock = "modified" THEN modified
    ELSE now

NothingToRotate ==
    /\ logging = "rotate"
    /\ latest = 0
    /\ logging' = "create"
    /\ UNCHANGED <<clock, now, session, latestVars, archiveVars, logged>>

(* Mutant: a log that is not there is archived, too. *)
CreateArchiveOfNothing ==
    /\ logging = "rotate"
    /\ name' = CreateTime
    /\ archive' = [archive EXCEPT ![CreateTime] = latest]
    /\ whole' = whole \ {CreateTime}
    /\ named' = named \cup {<<latest, CreateTime>>}
    /\ logging' = "write"
    /\ UNCHANGED <<clock, now, session, latestVars, logged>>

(* Creating the archive empties one of the same name. *)
CreateArchive ==
    /\ logging = "rotate"
    /\ latest # 0
    /\ name' = CreateTime
    /\ archive' = [archive EXCEPT ![CreateTime] = latest]
    /\ whole' = whole \ {CreateTime}
    /\ named' = named \cup {<<latest, CreateTime>>}
    /\ logging' = "write"
    /\ UNCHANGED <<clock, now, session, latestVars, logged>>

(* Mutant: the end of the archive is not written. *)
LeaveUnfinished ==
    /\ logging = "write"
    /\ logging' = "remove"
    /\ UNCHANGED <<clock, now, session, latestVars, archiveVars, logged>>

FinishArchive ==
    /\ logging = "write"
    /\ whole' = whole \cup {name}
    /\ logging' = "remove"
    /\ UNCHANGED <<clock, now, session, latestVars, name, archive, named, logged>>

RemoveLatest ==
    /\ logging = "remove"
    /\ latest' = 0
    /\ logging' = "create"
    /\ UNCHANGED <<clock, now, session, created, modified, archiveVars, logged>>

CreateLatest ==
    /\ logging = "create"
    /\ latest' = session
    /\ created' = now /\ modified' = now
    /\ logged' = logged \cup {session}
    /\ logging' = "logging"
    /\ UNCHANGED <<clock, now, session, archiveVars>>

WriteLine ==
    /\ logging = "logging"
    /\ modified' = now
    /\ UNCHANGED <<clock, now, session, logging, latest, created, archiveVars, logged>>

EndSession ==
    /\ logging # "ended"
    /\ logging' = "ended"
    /\ UNCHANGED <<clock, now, session, latestVars, archiveVars, logged>>

ClockChanges ==
    /\ now' \in Second
    /\ UNCHANGED <<clock, session, logging, latestVars, archiveVars, logged>>

InitLogging ==
    NothingToRotate \/ CreateArchive \/ FinishArchive \/ RemoveLatest \/ CreateLatest

LogNext == BeginSession \/ InitLogging \/ WriteLine \/ EndSession \/ ClockChanges

LogSpec == LogInit /\ [][LogNext]_logVars

-----------------------------------------------------------------------------
Kept(s) == latest = s \/ \E n \in whole : archive[n] = s

SharesName(s) ==
    \E t \in logged, n \in Second : t # s /\ <<s, n>> \in named /\ <<t, n>> \in named

(* No log is lost to a crash or an error, whenever it happens: a log is in  *)
(* latest.log or whole in an archive, but for one whose archive was named  *)
(* by the same second as another's (logging.rs:45-71).                     *)
LogsAreKept == \A s \in logged : Kept(s) \/ SharesName(s)

(* An archive that a crash left unfinished is written again by the next    *)
(* session, before it logs, as long as the file system keeps a time of the *)
(* log to name it by (logging.rs:52-63).                                   *)
ArchivesAreWhole ==
    (logging = "logging" /\ clock # "none") =>
        \A n \in Second : archive[n] # 0 => n \in whole

=============================================================================

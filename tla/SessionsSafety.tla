--------------------------- MODULE SessionsSafety --------------------------
(***************************************************************************)
(* Proofs about the files that outlive a run of the program: the logs, and *)
(* the settings with their patches.                                        *)
(***************************************************************************)
EXTENDS LaunchSafety, TLAPS

-----------------------------------------------------------------------------
(* The logs. *)

(* What a rotation has done so far, seen from its next step. *)
Rotated ==
    /\ latest # 0 => latest \in logged
    /\ logging \in {"write", "remove"} => latest # 0 /\ archive[name] = latest
    /\ logging = "remove" => name \in whole
    /\ logging = "create" => latest = 0
    /\ logging # "ended" => session \in Session

(* Every archive is that of a log that was named so. *)
ArchivesAreNamed ==
    \A n \in Second : archive[n] # 0 => archive[n] \in logged /\ <<archive[n], n>> \in named

LogInv == LogTypeOK /\ Rotated /\ ArchivesAreNamed /\ LogsAreKept

(* The log variables are touched by the actions of the rotation alone. *)
LEMMA LogSteps == [Next]_vars => [LogNext]_logVars
<1> SUFFICES ASSUME [Next]_vars PROVE [LogNext]_logVars
  OBVIOUS
<1>1. CASE LogStep
  BY <1>1 DEF LogStep, LogNext, InitLogging
<1>2. CASE Begin
  BY <1>2 DEF Begin, LogNext, InitLogging
<1>3. CASE LaunchStep
  BY <1>3 DEF LaunchStep
<1>4. CASE UserStep
  BY <1>4 DEF UserStep
<1>5. CASE UNCHANGED vars
  BY <1>5 DEF vars
<1> QED
  BY <1>1, <1>2, <1>3, <1>4, <1>5 DEF Next

(* Before the first run there is no log. *)
LEMMA LogInvInit == Init => LogInv
  BY LogAssumption DEF Init, LogInit, LogInv, LogTypeOK, Rotated, ArchivesAreNamed,
     LogsAreKept, Session

(* A step that leaves what is kept, and names nothing, keeps every log. *)
LEMMA KeptStays ==
  ASSUME LogsAreKept,
         logged' = logged, named' = named,
         \A s \in logged : Kept(s) => Kept(s)'
  PROVE  LogsAreKept'
  BY DEF LogsAreKept, SharesName

(* Every step of a rotation, a crash and the clock leave every log kept. *)
LEMMA LogInvStep == LogInv /\ [LogNext]_logVars => LogInv'
<1> SUFFICES ASSUME LogInv, [LogNext]_logVars
             PROVE  LogInv'
  OBVIOUS
<1> USE LogAssumption DEF LogInv, LogTypeOK, Session, Rotated, ArchivesAreNamed
<1>1. CASE \/ BeginSession \/ NothingToRotate \/ WriteLine \/ EndSession
           \/ ClockChanges \/ UNCHANGED logVars
  <2> USE <1>1 DEF BeginSession, NothingToRotate, WriteLine, EndSession, ClockChanges,
                   logVars, latestVars, archiveVars
  <2>1. LogTypeOK'
    <3>1. session' \in 0..MaxSessions
      OBVIOUS
    <3>2. {now', created', modified', name'} \subseteq Second
      OBVIOUS
    <3>3. /\ clock' = clock /\ latest' = latest /\ archive' = archive /\ whole' = whole
          /\ logged' = logged /\ named' = named
      OBVIOUS
    <3>4. logging' \in {"ended", "rotate", "write", "remove", "create", "logging"}
      OBVIOUS
    <3> QED
      BY <3>1, <3>2, <3>3, <3>4
  <2>2. /\ latest' = latest /\ archive' = archive /\ whole' = whole
        /\ logged' = logged /\ named' = named
    OBVIOUS
  <2>3. Rotated' /\ ArchivesAreNamed'
    BY <2>2
  <2> QED
    BY <2>1, <2>2, <2>3, KeptStays DEF Kept
<1>2. CASE CreateArchive
  <2> DEFINE stamp == CreateTime
  <2>1. stamp \in Second
    BY DEF CreateTime
  <2>2. /\ name' = stamp
        /\ archive' = [archive EXCEPT ![stamp] = latest]
        /\ whole' = whole \ {stamp}
        /\ named' = named \cup {<<latest, stamp>>}
        /\ latest # 0 /\ logging = "rotate" /\ logging' = "write"
        /\ UNCHANGED <<clock, now, session, latest, created, modified, logged>>
    BY <1>2 DEF CreateArchive, latestVars
  <2> HIDE DEF stamp
  <2>3. LogTypeOK' /\ Rotated' /\ ArchivesAreNamed'
    BY <2>1, <2>2
  <2>4. LogsAreKept'
    <3> SUFFICES ASSUME NEW s \in logged, ~Kept(s)'
                 PROVE  SharesName(s)'
      BY <2>2 DEF LogsAreKept
    <3>1. CASE SharesName(s)
      BY <3>1, <2>2 DEF SharesName
    <3>2. CASE Kept(s)
      <4>1. s # latest
        BY <2>2 DEF Kept
      <4>2. archive[stamp] = s
        BY <3>2, <4>1, <2>1, <2>2 DEF Kept
      <4>3. <<s, stamp>> \in named
        BY <4>2, <2>1
      <4> QED
        BY <4>1, <4>3, <2>1, <2>2 DEF SharesName
    <3> QED
      BY <3>1, <3>2 DEF LogsAreKept
  <2> QED
    BY <2>3, <2>4
<1>3. CASE FinishArchive
  <2> USE <1>3 DEF FinishArchive, latestVars
  <2>1. LogTypeOK' /\ Rotated' /\ ArchivesAreNamed'
    OBVIOUS
  <2>2. /\ latest' = latest /\ archive' = archive /\ whole \subseteq whole'
        /\ logged' = logged /\ named' = named
    OBVIOUS
  <2> QED
    BY <2>1, <2>2, KeptStays DEF Kept
<1>4. CASE RemoveLatest
  <2> USE <1>4 DEF RemoveLatest, archiveVars
  <2>1. LogTypeOK' /\ Rotated' /\ ArchivesAreNamed'
    OBVIOUS
  <2>2. archive' = archive /\ whole' = whole /\ logged' = logged /\ named' = named
    OBVIOUS
  <2>3. archive[name] = latest /\ name \in whole
    OBVIOUS
  <2> QED
    BY <2>1, <2>2, <2>3, KeptStays DEF Kept
<1>5. CASE CreateLatest
  <2> USE <1>5 DEF CreateLatest, archiveVars
  <2>1. LogTypeOK' /\ Rotated' /\ ArchivesAreNamed'
    OBVIOUS
  <2>2. /\ latest = 0 /\ latest' = session /\ archive' = archive /\ whole' = whole
        /\ logged' = logged \cup {session} /\ named' = named
    OBVIOUS
  <2>3. logged \subseteq Session
    OBVIOUS
  <2>4. \A s \in logged : Kept(s) => Kept(s)'
    BY <2>2, <2>3 DEF Kept
  <2>5. \A s \in logged : SharesName(s) => SharesName(s)'
    BY <2>2 DEF SharesName
  <2>6. Kept(session)'
    BY <2>2 DEF Kept
  <2>7. LogsAreKept'
    BY <2>2, <2>4, <2>5, <2>6 DEF LogsAreKept
  <2> QED
    BY <2>1, <2>7
<1> QED
  BY <1>1, <1>2, <1>3, <1>4, <1>5 DEF LogNext, InitLogging

(* For any number of runs, however they end: no log is lost but to an      *)
(* archive of the same name.                                               *)
THEOREM NoLogIsLost == Spec => []LogsAreKept
<1>1. LogInv => LogsAreKept
  BY DEF LogInv
<1> QED
  BY <1>1, LogInvInit, LogSteps, LogInvStep, PTL DEF Spec

-----------------------------------------------------------------------------
(* Archives that a crash left torn. *)

(* A torn archive is named by the time of the log that is still there: a    *)
(* rotation comes to it again before a log is written to or created.        *)
TornIsNext ==
    clock # "none" =>
        \A n \in Second : archive[n] # 0 /\ n \notin whole =>
            /\ latest # 0
            /\ n = CreateTime
            /\ logging \in {"ended", "rotate", "write"}
            /\ logging = "write" => name = n

(* A rotation that is interrupted leaves one torn archive, and the next     *)
(* rotation finds it by its name, or there is none.                         *)
LEMMA TornIsNextStep == LogInv /\ TornIsNext /\ [LogNext]_logVars => TornIsNext'
<1> SUFFICES ASSUME LogInv, TornIsNext, [LogNext]_logVars, clock' # "none"
             PROVE  TornIsNext'
  BY DEF TornIsNext
<1> USE DEF TornIsNext, CreateTime
<1>0. clock' = clock /\ clock \in {"created", "modified"}
  BY DEF LogInv, LogTypeOK, LogNext, InitLogging, BeginSession, NothingToRotate, CreateArchive,
         FinishArchive, RemoveLatest, CreateLatest, WriteLine, EndSession, ClockChanges, logVars
<1>1. CASE BeginSession \/ EndSession \/ ClockChanges \/ UNCHANGED logVars
  BY <1>0, <1>1 DEF BeginSession, EndSession, ClockChanges, logVars, latestVars, archiveVars
<1>2. CASE NothingToRotate
  BY <1>0, <1>2 DEF NothingToRotate, latestVars, archiveVars
<1>3. CASE CreateArchive
  <2> DEFINE stamp == IF clock = "created" THEN created ELSE modified
  <2>1. /\ stamp \in Second
        /\ name' = stamp
        /\ archive' = [archive EXCEPT ![stamp] = latest]
        /\ whole' = whole \ {stamp}
        /\ latest # 0 /\ logging' = "write"
        /\ latest' = latest /\ created' = created /\ modified' = modified
    BY <1>0, <1>3 DEF CreateArchive, latestVars, LogInv, LogTypeOK
  <2>2. \A n \in Second : archive'[n] # 0 /\ n \notin whole' => n = stamp
    BY <1>0, <2>1 DEF LogInv, LogTypeOK
  <2> QED BY <1>0, <2>1, <2>2
<1>4. CASE FinishArchive
  BY <1>0, <1>4 DEF FinishArchive, latestVars
<1>5. CASE RemoveLatest \/ CreateLatest \/ WriteLine
  <2>1. logging \notin {"ended", "rotate", "write"} /\ archive' = archive /\ whole' = whole
    BY <1>5 DEF RemoveLatest, CreateLatest, WriteLine, archiveVars
  <2> QED BY <1>0, <2>1
<1> QED
  BY <1>1, <1>2, <1>3, <1>4, <1>5 DEF LogNext, InitLogging

(* For any number of runs, however they end, and however local time         *)
(* changes: while a run writes its log, every archive is whole.             *)
THEOREM ArchivesAreRewritten == Spec => []ArchivesAreWhole
<1>1. Init => TornIsNext
  BY DEF Init, LogInit, TornIsNext
<1>2. TornIsNext => ArchivesAreWhole
  BY DEF TornIsNext, ArchivesAreWhole
<1> QED
  BY <1>1, <1>2, LogInvInit, LogSteps, LogInvStep, TornIsNextStep, PTL DEF Spec

-----------------------------------------------------------------------------
(* For any number of runs, edits and seconds, every variable of the logs    *)
(* and the settings keeps its type                                          *)
(* (logging.rs:41-105, config.rs:101-137, log4shell.rs:17-77).              *)
THEOREM SessionsTypeCorrect == Spec => []TypeOK
<1>1. LogInv => LogTypeOK
  BY DEF LogInv
<1>2. LogTypeOK /\ LaunchTypeOK => TypeOK
  BY DEF TypeOK
<1> QED
  BY <1>1, <1>2, LaunchTypes, LogInvInit, LogSteps, LogInvStep, PTL DEF Spec

=============================================================================

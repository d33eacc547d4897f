---------------------------- MODULE LaunchSafety ---------------------------
(***************************************************************************)
(* Proofs about the settings and their patches, over runs of the program   *)
(* that end anywhere, for any versions and any number of edits.            *)
(***************************************************************************)
EXTENDS Sessions, TLAPS

Patched(c) == Needs(c.mc_version) \subseteq c.patches

Busy == starting \in {"default", "write", "patch", "save", "spawn"}

(* Configurations are what they should be, of edits that were made. *)
Typed ==
    /\ edits \in 0..MaxEdits
    /\ config \in Config /\ config.edit <= edits
    /\ args \in Config /\ args.edit <= edits
    /\ file # <<>> => file \in Config /\ file.edit <= edits /\ exists
    /\ starting \in {"write", "patch", "save", "spawn"} => exists
    /\ unpatched \in [0..MaxEdits -> Nat]

(* The configuration that is held and the arguments are copies of one. *)
Copies ==
    /\ starting = "patch" => config = args
    /\ starting \in {"save", "spawn"} =>
         config.edit = args.edit /\ config.mc_version = args.mc_version /\ Patched(config)

(* No configuration names a patch whose file is not there. *)
AllPatchesAreThere ==
    /\ config.patches \cap Downloads \subseteq downloaded
    /\ args.patches \cap Downloads \subseteq downloaded
    /\ PatchesAreThere

(* What may still be launched without its patch has not been so far. *)
NotYet ==
    /\ UnpatchedAtMostOnce
    /\ \A e \in 0..MaxEdits : e > edits => unpatched[e] = 0
    /\ ~exists => unpatched[0] = 0
    /\ file # <<>> /\ ~Patched(file) => unpatched[file.edit] = 0
    /\ Busy /\ ~Patched(args) => unpatched[args.edit] = 0
    /\ starting = "spawn" /\ ~Patched(args) /\ file # <<>> /\ file.edit = args.edit => Patched(file)

LaunchInv == Typed /\ Copies /\ EditsAreKept /\ AllPatchesAreThere /\ NotYet

LaunchNext == StartStep \/ Edit \/ New

(* Only these touch the settings. *)
LEMMA LaunchSteps == [Next]_vars => [LaunchNext]_launchVars
<1> SUFFICES ASSUME [Next]_vars PROVE [LaunchNext]_launchVars
  OBVIOUS
<1>1. CASE LogStep
  BY <1>1 DEF LogStep
<1>2. CASE Begin
  BY <1>2 DEF Begin, LaunchNext
<1>3. CASE LaunchStep
  BY <1>3 DEF LaunchStep, LaunchNext
<1>4. CASE UserStep
  BY <1>4 DEF UserStep, LaunchNext
<1>5. CASE UNCHANGED vars
  BY <1>5 DEF vars
<1> QED
  BY <1>1, <1>2, <1>3, <1>4, <1>5 DEF Next

(* The defaults are a configuration without patches. *)
LEMMA DefaultIsConfig ==
  ASSUME NEW version \in Used \cup {"none"}
  PROVE  /\ Default(version) \in Config
         /\ Default(version).edit = 0
         /\ Default(version).patches = {}
  BY LaunchAssumption DEF Default, Config

(* Before the first run there are no settings. *)
LEMMA LaunchInvInit == Init => LaunchInv
<1> SUFFICES ASSUME Init PROVE LaunchInv
  OBVIOUS
<1>1. LaunchInit(Manifests)
  BY DEF Init
<1>2. Typed
  BY <1>1, DefaultIsConfig, LaunchAssumption DEF LaunchInit, Typed
<1>3. Copies /\ EditsAreKept /\ AllPatchesAreThere
  BY <1>1, DefaultIsConfig DEF LaunchInit, Copies, EditsAreKept, AllPatchesAreThere, PatchesAreThere
<1>4. NotYet
  BY <1>1, LaunchAssumption DEF LaunchInit, NotYet, UnpatchedAtMostOnce, Busy
<1> QED
  BY <1>2, <1>3, <1>4 DEF LaunchInv

(* What a failing step leaves: everything, but where the start is. *)
LEMMA InvIdle ==
  ASSUME LaunchInv,
         UNCHANGED <<fileVars, config, args, downloaded, historyVars>>,
         starting' \in {"idle", "panicked"} \/ starting' = starting
  PROVE  LaunchInv'
<1>1. /\ file' = file /\ exists' = exists /\ config' = config /\ args' = args
      /\ downloaded' = downloaded /\ edits' = edits /\ unpatched' = unpatched
  BY DEF fileVars, historyVars
<1>2. Typed' /\ Copies'
  BY <1>1 DEF LaunchInv, Typed, Copies, Patched
<1>3. EditsAreKept' /\ AllPatchesAreThere'
  BY <1>1 DEF LaunchInv, EditsAreKept, AllPatchesAreThere, PatchesAreThere
<1>4. NotYet'
  BY <1>1 DEF LaunchInv, NotYet, UnpatchedAtMostOnce, Busy, Patched
<1> QED
  BY <1>2, <1>3, <1>4 DEF LaunchInv

(* Loading takes two copies of what the file says. *)
LEMMA InvLoad == LaunchInv /\ Load => LaunchInv'
<1> SUFFICES ASSUME LaunchInv, Load PROVE LaunchInv'
  OBVIOUS
<1>1. /\ file' = file /\ exists' = exists /\ config' = file /\ args' = file /\ file # <<>>
      /\ downloaded' = downloaded /\ edits' = edits /\ unpatched' = unpatched
      /\ starting' \in {"idle", "patch"}
  BY DEF Load, Loaded, fileVars, historyVars
<1>2. Typed' /\ Copies'
  BY <1>1 DEF LaunchInv, Typed, Copies, Patched
<1>3. EditsAreKept' /\ AllPatchesAreThere'
  BY <1>1 DEF LaunchInv, Typed, Config, EditsAreKept, AllPatchesAreThere, PatchesAreThere
<1>4. NotYet'
  BY <1>1 DEF LaunchInv, NotYet, UnpatchedAtMostOnce, Busy, Patched
<1> QED
  BY <1>2, <1>3, <1>4 DEF LaunchInv

(* The defaults come in three steps. *)
LEMMA InvDefault == LaunchInv /\ (LookUpVersion \/ CreateFile \/ SaveDefault) => LaunchInv'
<1> SUFFICES ASSUME LaunchInv, LookUpVersion \/ CreateFile \/ SaveDefault PROVE LaunchInv'
  OBVIOUS
<1> USE DEF LaunchInv, fileVars, historyVars
<1>1. CASE LookUpVersion
  <2>1. PICK version \in Used \cup {"none"} : args' = Default(version)
    BY <1>1 DEF LookUpVersion
  <2>2. args' \in Config /\ args'.edit = 0 /\ args'.patches = {}
    BY <2>1, DefaultIsConfig
  <2>3. /\ file' = file /\ exists' = exists /\ config' = config
        /\ starting' = "default" /\ ~exists
        /\ downloaded' = downloaded /\ edits' = edits /\ unpatched' = unpatched
    BY <1>1 DEF LookUpVersion
  <2>4. Typed' /\ Copies'
    BY <2>2, <2>3 DEF Typed, Copies, Patched
  <2>5. EditsAreKept' /\ AllPatchesAreThere'
    BY <2>2, <2>3 DEF Typed, EditsAreKept, AllPatchesAreThere, PatchesAreThere
  <2>6. NotYet'
    BY <2>2, <2>3 DEF Typed, NotYet, UnpatchedAtMostOnce, Patched
  <2> QED
    BY <2>4, <2>5, <2>6
<1>2. CASE CreateFile
  <2>1. /\ file' = <<>> /\ exists' = TRUE /\ config' = config /\ args' = args /\ starting' = "write"
        /\ starting = "default" /\ downloaded' = downloaded
        /\ edits' = edits /\ unpatched' = unpatched
    BY <1>2 DEF CreateFile
  <2>2. Typed' /\ Copies'
    BY <2>1 DEF Typed, Copies, Patched
  <2>3. EditsAreKept' /\ AllPatchesAreThere'
    BY <2>1 DEF EditsAreKept, AllPatchesAreThere, PatchesAreThere
  <2>4. NotYet'
    BY <2>1 DEF NotYet, UnpatchedAtMostOnce, Busy, Patched
  <2> QED
    BY <2>2, <2>3, <2>4
<1>3. CASE SaveDefault
  <2>1. /\ file' = args /\ exists' = exists /\ config' = args /\ args' = args
        /\ starting' \in {"idle", "patch"} /\ starting = "write"
        /\ downloaded' = downloaded /\ edits' = edits /\ unpatched' = unpatched
    BY <1>3 DEF SaveDefault, Loaded
  <2>2. Typed' /\ Copies'
    BY <2>1 DEF Typed, Copies, Patched
  <2>3. EditsAreKept' /\ AllPatchesAreThere'
    BY <2>1 DEF Typed, Config, EditsAreKept, AllPatchesAreThere, PatchesAreThere
  <2>4. NotYet'
    BY <2>1 DEF Typed, NotYet, UnpatchedAtMostOnce, Busy, Patched
  <2> QED
    BY <2>2, <2>3, <2>4
<1> QED
  BY <1>1, <1>2, <1>3

(* A download only adds to what is there. *)
LEMMA InvDownload == LaunchInv /\ Download => LaunchInv'
<1> SUFFICES ASSUME LaunchInv, Download PROVE LaunchInv'
  OBVIOUS
<1>1. /\ file' = file /\ exists' = exists /\ config' = config /\ args' = args
      /\ starting' = starting
      /\ downloaded \subseteq downloaded' /\ edits' = edits /\ unpatched' = unpatched
  BY DEF Download, fileVars, historyVars
<1>2. Typed' /\ Copies'
  BY <1>1 DEF LaunchInv, Typed, Copies, Patched
<1>3. EditsAreKept' /\ AllPatchesAreThere'
  BY <1>1 DEF LaunchInv, EditsAreKept, AllPatchesAreThere, PatchesAreThere
<1>4. NotYet'
  BY <1>1 DEF LaunchInv, NotYet, UnpatchedAtMostOnce, Busy, Patched
<1> QED
  BY <1>2, <1>3, <1>4 DEF LaunchInv

(* A patch that is there already was there when the settings were loaded. *)
LEMMA InvNothingToAdd == LaunchInv /\ NothingToAdd => LaunchInv'
<1> SUFFICES ASSUME LaunchInv, NothingToAdd PROVE LaunchInv'
  OBVIOUS
<1>1. /\ file' = file /\ exists' = exists /\ config' = config /\ args' = args
      /\ starting = "patch" /\ starting' = "spawn" /\ Patched(config)
      /\ downloaded' = downloaded /\ edits' = edits /\ unpatched' = unpatched
  BY DEF NothingToAdd, CanPatch, fileVars, historyVars, Patched
<1>2. config = args
  BY <1>1 DEF LaunchInv, Copies
<1>3. Typed' /\ Copies'
  BY <1>1, <1>2 DEF LaunchInv, Typed, Copies, Patched
<1>4. EditsAreKept' /\ AllPatchesAreThere'
  BY <1>1 DEF LaunchInv, EditsAreKept, AllPatchesAreThere, PatchesAreThere
<1>5. NotYet'
  BY <1>1, <1>2 DEF LaunchInv, NotYet, UnpatchedAtMostOnce, Busy, Patched
<1> QED
  BY <1>3, <1>4, <1>5 DEF LaunchInv

(* What is added is what the version needs, and its file is there already.  *)
LEMMA InvAddPatch == LaunchInv /\ AddPatch => LaunchInv'
<1> SUFFICES ASSUME LaunchInv, AddPatch PROVE LaunchInv'
  OBVIOUS
<1> DEFINE needs == Needs(config.mc_version)
<1>1. /\ file' = <<>> /\ exists' = TRUE /\ args' = args
      /\ config' = [config EXCEPT !.patches = @ \cup needs]
      /\ starting = "patch" /\ starting' = "save"
      /\ downloaded' = downloaded /\ edits' = edits /\ unpatched' = unpatched
  BY DEF AddPatch, CanPatch, historyVars
<1>2. config \in Config /\ needs \subseteq Patch /\ needs \cap Downloads \subseteq downloaded
  BY DEF LaunchInv, Typed, Needs, AddPatch, ToDownload
<1> HIDE DEF needs
<1>3. /\ config' \in Config /\ config'.edit = config.edit /\ config'.mc_version = config.mc_version
      /\ config'.patches = config.patches \cup needs
  BY <1>1, <1>2 DEF Config
<1>4. Patched(config')
  BY <1>3 DEF Patched, needs
<1>5. Typed'
  BY <1>1, <1>3 DEF LaunchInv, Typed
<1>6. Copies'
  BY <1>1, <1>3, <1>4 DEF LaunchInv, Copies, Patched
<1>7. EditsAreKept' /\ AllPatchesAreThere'
  BY <1>1, <1>2, <1>3 DEF LaunchInv, EditsAreKept, AllPatchesAreThere, PatchesAreThere
<1>8. NotYet'
  BY <1>1 DEF LaunchInv, NotYet, UnpatchedAtMostOnce, Busy, Patched
<1> QED
  BY <1>5, <1>6, <1>7, <1>8 DEF LaunchInv

(* What is saved has its patch. *)
LEMMA InvSavePatch == LaunchInv /\ SavePatch => LaunchInv'
<1> SUFFICES ASSUME LaunchInv, SavePatch PROVE LaunchInv'
  OBVIOUS
<1>1. /\ file' = config /\ exists' = exists /\ config' = config /\ args' = args
      /\ starting = "save" /\ starting' = "spawn"
      /\ downloaded' = downloaded /\ edits' = edits /\ unpatched' = unpatched
  BY DEF SavePatch, fileVars, historyVars
<1>2. Typed' /\ Copies'
  BY <1>1 DEF LaunchInv, Typed, Copies, Patched
<1>3. EditsAreKept'
  <2>1. config.edit = args.edit /\ args \in Config
    BY <1>1 DEF LaunchInv, Copies, Typed
  <2> QED
    BY <2>1, <1>1, LaunchAssumption DEF EditsAreKept, Config
<1>4. AllPatchesAreThere'
  BY <1>1 DEF LaunchInv, AllPatchesAreThere, PatchesAreThere
<1>5. Patched(config)
  BY <1>1 DEF LaunchInv, Copies
<1>6. NotYet'
  BY <1>1, <1>5 DEF LaunchInv, NotYet, UnpatchedAtMostOnce, Busy, Patched
<1> QED
  BY <1>2, <1>3, <1>4, <1>6 DEF LaunchInv

(* A launch without its patch is the first of its edit, and the last: what  *)
(* the next start can load of that edit is patched.                        *)
LEMMA InvSpawn == LaunchInv /\ Spawn => LaunchInv'
<1> SUFFICES ASSUME LaunchInv, Spawn PROVE LaunchInv'
  OBVIOUS
<1>1. /\ file' = file /\ exists' = exists /\ config' = config /\ args' = args
      /\ starting = "spawn" /\ starting' = "idle"
      /\ downloaded' = downloaded /\ edits' = edits
  BY DEF Spawn, fileVars
<1>2. EditsAreKept' /\ AllPatchesAreThere' /\ Copies'
  BY <1>1 DEF LaunchInv, EditsAreKept, AllPatchesAreThere, PatchesAreThere, Copies
<1>3. CASE Patched(args)
  <2>1. unpatched' = unpatched
    BY <1>3 DEF Spawn, Patched
  <2>2. Typed'
    BY <1>1, <2>1 DEF LaunchInv, Typed
  <2>3. NotYet'
    BY <1>1, <2>1 DEF LaunchInv, NotYet, UnpatchedAtMostOnce, Busy, Patched
  <2> QED
    BY <1>2, <2>2, <2>3 DEF LaunchInv
<1>4. CASE ~Patched(args)
  <2> DEFINE e == args.edit
  <2>1. unpatched' = [unpatched EXCEPT ![e] = @ + 1]
    BY <1>4 DEF Spawn, Patched
  <2>2. /\ e \in 0..MaxEdits /\ e <= edits /\ edits \in 0..MaxEdits
        /\ unpatched \in [0..MaxEdits -> Nat]
    BY DEF LaunchInv, Typed, Config
  <2>3. unpatched[e] = 0 /\ exists
    BY <1>1, <1>4 DEF LaunchInv, NotYet, Busy, Typed
  <2>4. file # <<>> /\ file.edit = e => Patched(file)
    BY <1>1, <1>4 DEF LaunchInv, NotYet
  <2> HIDE DEF e
  <2>5. /\ unpatched' \in [0..MaxEdits -> Nat]
        /\ unpatched'[e] = 1
        /\ \A f \in 0..MaxEdits : f # e => unpatched'[f] = unpatched[f]
    BY <2>1, <2>2, <2>3
  <2>6. Typed'
    BY <1>1, <2>5 DEF LaunchInv, Typed
  <2>7. UnpatchedAtMostOnce'
    BY <2>5 DEF LaunchInv, NotYet, UnpatchedAtMostOnce
  <2>8. \A f \in 0..MaxEdits : f > edits' => unpatched'[f] = 0
    <3> SUFFICES ASSUME NEW f \in 0..MaxEdits, f > edits PROVE unpatched'[f] = 0
      BY <1>1
    <3>1. f # e
      BY <2>2, LaunchAssumption
    <3> QED
      BY <3>1, <2>5 DEF LaunchInv, NotYet
  <2>9. file' # <<>> /\ ~Patched(file') => unpatched'[file'.edit] = 0
    <3> SUFFICES ASSUME file # <<>>, ~Patched(file) PROVE unpatched'[file.edit] = 0
      BY <1>1
    <3>1. file.edit # e /\ file.edit \in 0..MaxEdits
      BY <2>4 DEF LaunchInv, Typed, Config
    <3> QED
      BY <3>1, <2>5 DEF LaunchInv, NotYet
  <2>10. NotYet'
    BY <1>1, <2>3, <2>7, <2>8, <2>9 DEF NotYet, Busy, Patched
  <2> QED
    BY <1>2, <2>6, <2>10 DEF LaunchInv
<1> QED
  BY <1>3, <1>4

(* An edit is a new one: nothing was launched with it. *)
LEMMA InvEdit == LaunchInv /\ Edit => LaunchInv'
<1> SUFFICES ASSUME LaunchInv, Edit PROVE LaunchInv'
  OBVIOUS
<1>1. /\ exists' = TRUE /\ config' = config /\ args' = args /\ starting' = starting
      /\ downloaded' = downloaded /\ edits' = edits + 1 /\ edits < MaxEdits
      /\ unpatched' = unpatched
  BY DEF Edit
<1>2. edits \in 0..MaxEdits /\ MaxEdits \in Nat /\ edits + 1 \in 0..MaxEdits
  BY <1>1, LaunchAssumption DEF LaunchInv, Typed
<1>3. PICK version \in Used, patches \in {{}} \cup (IF file = <<>> THEN {} ELSE {file.patches}) :
        file' = [mc_version |-> version, patches |-> patches, edit |-> edits + 1]
  BY DEF Edit
<1>4. patches \subseteq Patch /\ patches \cap Downloads \subseteq downloaded
  BY DEF LaunchInv, Typed, Config, AllPatchesAreThere, PatchesAreThere
<1>5. file' \in Config /\ file'.edit = edits + 1 /\ file'.patches = patches
  BY <1>2, <1>3, <1>4 DEF Config
<1>6. args.edit \in Nat /\ config.edit \in Nat /\ args.edit <= edits /\ config.edit <= edits
  BY LaunchAssumption DEF LaunchInv, Typed, Config
<1>7. Typed'
  BY <1>1, <1>2, <1>5, <1>6 DEF LaunchInv, Typed
<1>8. Copies' /\ EditsAreKept' /\ AllPatchesAreThere'
  BY <1>1, <1>2, <1>4, <1>5, <1>6
  DEF LaunchInv, Copies, Patched, EditsAreKept, AllPatchesAreThere, PatchesAreThere
<1>9. unpatched[edits + 1] = 0
  BY <1>2 DEF LaunchInv, NotYet
<1>10. NotYet'
  BY <1>1, <1>2, <1>5, <1>6, <1>9 DEF LaunchInv, NotYet, UnpatchedAtMostOnce, Busy, Patched
<1> QED
  BY <1>7, <1>8, <1>10 DEF LaunchInv

(* A run begins with what the file says, or with the defaults. *)
LEMMA InvNew == LaunchInv /\ New => LaunchInv'
<1> SUFFICES ASSUME LaunchInv, New PROVE LaunchInv'
  OBVIOUS
<1>1. /\ file' = file /\ exists' = exists /\ starting' = "idle" /\ args' = config'
      /\ downloaded' = downloaded /\ edits' = edits /\ unpatched' = unpatched
      /\ config' = IF file = <<>> THEN Default("none") ELSE file
  BY DEF New, fileVars, historyVars
<1>2. Default("none") \in Config /\ Default("none").edit = 0 /\ Default("none").patches = {}
  BY DefaultIsConfig
<1>3. /\ config' \in Config /\ config'.edit <= edits
      /\ config'.patches \cap Downloads \subseteq downloaded
      /\ file # <<>> => config' = file /\ file \in Config
  BY <1>1, <1>2 DEF LaunchInv, Typed, AllPatchesAreThere, PatchesAreThere
<1> HIDE DEF Default
<1>4. Typed' /\ Copies'
  BY <1>1, <1>3 DEF LaunchInv, Typed, Copies
<1>5. EditsAreKept'
  BY <1>1, <1>3 DEF EditsAreKept, Config
<1>6. AllPatchesAreThere'
  BY <1>1, <1>3 DEF LaunchInv, AllPatchesAreThere, PatchesAreThere
<1>7. NotYet'
  BY <1>1 DEF LaunchInv, NotYet, UnpatchedAtMostOnce, Busy, Patched
<1> QED
  BY <1>4, <1>5, <1>6, <1>7 DEF LaunchInv

(* One step of a start, an edit, or a new run. *)
LEMMA LaunchInvStep == LaunchInv /\ [LaunchNext]_launchVars => LaunchInv'
<1> SUFFICES ASSUME LaunchInv, [LaunchNext]_launchVars PROVE LaunchInv'
  OBVIOUS
<1>1. CASE StartFails
  BY <1>1, InvIdle DEF StartFails
<1>2. CASE PatchPanics
  BY <1>2, InvIdle DEF PatchPanics
<1>3. CASE UNCHANGED launchVars
  BY <1>3, InvIdle DEF launchVars
<1>4. CASE Load \/ LookUpVersion \/ CreateFile \/ SaveDefault
  BY <1>4, InvLoad, InvDefault
<1>5. CASE Download \/ NothingToAdd \/ AddPatch \/ SavePatch
  BY <1>5, InvDownload, InvNothingToAdd, InvAddPatch, InvSavePatch
<1>6. CASE Spawn \/ Edit \/ New
  BY <1>6, InvSpawn, InvEdit, InvNew
<1> QED
  BY <1>1, <1>2, <1>3, <1>4, <1>5, <1>6 DEF LaunchNext, StartStep

(* The invariant holds in every run of every session. *)
LEMMA LaunchInvHolds == Spec => []LaunchInv
  BY LaunchInvInit, LaunchSteps, LaunchInvStep, PTL DEF Spec

-----------------------------------------------------------------------------
(* No save of the program overwrites an edit that it loaded. *)
THEOREM EditsSurvive == Spec => []EditsAreKept
<1>1. LaunchInv => EditsAreKept
  BY DEF LaunchInv
<1> QED
  BY <1>1, LaunchInvHolds, PTL

(* No settings name a patch that a crash could have kept from being there. *)
THEOREM PatchesComeFirst == Spec => []PatchesAreThere
<1>1. LaunchInv => PatchesAreThere
  BY DEF LaunchInv, AllPatchesAreThere
<1> QED
  BY <1>1, LaunchInvHolds, PTL

(* No settings are used twice for a server without the patch it needs. *)
THEOREM UnpatchedOnce == Spec => []UnpatchedAtMostOnce
<1>1. LaunchInv => UnpatchedAtMostOnce
  BY DEF LaunchInv, NotYet
<1> QED
  BY <1>1, LaunchInvHolds, PTL

-----------------------------------------------------------------------------
(* What the invariant leaves open of the types. *)
RestTyped ==
    /\ exists \in BOOLEAN
    /\ manifest \in 0..Len(Release)
    /\ downloaded \subseteq Downloads
    /\ starting \in {"idle", "default", "write", "patch", "save", "spawn", "panicked"}

(* What is downloaded is what is to be downloaded, and a manifest that is   *)
(* replaced has as many releases as there are, or none.                     *)
LEMMA RestStep == LaunchInv /\ RestTyped /\ [LaunchNext]_launchVars => RestTyped'
<1> SUFFICES ASSUME LaunchInv, RestTyped, [LaunchNext]_launchVars PROVE RestTyped'
  OBVIOUS
<1> USE DEF RestTyped, fileVars, historyVars
<1>0. Len(Release) \in Nat
  BY LaunchAssumption
<1>1. CASE StartFails \/ PatchPanics \/ Load \/ SaveDefault
  BY <1>1 DEF StartFails, PatchPanics, Load, SaveDefault, Loaded
<1>2. CASE LookUpVersion \/ CreateFile \/ NothingToAdd \/ AddPatch \/ SavePatch
  BY <1>2 DEF LookUpVersion, CreateFile, NothingToAdd, AddPatch, SavePatch
<1>3. CASE Download
  BY <1>3 DEF Download, ToDownload
<1>4. CASE Spawn \/ Edit
  BY <1>4 DEF Spawn, Edit
<1>5. CASE New
  BY <1>0, <1>5 DEF New, RefreshManifest
<1>6. CASE UNCHANGED launchVars
  BY <1>6 DEF launchVars
<1> QED
  BY <1>1, <1>2, <1>3, <1>4, <1>5, <1>6 DEF LaunchNext, StartStep

(* For any versions and any number of edits: the settings that are there,   *)
(* or torn, and the two copies of them keep their type, and only patches    *)
(* that are downloads are downloaded (config.rs:101-137,                    *)
(* log4shell.rs:17-77).                                                     *)
LEMMA LaunchTypes == Spec => []LaunchTypeOK
<1>1. ASSUME Init PROVE RestTyped
  <2>1. LaunchInit(Manifests)
    BY <1>1 DEF Init
  <2> QED BY <2>1, ManifestsAssumption DEF LaunchInit, RestTyped
<1>2. LaunchInv /\ RestTyped => LaunchTypeOK
  BY DEF LaunchInv, Typed, RestTyped, LaunchTypeOK
<1> QED
  BY <1>1, <1>2, LaunchInvInit, LaunchSteps, LaunchInvStep, RestStep, PTL DEF Spec

=============================================================================

------------------------------- MODULE Launch ------------------------------
(***************************************************************************)
(* How a start comes to the command line of the Minecraft server: it loads *)
(* the settings, adds the Log4Shell patch that the version manifest calls  *)
(* for, and saves them. Between any two steps the user may edit them, and  *)
(* the program may end.                                                    *)
(***************************************************************************)
EXTENDS Naturals, Sequences

CONSTANTS Release,   (* the ids of versions, in the order of their release   *)
          Used,      (* the versions that the server may have                *)
          MaxEdits   (* bound: how often the user edits the settings         *)

Ids == {Release[k] : k \in DOMAIN Release}

ASSUME LaunchAssumption ==
    /\ {"1.7", "1.11.2", "1.12", "1.16.5", "1.17", "1.18.1"} \cup Used \subseteq Ids
    /\ Release \in Seq(STRING)
    /\ MaxEdits \in Nat

VARIABLES file,       (* ssw-config.toml: <<>> if it is missing or torn      *)
          exists,     (* is there such a file?                               *)
          config,     (* the configuration that the program holds            *)
          args,       (* the copy that the arguments are taken from          *)
          manifest,   (* how many of the releases the manifest has           *)
          downloaded, (* the patches whose file was downloaded               *)
          starting,   (* where the start is                                  *)
          edits,      (* history: how often the settings were edited         *)
          unpatched   (* history: of each edit, how many servers were        *)
                      (* launched without the patch that they need           *)

fileVars == <<file, exists>>
historyVars == <<edits, unpatched>>
launchVars == <<fileVars, config, args, manifest, downloaded, starting, historyVars>>

Patch == {"formatMsgNoLookups", "log4j2_112-116", "log4j2_17-111"}

Downloads == Patch \ {"formatMsgNoLookups"}

(* Of the configuration, what matters to a patch, and which edit it is. *)
Config == [mc_version : Used \cup {"none"}, patches : SUBSET Patch, edit : 0..MaxEdits]

Default(version) == [mc_version |-> version, patches |-> {}, edit |-> 0]

LaunchTypeOK ==
    /\ file \in Config \cup {<<>>}
    /\ exists \in BOOLEAN
    /\ {config, args} \subseteq Config
    /\ manifest \in 0..Len(Release)
    /\ downloaded \subseteq Downloads
    /\ starting \in {"idle", "default", "write", "patch", "save", "spawn", "panicked"}
    /\ edits \in 0..MaxEdits
    /\ unpatched \in [0..MaxEdits -> Nat]

LaunchInit(manifests) ==
    /\ file = <<>>
    /\ exists = FALSE
    /\ config = Default("none")
    /\ args = Default("none")
    /\ manifest \in manifests
    /\ downloaded = {}
    /\ starting = "idle"
    /\ edits = 0
    /\ unpatched = [e \in 0..MaxEdits |-> 0]

-----------------------------------------------------------------------------
(* Versions are ordered by their release, not by their ids. *)
Time(id) == CHOOSE k \in DOMAIN Release : Release[k] = id

InManifest(id) == id \in Ids /\ Time(id) <= manifest

Between(first, id, last) == Time(first) <= Time(id) /\ Time(id) <= Time(last)

(* The patches that a version needs, one or none: none from 1.18.1, before  *)
(* 1.7, and between the ranges.                                            *)
Needs(id) ==
    {p \in Patch :
        \/ /\ p = "formatMsgNoLookups"
           /\ Time("1.17") <= Time(id) /\ Time(id) < Time("1.18.1")
        \/ p = "log4j2_112-116" /\ Between("1.12", id, "1.16.5")
        \/ p = "log4j2_17-111" /\ Between("1.7", id, "1.11.2")}

-----------------------------------------------------------------------------
(* A start that fails leaves everything as it is; it may be asked again. *)
StartFails ==
    /\ starting \notin {"idle", "panicked"}
    /\ starting' = "idle"
    /\ UNCHANGED <<fileVars, config, args, manifest, downloaded, historyVars>>

Loaded(c) ==
    /\ config' = c
    /\ args' = c
    /\ starting' = IF c.mc_version = "none" THEN "idle" ELSE "patch"

(* Mutant: the configuration that the program holds is not replaced. *)
LoadArgs ==
    /\ starting = "idle"
    /\ file # <<>>
    /\ args' = file
    /\ starting' = IF file.mc_version = "none" THEN "idle" ELSE "patch"
    /\ UNCHANGED <<fileVars, config, manifest, downloaded, historyVars>>

Load ==
    /\ starting = "idle"
    /\ file # <<>>
    /\ Loaded(file)
    /\ UNCHANGED <<fileVars, manifest, downloaded, historyVars>>

(* No settings: the version is looked up in the jar files of the server. *)
LookUpVersion ==
    /\ starting = "idle"
    /\ ~exists
    /\ \E version \in Used \cup {"none"} : args' = Default(version)
    /\ starting' = "default"
    /\ UNCHANGED <<fileVars, config, manifest, downloaded, historyVars>>

(* Writing a file empties it first. *)
CreateFile ==
    /\ starting = "default"
    /\ file' = <<>>
    /\ exists' = TRUE
    /\ starting' = "write"
    /\ UNCHANGED <<config, args, manifest, downloaded, historyVars>>

SaveDefault ==
    /\ starting = "write"
    /\ file' = args
    /\ Loaded(args)
    /\ UNCHANGED <<exists, manifest, downloaded, historyVars>>

(* The panic of a manifest that knows the version, but not 1.18.1. *)
PatchPanics ==
    /\ starting = "patch"
    /\ InManifest(config.mc_version)
    /\ ~InManifest("1.18.1")
    /\ starting' = "panicked"
    /\ UNCHANGED <<fileVars, config, args, manifest, downloaded, historyVars>>

CanPatch ==
    /\ starting = "patch"
    /\ InManifest(config.mc_version)
    /\ InManifest("1.18.1")

ToDownload == (Needs(config.mc_version) \cap Downloads) \ downloaded

Download ==
    /\ CanPatch
    /\ ToDownload # {}
    /\ downloaded' = downloaded \cup ToDownload
    /\ UNCHANGED <<fileVars, config, args, manifest, starting, historyVars>>

NothingToAdd ==
    /\ CanPatch
    /\ ToDownload = {}
    /\ Needs(config.mc_version) \subseteq config.patches
    /\ starting' = "spawn"
    /\ UNCHANGED <<fileVars, config, args, manifest, downloaded, historyVars>>

(* Mutant: the patch is added first and its file downloaded then. *)
AddAtOnce ==
    /\ CanPatch
    /\ ~(Needs(config.mc_version) \subseteq config.patches)
    /\ config' = [config EXCEPT !.patches = @ \cup Needs(config.mc_version)]
    /\ file' = <<>>
    /\ starting' = "save"
    /\ UNCHANGED <<exists, args, manifest, downloaded, historyVars>>

AddPatch ==
    /\ CanPatch
    /\ ToDownload = {}
    /\ ~(Needs(config.mc_version) \subseteq config.patches)
    /\ config' = [config EXCEPT !.patches = @ \cup Needs(config.mc_version)]
    /\ file' = <<>>
    /\ exists' = TRUE
    /\ starting' = "save"
    /\ UNCHANGED <<args, manifest, downloaded, historyVars>>

(* Mutant: what is saved is the configuration without the patch. *)
SaveArgs ==
    /\ starting = "save"
    /\ file' = args
    /\ starting' = "spawn"
    /\ UNCHANGED <<exists, config, args, manifest, downloaded, historyVars>>

SavePatch ==
    /\ starting = "save"
    /\ file' = config
    /\ starting' = "spawn"
    /\ UNCHANGED <<exists, config, args, manifest, downloaded, historyVars>>

(* The arguments are those that were loaded, without what was added. *)
Spawn ==
    /\ starting = "spawn"
    /\ unpatched' = IF Needs(args.mc_version) \subseteq args.patches THEN unpatched
                    ELSE [unpatched EXCEPT ![args.edit] = @ + 1]
    /\ starting' = "idle"
    /\ UNCHANGED <<fileVars, config, args, manifest, downloaded, edits>>

StartStep ==
    \/ StartFails \/ Load \/ LookUpVersion \/ CreateFile \/ SaveDefault
    \/ PatchPanics \/ Download \/ NothingToAdd \/ AddPatch \/ SavePatch \/ Spawn

(* The user sets the version, and keeps the arguments or writes a new file. *)
Edit ==
    /\ edits < MaxEdits
    /\ \E version \in Used, patches \in {{}} \cup (IF file = <<>> THEN {} ELSE {file.patches}) :
        file' = [mc_version |-> version, patches |-> patches, edit |-> edits + 1]
    /\ exists' = TRUE
    /\ edits' = edits + 1
    /\ UNCHANGED <<config, args, manifest, downloaded, starting, unpatched>>

(* The manifest that is there may be replaced, or torn by a write that fails. *)
RefreshManifest == manifest' \in {manifest, 0, Len(Release)}

(* The program begins: it may refresh the manifest, and holds what the file *)
(* says, or the defaults.                                                  *)
New ==
    /\ RefreshManifest
    /\ config' = IF file = <<>> THEN Default("none") ELSE file
    /\ args' = config'
    /\ starting' = "idle"
    /\ UNCHANGED <<fileVars, downloaded, historyVars>>

-----------------------------------------------------------------------------
(* The patch comes too late for the arguments of the start that adds it,    *)
(* but only once: settings that are left alone are never used twice for a  *)
(* server without the patch that it needs, whatever fails or ends in       *)
(* between (minecraft.rs:157-178, log4shell.rs:67-74).                     *)
UnpatchedAtMostOnce == \A e \in 0..MaxEdits : unpatched[e] <= 1

(* An edit of the settings is lost only to a start that had loaded them     *)
(* before it: what the program saves is never older than what it loaded    *)
(* (config.rs:101-137, log4shell.rs:65-74).                                *)
EditsAreKept == file # <<>> => file.edit >= args.edit

(* Settings never name a patch whose file was not there before, so that a   *)
(* crash between the two leaves no server that cannot find it              *)
(* (log4shell.rs:55-74).                                                   *)
PatchesAreThere == file # <<>> => file.patches \cap Downloads \subseteq downloaded

(* log4shell.rs:22-23, "Attempts to patch Log4Shell, if needed": no server   *)
(* is launched without the patch that its version needs. The start that     *)
(* adds the patch does so, for its arguments are those of the copy that     *)
(* was made before (minecraft.rs:160, 174).                                 *)
PatchedWhenLaunched ==
    \A e \in 0..MaxEdits : unpatched[e] = 0

=============================================================================

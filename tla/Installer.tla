------------------------------- MODULE Installer -------------------------------
(***************************************************************************)
(* The command line (cli/agent-mockingbird.mjs, its bootstrap wrapper and  *)
(* cli/runtime-assets.mjs): installs, updates and removes the package and  *)
(* OpenCode under one root, keeps the files it ships for the workspace in  *)
(* line with those users edit, and manages the services that run them.     *)
(*                                                                         *)
(* One command runs at a time; each of its steps may be the last, because  *)
(* a program it calls fails or it is interrupted.  Users edit files, and   *)
(* systemd restarts services, at any moment.                               *)
(*                                                                         *)
(* Contents of files are numbers, 0 for a file that is not there.  The two *)
(* directories of assets are treated alike and are one here.  The executor *)
(* is installed and restarted as OpenCode is, and is left out.             *)
(***************************************************************************)
EXTENDS Integers, FiniteSets

CONSTANTS
    MaxVersion,     \* the versions of the package, published in order
    Pins,           \* the version of OpenCode each has in opencode.lock.json
    AssetFiles,
    Packaged,       \* the content of each asset file in each version
    LocalEdits,     \* the contents users write, each once, in their order
    MaxCommands,    \* bound: installs and updates
    MaxFailures,    \* bound: those that do not come to an end
    MaxLogins       \* bound: providers connected

Releases == 1 .. MaxVersion

ASSUME InstallerAssumption ==
    /\ MaxVersion \in Nat \ {0}
    /\ Pins \in [Releases -> Nat \ {0}]
    /\ IsFiniteSet(AssetFiles) /\ AssetFiles # {}
    /\ Packaged \in [Releases -> [AssetFiles -> Nat]]
    /\ LocalEdits \subseteq Nat \ {0}
    /\ \A v \in Releases, f \in AssetFiles : Packaged[v][f] \notin LocalEdits
    /\ {MaxCommands, MaxFailures, MaxLogins} \subseteq Nat

VARIABLES
    published,      \* the last version in the registry
    home,           \* what is installed under the root, 0: nothing
    service,        \* what the services run, 0: nothing
    assets,         \* the asset files in place
    backups,        \* the contents copied to a backup
    assetRecord,    \* runtime-assets-workspace-state.json
    command,        \* the command under way
    credentials,    \* providers connected
    commands, failures,     \* history: how many so far
    edited,         \* history: the contents users have written
    unseen,         \* history: files edited since the last synchronisation recorded
    unrecorded      \* history: files whose entry was lost, or that were written
                    \* by a synchronisation that was not recorded

installerVars == <<published, home, service, assets, backups, assetRecord, command,
                   credentials, commands, failures, edited, unseen, unrecorded>>
files == <<assets, backups, assetRecord>>
installerHistory == <<commands, failures, edited, unseen, unrecorded>>

AssetContents == {Packaged[v][f] : v \in Releases, f \in AssetFiles} \cup LocalEdits \cup {0}
OpencodeVersions == {Pins[v] : v \in Releases} \cup {0}

\* The package, OpenCode, the version of OpenCode in the shim, the unit files.
Home == [cli : 0 .. MaxVersion, opencode : OpencodeVersions, shim : OpencodeVersions,
         units : BOOLEAN]
NoHome == [cli |-> 0, opencode |-> 0, shim |-> 0, units |-> FALSE]

\* What runs, and the providers OpenCode knew when it started.
Service == [cli : 0 .. MaxVersion, opencode : OpencodeVersions, knows : 0 .. MaxLogins]
Stopped == [cli |-> 0, opencode |-> 0, knows |-> 0]
Started == [cli |-> home.cli, opencode |-> home.opencode, knows |-> credentials]

\* What was packaged and what was in place when a file was last synchronised.
Entry == [there : BOOLEAN, source : AssetContents, applied : AssetContents]
NoEntry == [there |-> FALSE, source |-> 0, applied |-> 0]
NoEntries == [f \in AssetFiles |-> NoEntry]

\* A command: how far it is, the version it installs and that of OpenCode, the
\* files still to be synchronised, the entries it is going to record, the file it
\* asks about with its content then, and what onboarding has come to.
Command == [at : {"none", "opencode", "package", "assets", "asking", "units", "restart",
                  "onboarding", "refresh", "model"},
            mode : {"install", "update"}, version : 0 .. MaxVersion,
            pin : OpencodeVersions, unattended : BOOLEAN, todo : SUBSET AssetFiles,
            entries : [AssetFiles -> Entry], file : AssetFiles, found : AssetContents,
            refreshed : BOOLEAN]
NoCommand == [at |-> "none", mode |-> "install", version |-> 0, pin |-> 0,
              unattended |-> TRUE, todo |-> {}, entries |-> NoEntries,
              file |-> CHOOSE f \in AssetFiles : TRUE, found |-> 0, refreshed |-> TRUE]

InstallerTypeOK ==
    /\ published \in Releases
    /\ home \in Home
    /\ service \in Service
    /\ assets \in [AssetFiles -> AssetContents]
    /\ backups \subseteq AssetContents
    /\ assetRecord \in [AssetFiles -> Entry]
    /\ command \in Command
    /\ credentials \in 0 .. MaxLogins
    /\ commands \in 0 .. MaxCommands
    /\ failures \in 0 .. MaxFailures
    /\ edited \subseteq LocalEdits
    /\ unseen \subseteq AssetFiles
    /\ unrecorded \subseteq AssetFiles

InstallerInit ==
    /\ published = 1
    /\ home = NoHome
    /\ service = Stopped
    /\ assets = [f \in AssetFiles |-> 0]
    /\ backups = {}
    /\ assetRecord = NoEntries
    /\ command = NoCommand
    /\ credentials = 0
    /\ commands = 0 /\ failures = 0
    /\ edited = {} /\ unseen = {} /\ unrecorded = {}

-------------------------------------------------------------------------------
(* Starting a command.                                                     *)

\* The wrapper, of the last version, installs the package for an install or when it
\* is missing; the package then runs.  The shim runs the package that is there, with
\* the version of OpenCode it was written with in the environment.
Bootstrapped(mode, by) ==
    IF by = "wrapper" /\ (mode = "install" \/ home.cli = 0) THEN published ELSE home.cli

\* applyDefaultInstallTarget: the version that runs, unless another is asked for.
TargetVersion(running, latest) == IF latest THEN published ELSE running

\* readOpenCodePackageVersion: the environment, else the lock of what runs.
OpencodePin(running, by) == IF by = "shim" THEN home.shim ELSE Pins[running]

Invokes(mode, by, latest, unattended) ==
    /\ command.at = "none" /\ commands < MaxCommands
    /\ by = "shim" => home.shim # 0 /\ home.cli # 0
    /\ LET running == Bootstrapped(mode, by)
       IN  /\ home' = [home EXCEPT !.cli = running]
           /\ command' = [NoCommand EXCEPT
                !.at = "opencode", !.mode = mode, !.unattended = unattended,
                !.version = TargetVersion(running, latest), !.pin = OpencodePin(running, by)]
    /\ commands' = commands + 1
    /\ UNCHANGED <<published, service, files, credentials, failures, edited, unseen,
                   unrecorded>>

\* installManagedPackage: a version takes the place of the one there is.
Installed(package, version) == [home EXCEPT ![package] = version]

InstallsOpencode ==
    /\ command.at = "opencode"
    /\ home' = Installed("opencode", command.pin)
    /\ command' = [command EXCEPT !.at = "package"]
    /\ UNCHANGED <<published, service, files, credentials, installerHistory>>

\* writeAgentMockingbirdShim: the shim exports the version of OpenCode.
Shimmed(installed) == [installed EXCEPT !.shim = command.pin]

\* The package is installed and the shim written.
InstallsPackage ==
    /\ command.at = "package"
    /\ home' = Shimmed(Installed("cli", command.version))
    /\ command' = [command EXCEPT !.at = "assets", !.todo = AssetFiles]
    /\ UNCHANGED <<published, service, files, credentials, installerHistory>>

-------------------------------------------------------------------------------
(* syncRuntimeWorkspaceAssets.                                             *)

NextAsset == CHOOSE f \in command.todo : TRUE
Shipped(f) == Packaged[command.version][f]

PackageChanged(f) ==
    ~assetRecord[f].there \/ assetRecord[f].source = 0 \/ assetRecord[f].source # Shipped(f)

BUG_LocallyChanged(f) == assetRecord[f].there /\ assets[f] = assetRecord[f].source
\* A file that is not recorded counts as unchanged, one that is no longer shipped
\* and not recorded does not come up.
LocallyChanged(f) == assetRecord[f].there /\ assets[f] # assetRecord[f].applied

\* The file is left as it is.
Spared(f) ==
    IF Shipped(f) # 0
    THEN assets[f] # 0 /\ command.mode = "update" /\ ~PackageChanged(f)
    ELSE assets[f] = 0 \/ ~assetRecord[f].there

\* An update and its user both want something of the file.
Conflict(f) == ~Spared(f) /\ assets[f] # 0 /\ command.mode = "update" /\ LocallyChanged(f)

\* The file becomes what is shipped, with this entry, or goes, with none.
ShippedEntry(f) ==
    IF Shipped(f) = 0 THEN NoEntry
    ELSE [there |-> TRUE, source |-> Shipped(f), applied |-> Shipped(f)]

Replaces(f) ==
    /\ assets' = [assets EXCEPT ![f] = Shipped(f)]
    /\ command' = [command EXCEPT !.at = "assets", !.todo = @ \ {f},
                                  !.entries[f] = ShippedEntry(f)]
    /\ unseen' = unseen \ {f}
    /\ unrecorded' = unrecorded \cup {f}

\* An entry is kept of what is in place, also of what is kept though not shipped.
Keeps(f, found) ==
    /\ command' = [command EXCEPT !.at = "assets", !.todo = @ \ {f},
                    !.entries[f] = IF found = 0 \/ (Spared(f) /\ Shipped(f) = 0)
                                   THEN NoEntry
                                   ELSE [there |-> TRUE, source |-> Shipped(f),
                                         applied |-> found]]
    /\ UNCHANGED <<assets, unseen, unrecorded>>

SyncsAsset ==
    /\ command.at = "assets" /\ command.todo # {}
    /\ LET f == NextAsset
       IN  \/ Spared(f) /\ Keeps(f, assets[f]) /\ UNCHANGED backups
           \/ /\ ~Spared(f) /\ ~Conflict(f)
              /\ Replaces(f) /\ UNCHANGED backups
           \/ /\ Conflict(f) /\ command.unattended
              /\ Replaces(f) /\ backups' = backups \cup {assets[f]}
           \/ /\ Conflict(f) /\ ~command.unattended
              /\ command' = [command EXCEPT !.at = "asking", !.file = f,
                                            !.found = assets[f]]
              /\ UNCHANGED <<assets, backups, unseen, unrecorded>>
    /\ UNCHANGED <<published, home, service, assetRecord, credentials, commands,
                   failures, edited>>

\* The user keeps the local file or takes the packaged one, without a backup.
Answers ==
    /\ command.at = "asking"
    /\ Keeps(command.file, command.found) \/ Replaces(command.file)
    /\ UNCHANGED <<published, home, service, backups, assetRecord, credentials,
                   commands, failures, edited>>

\* writeState, when all files are done.
RecordsAssets ==
    /\ command.at = "assets" /\ command.todo = {}
    /\ assetRecord' = command.entries
    /\ unseen' = {f \in unseen : command.entries[f].there
                                  /\ assets[f] # command.entries[f].applied}
    /\ unrecorded' = {f \in unrecorded : assets[f] # Shipped(f)}
    /\ command' = [command EXCEPT !.at = "units"]
    /\ UNCHANGED <<published, home, service, assets, backups, credentials, commands,
                   failures, edited>>

-------------------------------------------------------------------------------
(* Services.                                                               *)

\* The units are written, and what does not run is started.
WritesUnits ==
    /\ command.at = "units"
    /\ home' = [home EXCEPT !.units = TRUE]
    /\ service' = IF service = Stopped THEN Started ELSE service
    /\ command' = IF command.mode = "update" THEN [command EXCEPT !.at = "restart"]
                  ELSE IF command.unattended THEN NoCommand
                  ELSE [command EXCEPT !.at = "onboarding"]
    /\ UNCHANGED <<published, files, credentials, installerHistory>>

BUG_UpdateEnds ==
    /\ command.at = "restart"
    /\ command' = NoCommand
    /\ UNCHANGED <<published, home, service, files, credentials, installerHistory>>

\* An update restarts the services, checks them and is done.
UpdateEnds ==
    /\ command.at = "restart"
    /\ service' = Started
    /\ command' = NoCommand
    /\ UNCHANGED <<published, home, files, credentials, installerHistory>>

\* start, stop and restart.
ManagesServices ==
    /\ command.at = "none" /\ home.units /\ home.cli # 0
    /\ service' \in {Stopped, Started} \cup (IF service = Stopped THEN {} ELSE {service})
    /\ UNCHANGED <<published, home, files, command, credentials, installerHistory>>

\* A service that dies comes back, of what is installed then.
SystemdRestarts ==
    /\ service # Stopped /\ home.units /\ home.cli # 0 /\ home.opencode # 0
    /\ \/ service' = [service EXCEPT !.cli = home.cli]
       \/ service' = [service EXCEPT !.opencode = home.opencode, !.knows = credentials]
    /\ UNCHANGED <<published, home, files, command, credentials, installerHistory>>

\* The units, the shims and the packages go; data and workspace only when asked.
Uninstalls ==
    /\ command.at = "none" /\ home.cli # 0
    /\ service' = Stopped
    /\ home' = NoHome
    /\ \E purge \in BOOLEAN :
        IF purge
        THEN /\ assets' = [f \in AssetFiles |-> 0]
             /\ backups' = {}
             /\ assetRecord' = NoEntries
             /\ unseen' = {} /\ unrecorded' = {}
        ELSE UNCHANGED <<files, unseen, unrecorded>>
    /\ UNCHANGED <<published, command, credentials, commands, failures, edited>>

-------------------------------------------------------------------------------
(* Onboarding, at the end of an install or by itself.                      *)

Onboards ==
    /\ command.at = "none" /\ home.opencode # 0
    /\ command' = [NoCommand EXCEPT !.at = "onboarding"]
    /\ UNCHANGED <<published, home, service, files, credentials, installerHistory>>

\* opencode auth login.
LogsIn ==
    /\ command.at \in {"onboarding", "refresh"} /\ credentials < MaxLogins
    /\ credentials' = credentials + 1
    /\ command' = [command EXCEPT !.at = "refresh"]
    /\ UNCHANGED <<published, home, service, files, installerHistory>>

BUG_RefreshesAuth ==
    /\ command.at = "refresh"
    /\ command' = [command EXCEPT !.at = "model"]
    /\ UNCHANGED <<published, home, service, files, credentials, installerHistory>>

\* restartOpencodeServiceForAuthRefresh; a failure is a warning.
RefreshesAuth ==
    /\ command.at = "refresh"
    /\ \/ /\ home.units
          /\ service' = [service EXCEPT !.opencode = home.opencode, !.knows = credentials]
          /\ command' = [command EXCEPT !.at = "model"]
       \/ /\ command' = [command EXCEPT !.at = "model", !.refreshed = FALSE]
          /\ UNCHANGED service
    /\ UNCHANGED <<published, home, files, credentials, installerHistory>>

\* The model, memory and the import of a workspace are chosen through the API.
OnboardingEnds ==
    /\ command.at \in {"onboarding", "model"}
    /\ command' = NoCommand
    /\ UNCHANGED <<published, home, service, files, credentials, installerHistory>>

-------------------------------------------------------------------------------
(* The world.                                                              *)

Publishes ==
    /\ published < MaxVersion
    /\ published' = published + 1
    /\ UNCHANGED <<home, service, files, command, credentials, installerHistory>>

EditsAsset(f) ==
    /\ \E e \in LocalEdits \ edited :
        /\ \A later \in LocalEdits \ edited : e <= later
        /\ assets' = [assets EXCEPT ![f] = e]
        /\ edited' = edited \cup {e}
    /\ unseen' = unseen \cup {f}
    /\ UNCHANGED <<published, home, service, backups, assetRecord, command, credentials,
                   commands, failures, unrecorded>>

\* A program the command calls fails, or it is interrupted: perhaps while it writes
\* the record, which cannot be read then and counts as empty.
CommandFails ==
    /\ command.at \in {"opencode", "package", "assets", "asking", "units", "restart"}
    /\ failures < MaxFailures
    /\ failures' = failures + 1
    /\ command' = NoCommand
    /\ \/ UNCHANGED <<assetRecord, unseen, unrecorded>>
       \/ /\ command.at = "assets" /\ command.todo = {}
          /\ assetRecord' = NoEntries
          /\ unrecorded' = AssetFiles
          /\ UNCHANGED unseen
    /\ UNCHANGED <<published, home, service, assets, backups, credentials, commands, edited>>

InstallerNext ==
    \/ \E mode \in {"install", "update"}, by \in {"shim", "wrapper"},
          latest, unattended \in BOOLEAN : Invokes(mode, by, latest, unattended)
    \/ InstallsOpencode \/ InstallsPackage
    \/ SyncsAsset \/ Answers \/ RecordsAssets
    \/ WritesUnits \/ UpdateEnds \/ ManagesServices \/ SystemdRestarts \/ Uninstalls
    \/ Onboards \/ LogsIn \/ RefreshesAuth \/ OnboardingEnds
    \/ Publishes \/ (\E f \in AssetFiles : EditsAsset(f)) \/ CommandFails

InstallerSpec == InstallerInit /\ [][InstallerNext]_installerVars

-------------------------------------------------------------------------------
(* Properties.                                                             *)

\* What a user has written into an asset file since the last synchronisation that was
\* recorded is never lost by an update without a backup or the user's word, though
\* updates and installs fail anywhere before (cli/runtime-assets.mjs:143-193, and "It
\* does not reset runtime configuration, DB data, sessions, skills, or agents",
\* cli/agent-mockingbird.mjs:1562).  A lost record voids this: without an entry a
\* file counts as unchanged.
EditsSurviveUpdates ==
    [][\A f \in unseen :
        /\ assets'[f] # assets[f] /\ edited' = edited
        /\ command.at = "assets" /\ command.mode = "update"
        /\ assetRecord[f].there
        => assets[f] \in backups']_installerVars

\* When an update has come to its end, whatever commands have failed before it, the
\* services run the version it was for and the OpenCode of the shim, and every asset
\* file is the one of that version, or one that a user wrote, or one that a
\* synchronisation wrote without coming to record it; and once providers have been
\* connected and OpenCode restarted, it knows them (installOrUpdate,
\* restartOpencodeServiceForAuthRefresh).
CommandsTakeHold ==
    [][/\ InstallerTypeOK'
       /\ command.at = "restart" /\ UpdateEnds =>
            /\ service'.cli = command.version /\ home.cli = command.version
            /\ service'.opencode = home.shim
            /\ \A f \in AssetFiles \ unrecorded :
                assets[f] \in {Packaged[home.cli][f]} \cup LocalEdits
       /\ command.at = "model" /\ command.refreshed => service.knows = credentials]_installerVars
===============================================================================
